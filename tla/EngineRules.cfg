SPECIFICATION Spec
CONSTANTS
  None = None
  Prices <- MCPrices
  PDL = 2
  PDH = 6
  StopBuffer = 0
  RRNum = 3
  RRDen = 2
  MaxTrades = 1
  Sustained = 2
  MaxMinutes = 5
INVARIANTS TypeOK BuyGeometry SustainedDownsideEnds
PROPERTIES SweepLowCovers GivesUpOnSustained KeepsContract
CHECK_DEADLOCK FALSE
