SPECIFICATION Spec
CONSTANTS
  None = None
  Prices <- MCPrices
  Initial <- MCInitial
  MaxDays = 3
  MaxCandles = 4
  StartingEquity = 20
  MaxTrades = 2
  MaxStreak = 1
  LossNum = 1
  LossDen = 5
  RRNum = 1
  RRDen = 2
  EntrySlip = 1
  ExitSlip = 1
  Commission = 0
  Liquidates = TRUE
INVARIANTS TypeOK BooksAgree LevelsAgree
PROPERTIES ExitIsFirstTouch StreakStaysShut
CHECK_DEADLOCK FALSE
