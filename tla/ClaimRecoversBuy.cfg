SPECIFICATION Spec
CONSTANTS
  None = None
  DayOf <- MCDayOf
  CandleEnds = {1, 4}
  MaxTime = 6
  DayLength = 6
  Minute = 2
  MaxTrades = 1
  FeedMaxAge = 2
  MaxCrashes = 2
  ReportsLevels = TRUE
  PortRaises = FALSE
  BrokerExits = FALSE
  OperatorHalts = FALSE
PROPERTIES StartupRecoversBuy
CHECK_DEADLOCK FALSE
