SPECIFICATION Spec
CONSTANTS
  None = None
  DayOf <- MCDayOf
  CandleEnds = {1, 4}
  MaxTime = 6
  DayLength = 6
  Minute = 3
  MaxTrades = 2
  FeedMaxAge = 2
  MaxCrashes = 2
  ReportsLevels = TRUE
  PortRaises = TRUE
  BrokerExits = FALSE
  OperatorHalts = FALSE
INVARIANTS SoldOnce AcceptedCloseIsDurable
PROPERTIES KeepsLifecycle HaltBlocksBuy
CHECK_DEADLOCK FALSE
