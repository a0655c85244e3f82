SPECIFICATION FairSpec
CONSTANTS
  None = None
  DayOf <- MCDayOf
  CandleEnds = {1, 3}
  MaxTime = 5
  DayLength = 5
  Minute = 2
  MaxTrades = 1
  FeedMaxAge = 2
  MaxCrashes = 2
  ReportsLevels = TRUE
  PortRaises = FALSE
  BrokerExits = TRUE
  OperatorHalts = TRUE
INVARIANTS TypeOK AcceptedIsDurable DailyLimit
PROPERTIES PendingResolves NoBlindBuy KeepsLifecycle
CHECK_DEADLOCK FALSE
