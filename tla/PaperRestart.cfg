SPECIFICATION Spec
CONSTANTS
  None = None
  Minute = 2
  Open = 0
  SessionLength = 6
  DayLength = 8
  Signals = {2, 4}
  MaxTrades = 1
  FeedMaxAge = 4
  FeedDelay = 0
  MaxTime = 10
  MaxCrashes = 1
  OperatorHalts = FALSE
INVARIANTS TypeOK MemoryIsDurable AlwaysRecoverable DailyLimit
PROPERTIES KeepsLifecycle
CHECK_DEADLOCK FALSE
