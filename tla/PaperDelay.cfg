SPECIFICATION Spec
CONSTANTS
  None = None
  Minute = 2
  Open = 2
  SessionLength = 6
  DayLength = 11
  Signals = {4, 6}
  MaxTrades = 1
  FeedMaxAge = 2
  FeedDelay = 1
  MaxTime = 11
  MaxCrashes = 0
  OperatorHalts = TRUE
INVARIANTS FillsInItsMinute
CHECK_DEADLOCK FALSE
