SPECIFICATION Spec
CONSTANTS
  None = None
  StartingEquity = 12
  MaxTrades = 1
  MaxStreak = None
  LossNum = 1
  LossDen = 1
  DateOf <- MCUtcDate
  StampDate <- MCSessionDate
  SessionDate <- MCSessionDate
  Streams <- MCOneDate
  IntentLists <- MCIntentLists
  MaxCrashes = 1
  OperatorHalts = FALSE
INVARIANT SessionLimit
CHECK_DEADLOCK FALSE
