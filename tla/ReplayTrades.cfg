SPECIFICATION Spec
CONSTANTS
  None = None
  StartingEquity = 12
  MaxTrades = 2
  MaxStreak = 2
  LossNum = 1
  LossDen = 6
  DateOf <- MCSessionDate
  StampDate <- MCSessionDate
  SessionDate <- MCSessionDate
  Streams <- MCStreams
  IntentLists <- MCIntentLists
  MaxCrashes = 2
  OperatorHalts = TRUE
INVARIANTS TypeOK FilledOnce RecoveredAgrees TradesAsSpecified
CHECK_DEADLOCK FALSE
