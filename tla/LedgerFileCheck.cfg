SPECIFICATION Spec
CONSTANTS
  None = None
  buy1 = buy1
  buy2 = buy2
  close1 = close1
  close2 = close2
  Garbage = Garbage
  DayOf <- MCDayOf
  Events <- MCEvents
  MaxLines = 4
INVARIANTS TypeOK NoSilentLoss SnapshotMeansHistory
CHECK_DEADLOCK FALSE
