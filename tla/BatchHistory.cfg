SPECIFICATION Spec
CONSTANTS
  HistoryMax = 2
  NoFile = NoFile
  Partial = Partial
  MaxBatches = 4
  MaxCrashes = 2
CHECK_DEADLOCK FALSE
INVARIANTS TypeOK RecordedIsKept
PROPERTY ImplementsLog
