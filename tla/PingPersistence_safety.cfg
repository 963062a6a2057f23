SPECIFICATION Spec
CONSTANTS
  Kinds = {"wifi"}
  BUCKETS = 1
  MaxMinutes = 3
  MaxSignals = 2
  MaxStops = 2
CONSTRAINT FewMinutes
CHECK_DEADLOCK FALSE
INVARIANTS TypeOK TornOnlyByOverlap SavedIsKept
