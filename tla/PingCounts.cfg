SPECIFICATION Spec
CONSTANTS
  MaxBuckets = 1
  Hours = 1
  Factor = 2
  MaxMinutes = 3
  MaxSamples = 3
  MaxStops = 1
CHECK_DEADLOCK FALSE
INVARIANTS TypeOK CountsAreTrue SummaryIsBracketed
