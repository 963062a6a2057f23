SPECIFICATION FairSpec
CONSTANTS
  Kinds = {"ping"}
  BUCKETS = 1
  MaxMinutes = 1
  MaxSignals = 2
  MaxStops = 0
CHECK_DEADLOCK FALSE
PROPERTY SignalEndsProcess
