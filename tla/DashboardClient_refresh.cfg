SPECIFICATION FairSpec
CONSTANTS
  Workloads = {w1, w2}
  Invalid = {w2}
  None = None
  MAX_RUNS = 1
  MaxLaunches = 2
  MaxKeys = 2
  MaxRestarts = 1
CHECK_DEADLOCK FALSE
PROPERTIES RefreshRecovers
