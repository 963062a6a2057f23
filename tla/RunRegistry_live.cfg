SPECIFICATION FairSpec
CONSTANTS
  Keys = {}
  NoKey = NoKey
  Requests = {user, root}
  Privileged = {root}
  Stoppers = {s1, s2}
  MaxRuns = 1
  MaxLaunches = 2
CHECK_DEADLOCK FALSE
PROPERTIES StopEndsRun EveryRunEnds
