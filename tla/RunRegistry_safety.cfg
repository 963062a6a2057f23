SPECIFICATION Spec
CONSTANTS
  Keys = {k1}
  NoKey = NoKey
  Requests = {user, root}
  Privileged = {root}
  Stoppers = {s1}
  MaxRuns = 2
  MaxLaunches = 3
CHECK_DEADLOCK FALSE
INVARIANTS TypeOK AtMostOneActive ActiveIsRetained OneRunPerKey EndedRunHasStopped
PROPERTIES StopBeforeStartPreventsSpawn
