SPECIFICATION Spec
CONSTANTS
  Keys = {k1}
  NoKey = NoKey
  Requests = {user, root}
  Privileged = {root}
  Stoppers = {s1}
  MaxRuns = 1
  MaxLaunches = 1
CHECK_DEADLOCK FALSE
INVARIANT StopTerminatesGroup
