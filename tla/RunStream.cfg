SPECIFICATION FairSpec
CONSTANTS
  Clients = {c1, c2}
  Handlers = {h1, h2}
  None = None
  MaxLines = 2
  QueueSize = 2
  MaxSubscribers = 2
  MaxEvents = 3
  MaxBreaks = 1
CHECK_DEADLOCK FALSE
INVARIANTS TypeOK NoStrandedHandler NoLeakedSubscription InOrderNoDuplicates
PROPERTIES GapOnlyWhileDraining EveryViewerSeesTheEnd
