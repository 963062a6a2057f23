SPECIFICATION Spec
CONSTANTS
  None = None
  Malformed = {"bad"}
  Window = 1
  Skew = 1
  Lines <- MCLines
  EventTags = {"CREATE", "DENY"}
  LegacyTags = {"CREATE"}
  MaxEvents = 2
  Protocols = {"udp", "tcp"}
  MaxLogged = 3
  MaxTime = 3
  MaxStarts = 2
  Descriptors <- MCDescriptors
  Truths <- MCTruths
  Captures <- MCCaptures
CONSTRAINT FewLines
CHECK_DEADLOCK FALSE
INVARIANTS TypeOK VerdictTable PassIsJustified EventsTellTheLog
PROPERTY SilentAfterStop
