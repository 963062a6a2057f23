SPECIFICATION FairSpec
CONSTANTS
  None = None
  Invalid = Invalid
  Replies <- MCReplies
  Cap = 2
  Timeout = 2
  MaxAddresses = 2
  Arguments <- MCArguments
  LimitSets <- MCLimitSets
  Suite <- MCSuite
  Codes <- MCCodes
  MaxLines = 4
  MaxDetail = 1
CHECK_DEADLOCK FALSE
INVARIANTS TypeOK AllOrNothing PacedWithinLimits AdmittedIsAccepted ExitTellsTruth BatchIsTrue
PROPERTIES EveryWorkloadStarts EndsUnlessSubmitRaises
