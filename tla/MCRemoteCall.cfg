CONSTANTS
  member = member
  local = local
  Objects <- MCObjects
  Stack <- MCStack
  MaxCalls = 4
SPECIFICATION FairSpec
INVARIANTS TypeOK ResponseIsCurrent ReturnsOwnAnswer NoAnswerAfterError IdleMeansUntouched
PROPERTIES ResponseStable CallsComplete KeepsContract
CHECK_DEADLOCK FALSE
