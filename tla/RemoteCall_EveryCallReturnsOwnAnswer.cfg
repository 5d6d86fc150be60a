CONSTANTS
  member = member
  local = local
  Objects <- MCObjects
  Stack <- MCStack
  MaxCalls = 3
SPECIFICATION Spec
INVARIANT EveryCallReturnsOwnAnswer
CHECK_DEADLOCK FALSE
