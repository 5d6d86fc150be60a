CONSTANTS
  Methods <- MCStop
  Foreign <- MCNoForeign
  MaxCalls = 1
SPECIFICATION Spec
INVARIANT ExecutesAsPromised
CHECK_DEADLOCK FALSE
