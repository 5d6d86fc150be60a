CONSTANTS
  Methods <- MCFaithful
  Foreign <- MCForeign
  MaxCalls = 3
SPECIFICATION Spec
INVARIANTS TypeOK ExecutesAsPromised AnswerComes
CHECK_DEADLOCK FALSE
