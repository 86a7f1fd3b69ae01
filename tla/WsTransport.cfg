CONSTANTS
  Calls = {"a", "ab"}
  Ids <- MCIds
  Timed = {"a"}
  MaxDials = 2
  None = None
SPECIFICATION WsSpec
CHECK_DEADLOCK FALSE
INVARIANTS SiblingsUndisturbed
PROPERTIES DrainEndsWaiters
