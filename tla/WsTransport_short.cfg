CONSTANTS
  Calls = {"a", "ab"}
  Ids <- MCIds
  Timed = {"a", "ab"}
  MaxDials = 2
  None = None
SPECIFICATION WsSpec
CHECK_DEADLOCK FALSE
INVARIANT ProtocolMeansShort
