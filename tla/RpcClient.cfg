CONSTANTS
  WindowSize = 2
  SlotTime = 2
  CallCount = 3
  Configs <- MCConfigs
  Errors = {"timeout", "protocol", "internal", "fatal"}
  RetryAttempts = 1
  MaxLatency = 3
  MaxClock = 40
  Unanswered = Unanswered
  CallFailed = CallFailed
SPECIFICATION Spec
CHECK_DEADLOCK FALSE
INVARIANTS OwnAnswers WindowNeverExceeded
PROPERTIES RequestEnds
