CONSTANTS
  Hash <- MCHash
  MaxSize = 3
  AutoAdjust = TRUE
  RefSpan = 2
  NoRef = NoRef
  NoHash = NoHash
  Buffers <- MCBuffers
  Froms <- MCFroms
  BaseHashes <- MCBaseHashes
SPECIFICATION Spec
PROPERTIES VerdictOfTheMoment RecoveryConverges AnswersEventually CommitReleasesWaiter
