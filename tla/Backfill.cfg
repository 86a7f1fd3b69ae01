CONSTANTS
  Hash <- MCHash
  MaxSize = 2
  AutoAdjust = TRUE
  RefSpan = 2
  NoHash = NoHash
  NoBlock = NoBlock
  BaseHashes <- MCBaseHashes
  Tails <- MCTails
  SourceBatches <- MCSourceBatches
  ChannelSize = 2
SPECIFICATION Spec
INVARIANTS BodyIsChain CompleteIsWhole
PROPERTIES ReapedAfterResponse
CHECK_DEADLOCK FALSE
