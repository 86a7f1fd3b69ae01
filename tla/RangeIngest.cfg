CONSTANTS
  Tasks = {t1, t2}
  Heads <- MCHeads
  NoView = NoView
  NoHead = NoHead
  MaxEpoch = 2
  ForkAt = 4
  EnrichRetries = 1
  From = 1
  To = 6
  StrideSize = 2
  StrideConcurrency = 2
  PipelineDepth = 3
  NoNum = NoNum
  NoHash = NoHash
SPECIFICATION IngestSpec
CHECK_DEADLOCK FALSE
INVARIANTS StreamIsChain ForkIsReal FaultLeavesNoGap ViewIsOfEpoch
PROPERTIES StreamEnds
