CONSTANTS
  Hash <- MCHash
  MaxSize = 2
  AutoAdjust = TRUE
  RefSpan = 2
  NoRef = NoRef
  BadHash <- MCBadHash
  FreeRetries = 1
  StallLimit = 2
  Seeds <- MCSeeds
  Batches <- MCBatches
  ForkSignals <- MCForkSignals
  SeedRefs <- MCSeedRefs
  SeedBatches <- MCSeedBatches
  MaxSignals = 2
SPECIFICATION ProcessSpec
INVARIANTS ObligationHonoured ForkBaseIsTarget ExitZeroIsClean
PROPERTIES ImplementsPublished LadderEscalates ShutdownEndsRun DeadIngestionExits
