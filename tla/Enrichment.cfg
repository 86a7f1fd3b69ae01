SPECIFICATION Spec
CONSTANTS
  None = None
  CallError = CallError
  Incoherent = Incoherent
  Failed = Failed
  Height = 1
  Setups <- MCSetups
  Trees <- MCTrees
  EnrichRetries = 2
  LegsOnlyRetries = 1
  NotReadyBudget = 4
INVARIANTS ServedBelongs TraceTreeKept HealsOnceSettled
PROPERTY EnrichmentEnds
