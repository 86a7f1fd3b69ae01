CONSTANTS
  Hash <- MCHash
  MaxSize = 3
  AutoAdjust = TRUE
  RefSpan = 2
  Deliverable <- MCDeliverable
  Reports <- MCReports
  Seeds <- MCSeeds
SPECIFICATION Spec
INVARIANTS WindowBounded UndoLogComplete FinalizedPrefixKept
PROPERTIES RollbackRestores ImplementsPublished
