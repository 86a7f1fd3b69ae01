CONSTANTS
  MaxHeight = 5
  QueueCap = 3
  ProbeBatch = 2
  ResultCap = 1
SPECIFICATION Spec
INVARIANTS WatermarkTrue
PROPERTIES LastHeadConfirmed ProberEnds
