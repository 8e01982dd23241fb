CONSTANTS
  DeferIndexes = TRUE
  Interval = 2
  BatchSize = 1
  Files <- MCEmptyFiles
  MaxImports = 1
  MaxLearns = 1
  MaxWrites = 0
SPECIFICATION Spec
CHECK_DEADLOCK FALSE
INVARIANTS StopEndsLearning
