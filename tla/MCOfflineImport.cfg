CONSTANTS
  DeferIndexes = TRUE
  Interval = 2
  BatchSize = 2
  Files <- MCFiles
  MaxImports = 2
  MaxLearns = 1
  MaxWrites = 2
SPECIFICATION Spec
CHECK_DEADLOCK FALSE
INVARIANTS SuccessLeavesAtRest LearningRestored AloneSucceeds StoredOnce
PROPERTIES ImportEnds
