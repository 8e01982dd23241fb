CONSTANTS
  DeferIndexes = TRUE
  Interval = 2
  BatchSize = 2
  Files <- MCPcapFiles
  MaxImports = 1
  MaxLearns = 0
  MaxWrites = 0
SPECIFICATION Spec
CHECK_DEADLOCK FALSE
INVARIANTS WholeFileStored
