CONSTANTS
  Within <- Words
  Wild <- Wildcards
  Below <- TextOrder
  Contents <- MCContents
  Requests <- SomeRequests
  PageSize = 2
  ChunkSize = 2
  ExportLimit = 2
  MaxRows = 3
SPECIFICATION Spec
INVARIANTS SqlAgreesWithMatcher AnswerExact OldestFirstIsStable NoRowTwice ExportIsComplete
