CONSTANTS
  MaxToken = 3
  MaxImports = 2
SPECIFICATION Spec
CHECK_DEADLOCK FALSE
INVARIANTS RowsAnswerTheRequest ImportsReported
PROPERTIES NothingDrawnAfterLogout PageComesBack
