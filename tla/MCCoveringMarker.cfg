CONSTANTS
  Origins = 2
  Segments = 2
  Fan = 2
  MaxRes = 2
  TopQuintants = 4
  NA = NA
  NULL = NULL
  Bad = Bad
  MaxCells = 6
  CellInputs <- MCCellInputs
  RawInputs <- AnyRawInputs
SPECIFICATION Spec
INVARIANTS
  AlwaysValid
CHECK_DEADLOCK FALSE
