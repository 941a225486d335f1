CONSTANTS
  Origins = 3
  Segments = 2
  Fan = 2
  MaxRes = 2
  TopQuintants = 6
  NA = NA
  NULL = NULL
  Bad = Bad
  MaxCells = 10
  CellInputs <- MCCellInputs
  RawInputs <- MCRawInputs
SPECIFICATION Spec
INVARIANTS
  UncompactFits
CHECK_DEADLOCK FALSE
