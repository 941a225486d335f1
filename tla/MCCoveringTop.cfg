CONSTANTS
  Origins = 2
  Segments = 2
  Fan = 2
  MaxRes = 2
  TopQuintants = 3
  NA = NA
  NULL = NULL
  Bad = Bad
  MaxCells = 6
  CellInputs <- MCCellInputs
  RawInputs <- MCRawInputs
SPECIFICATION Spec
INVARIANTS
  RoundTrip
CHECK_DEADLOCK FALSE
