CONSTANTS
  Origins = 2
  Segments = 3
  Fan = 2
  MaxRes = 2
  TopQuintants = 2
  NA = NA
  NULL = NULL
  Bad = Bad
  MaxCells = 5
  CellInputs <- MCCellInputs
  RawInputs <- MCRawInputs
SPECIFICATION Spec
INVARIANTS
  TypeOK
  CanonicalForm
  AlwaysValid
  ContainsIsMembership
  CountIsLength
  EstimateExact
  RoundTripWithIds
PROPERTIES
  StepsOnSets
CHECK_DEADLOCK FALSE
