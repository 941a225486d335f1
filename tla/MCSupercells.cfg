SPECIFICATION Spec
CONSTANTS
  Origins = 3
  Segments = 2
  Fan = 4
  MaxRes = 3
  TopQuintants = 5
  Super <- MCSuper
  Subcells <- MCSubcells
  Neighbours <- MCNeighbours
  BudgetUnit = 1
  MinBudget = 3
  Coverings <- MCCoverings
  NULL = NULL
INVARIANTS
  TypeOK
  SupercellsExact
  SearchClosed
  DescendantsExact
PROPERTIES
  Returns
CHECK_DEADLOCK FALSE
