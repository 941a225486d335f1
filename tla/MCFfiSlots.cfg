SPECIFICATION Spec
CONSTANTS
  TopBytes = 4
  Keep = 2
  LowIds = 2
  Half = 2
  Base = 2
  MaxDigits = 3
  NA = NA
  Bad = Bad
  NULL = NULL
  Holders = {h1, h2}
  Payloads = {1, 2, 3, 4, 5, 6}
  MaxTotal = 3
  Vectors <- MCVectors
  Columns <- MCColumns
INVARIANTS
  TypeOK
  ReleasedOnce
  OwnedOnce
  ViewsAgree
PROPERTIES
  ReadExact
  Reclaimed
