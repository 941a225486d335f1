SPECIFICATION Spec
CONSTANTS
  Points <- MCPoints
  Axes = 2
  Same <- MCSame
  ArcsCross <- MCArcsCross
  Low <- MCLow
  High <- MCHigh
  Cells <- MCCells
  Calls <- MCCalls
  NA = NA
  Bad = Bad
  NULL = NULL
INVARIANTS
  TypeOK
  SweepExact
  FirstCrossing
  FeaturesExact
  PathsExact
CHECK_DEADLOCK FALSE
