CONSTANTS
  Turn = 12
  Rings <- MCRings
  MaxArcs = 3
  NA = NA
  World = World
SPECIFICATION Spec
INVARIANTS
  TypeOK
  ArcsAreSwept
  MergedIsUnion
  BoxCoversApart
  BoxIsSmallest
CHECK_DEADLOCK FALSE
