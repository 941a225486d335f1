CONSTANTS
  Turn = 12
  Rings <- MCRings
  MaxArcs = 3
  NA = NA
  World = World
SPECIFICATION Spec
INVARIANTS
  BoxCovers
CHECK_DEADLOCK FALSE
