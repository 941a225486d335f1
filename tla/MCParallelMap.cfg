CONSTANTS
  MaxLen = 4
  MaxThreads = 3
  ParMin = 2
  ChunksPerThread = 1
  MinChunk = 1
  NA = NA
  Unset = Unset
  Failed = Failed
  Waiting = Waiting
SPECIFICATION FairSpec
INVARIANTS
  TypeOK
  
  FirstInOrder
PROPERTIES
  IsSequential
  Completes
CHECK_DEADLOCK FALSE
