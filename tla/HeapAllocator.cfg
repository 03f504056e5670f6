SPECIFICATION Spec
CONSTANTS
  ALLOC_CAP = 6
  CHUNKS_CAP = 4
  heap = 100
  PastEnd <- ZeroChunk
  MaxCalls = 12
INVARIANTS
  TypeOK
  AllocedSorted
  Accounted
  OwnedInUse
CHECK_DEADLOCK FALSE
