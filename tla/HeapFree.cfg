SPECIFICATION Spec
CONSTANTS
  ALLOC_CAP = 6
  CHUNKS_CAP = 4
  heap = 100
  PastEnd <- ZeroChunk
  MaxCalls = 12
PROPERTIES
  FreesRightChunk
CHECK_DEADLOCK FALSE
