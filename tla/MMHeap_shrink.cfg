\* mm_realloc when a trace shrinks a block by a splittable amount.
CONSTANTS
  MAX_HEAP = 16
  Index = {0, 1}
  Request = {1, 6}
  CHUNKSIZE = 8
  CHAR = 256
  Garbage <- MCGarbage
SPECIFICATION AnyTraceSpec
INVARIANTS
  ReallocKeepsData
