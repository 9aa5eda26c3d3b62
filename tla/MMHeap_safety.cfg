\* Safety and promise of mm.c under every trace over two blocks.
CONSTANTS
  MAX_HEAP = 16
  Index = {1, 130}
  Request = {1, 3, 5}
  CHUNKSIZE = 4
  CHAR = 256
  Garbage <- MCGarbage
SPECIFICATION Spec
INVARIANTS
  TypeOK
  HeapWellFormed
  Coalesced
  NoLeak
  FirstFit
  TraceValid
  DataIntact
  FreedHeapIsWhole
PROPERTY
  ImplementsMalloc
