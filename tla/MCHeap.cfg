SPECIFICATION FairSpec
CONSTANTS
  HeapStart = 32
  PAGE_SIZE = 32
  InitialHeapPages = 1
  GrowPages = 2
  SIZE_MAX = 255
  MaxFrames = 4
  Sizes <- MCSizes
  CallocArgs <- MCCallocArgs
  ForeignPtrs <- MCForeignPtrs
INVARIANTS
  TypeOK
  FreeListCoalesced
  BlocksDisjoint
  NoLostMemory
  LiveBlocksFreeable
  PayloadFits
  HeapBacked
PROPERTIES
  ImplementsAllocator
  CallsReturn
