SPECIFICATION FairSpec
CONSTANTS
  Base = 1
  HeapStart = 3
  HeapUnits = 9
  HeaderBytes = 2
  SizeMod = 64
  Stale = Stale
  Requests <- MCRequests
INVARIANTS
  BlocksTileHeap
  BlocksBigEnough
  FreeListSorted
  FreeBlocksCoalesced
PROPERTIES
  CallsReturn
  ImplementsBlockAllocator
