SPECIFICATION BootSpec
CONSTANTS
  MaxBlocks = 16
  WordBits = 4
  LowBlocks = 2
  BlockSize = 8
  KbBytes = 2
  Machines <- MCRoomy
  HeapStart = 48
  HeapBytes = 16
INVARIANTS
  OwnershipExact
  GrantedFramesUsable
  FreeCountExact
  ProbeIsNeutral
PROPERTIES
  RefusedOnlyWhenFewLeft
  ImplementsFrameAllocator
  KmainKeepsContract
