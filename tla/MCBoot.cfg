SPECIFICATION FairSpec
CONSTANTS
  PAGING_PDE_COUNT = 6
  KERNEL_PDE_INDEX = 3
  ModuleCounts = {0, 1, 2}
INVARIANTS
  AccessesLand
  HigherHalfOnly
  InterruptsReceivable
PROPERTIES
  BootsWithoutModules
