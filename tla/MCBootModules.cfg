SPECIFICATION FairSpec
CONSTANTS
  PAGING_PDE_COUNT = 6
  KERNEL_PDE_INDEX = 3
  ModuleCounts = {2}
PROPERTIES
  BootCompletes
