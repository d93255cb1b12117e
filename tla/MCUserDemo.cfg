SPECIFICATION FairSpec
CONSTANTS
  PAGE_SIZE = 8
  TableSize = 6
  VgaPage = 2
  KernelPages = {3}
  USER_CODE_VIRT_BASE = 48
  USER_VIRT_STACK_TOP = 143
  Frames = {1, 4, 5}
  LinkBases = {0, 48}
  Sizes = {6, 8, 9}
  Message <- MCMessage
CHECK_DEADLOCK FALSE
INVARIANTS
  UserIsConfined
  KernelGoesOn
  UserPagesServe
  RingThreeSealed
PROPERTIES
  FittingMessageShown
