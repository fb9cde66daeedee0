CONSTANTS
  ENTRIES = 14
  BOOT_START = 0
  BOOT = {0}
  KERNEL_TEXT = {1}
  KERNEL_RODATA = {2}
  KERNEL_DATA = {3}
  OS_TEXT = {4}
  OS_RODATA = {}
  OS_DATA = {5}
  KERNEL_BSS = {6, 7, 8, 9}
  OS_BSS = {10}
  PML4T = 6
  PDPT = 7
  PDT = 8
  PT = 9
  FIRST_FREE_PAGE = 11
  DataBase = 13
  LastFrame = 27
  MAX_HEAP_SIZE = 15
  FrameBuffer = 100
  FbPages = 11
  BasePages = 1
  Sizes = {1, 2}
  Watched = {4, 26}
SPECIFICATION Spec
INVARIANTS PagingTypeOK TablesReachable FramesExclusive SpansMapped UserConfined UserReaches WriteXorExecute TlbSameFrame
