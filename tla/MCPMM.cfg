CONSTANTS
  WordBits = 4
  PAGES = 4
  ReservedStart = 3
  MEM_START = 9
  AddressPages = 32
SPECIFICATION PMMSpec
INVARIANTS PMMTypeOK FramePartition
PROPERTIES NoDoubleAllocation ImplementsPool
