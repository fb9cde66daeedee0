CONSTANTS
  HEAP_START = 2
  MAX_HEAP_SIZE = 6
  BasePages = 1
  Sizes = {1, 2, 3}
  Nodes = {11, 12, 13}
SPECIFICATION Spec
INVARIANTS ChainWellFormed PagePartition
PROPERTIES ImplementsAddressSpace CallsReturn
