CONSTANTS
  HEAP_START = 2
  MAX_HEAP_SIZE = 11
  l_pageSize = 32
  l_pageCount = 2
  KmallocSizes = {28, 50}
  MmapSizes = {1, 2}
  MaxObjects = 3
  MaxSpans = 2
SPECIFICATION Spec
INVARIANTS ObjectsDisjoint HeapListsIntact HeapPagesAccounted FaultHasCause
CHECK_DEADLOCK FALSE
