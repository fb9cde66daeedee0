SPECIFICATION UserSpec
CONSTANTS
  PAGE_SIZE = 32
  Longs = 65536
  Ints = 8192
  Heap = {64, 65, 66, 67, 68, 69, 70, 71, 72}
  StackAt = 100
  Sizes = {0, 3, 17, 84, 100}
  Lengths = {32, 84}
  NULL = NULL
  MaxCalls = 5
  Width = 7
  Height = 3
  Side = 2
  PagePixels = 8
  Header = 1
  Glyphs = {10, 20}
  MaxLogs = 3
INVARIANTS UserHeapTypeOK BlocksApart BlocksUsable OverrunConfined BuffersPlaced ScreenTypeOK BuffersKept FrameShown
PROPERTIES BouncesForever
CHECK_DEADLOCK FALSE
