CONSTANTS
  colMax = 2
  rowMax = 2
  TAB_SIZE = 2
  MaxText = 5
SPECIFICATION Spec
INVARIANTS CopyIsExact
