CONSTANTS
  MemSize = 3
  Word = 16
  Byte = {0, 1}
  Sizes = {1, 2}
  Pointers = {0, 1, 2}
SPECIFICATION Spec
PROPERTY MemSetNeedsAllocation
CHECK_DEADLOCK FALSE
