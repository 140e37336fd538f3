CONSTANTS
  MemSize = 3
  Word = 8
  Byte = {0}
  Sizes = {1, 2, 7}
  Pointers = {0}
SPECIFICATION Spec
INVARIANT LiveAllocationsDisjoint
CHECK_DEADLOCK FALSE
