CONSTANTS
  MemSize = 4
  Word = 16
  Byte = {0, 1}
  Sizes = {0, 1, 2, 3}
  Pointers = {0, 1, 2, 3}
SPECIFICATION Spec
INVARIANTS
  TypeOK
  HeapTiled
  LiveAllocationsDisjoint
PROPERTIES
  BlockStartsAreForever
  ImplementsObjects
CHECK_DEADLOCK FALSE
