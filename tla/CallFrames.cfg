CONSTANTS
  MemSize = 5
  Word = 16
  Sizes = {0, 1, 2}
  MaxDepth = 3
SPECIFICATION FramesSpec
INVARIANTS
  BlocksHaveOneOwner
  FreeingNeverTraps
PROPERTY CallersKeepTheirAllocas
CHECK_DEADLOCK FALSE
