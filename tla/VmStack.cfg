CONSTANTS
  StackSize = 5
  Sizes = 256
  MaxDepth = 2
  Positions <- MCPositions
  Values <- MCValues
  PopTypes <- MCPopTypes
SPECIFICATION Spec
INVARIANTS
  TypeOK
  SavedFlagsIntact
CHECK_DEADLOCK FALSE
