CONSTANTS
  StackSize = 9
  Sizes = 256
  MaxDepth = 2
  Positions = {}
  PopTypes = {}
  Values <- MCValues
  Pushes <- TypedPushes
SPECIFICATION DisciplinedSpec
INVARIANTS
  StackHoldsPushed
PROPERTY PopReturnsPushed
CHECK_DEADLOCK FALSE
