SPECIFICATION InstructionsSpec
CONSTANTS
  Width <- MCWidth
  Wide = 16
  ByteBits = 2
  Operands <- MCOperands
  MemorySize = 5
  VectorWidth <- MCVectorWidth
  VectorMemory <- MCVectorMemory
  VectorBytes <- MCVectorBytes
  VectorCodes <- MCVectorCodes
  VectorBanks <- MCVectorBanks
  Memories <- MCMemories
  Programs <- MCPrograms
INVARIANTS
  CarryChains
  OverflowIsExact
  SaturatesToNearest
  QuotientsAndRoots
  BitsMove
  SearchesReadTexts
  CopiesAreWhole
  Utf8Agrees
  LanesAreScalars
  MaskedLanesOnly
  LanesComeBack
  MasksAreSets
\* A job and a program end.
CHECK_DEADLOCK FALSE
