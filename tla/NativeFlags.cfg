CONSTANTS
  Width <- MCWidth
  Wide = 8
  ByteBits = 1
  MemorySize = 8
  Inputs <- Flags
  Regs = {0, 1, 2, 3, 4}
  MaxCalls = 5
  Fills = {5}
  ArgRegs = 2
  ChunkBits = 1
  ImmRange = 256
  CondRange = 128
  FieldRange = 64
  StackWords = 40
SPECIFICATION Spec
INVARIANT AcceptedMeansFaithful
CHECK_DEADLOCK FALSE
