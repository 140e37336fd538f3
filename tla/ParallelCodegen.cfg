CONSTANTS
  ImmRange = 32
  Programs <- MCPrograms
  Requests = {0, 2, 3, 9}
  MaySpawn = {"started", "refused"}
SPECIFICATION Spec
INVARIANTS
  NoDataRace
  CallsReachCallees
PROPERTIES
  ImplementsCompileProgram
  Terminates
CHECK_DEADLOCK FALSE
