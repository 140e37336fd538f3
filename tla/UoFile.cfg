CONSTANTS
  Programs <- MCPrograms
  Projects <- MCProjects
  Printed <- MCPrinted
  Calls <- MCCalls
  Worlds <- MCWorlds
  MaxCalls = 3
SPECIFICATION CommandsSpec
INVARIANTS
  OnlyWholeFilesRead
  WholeFilesReadBack
  BuildIsTheSources
  GatesAreExact
  Reassembles
  HostsAgree
\* The commands and the calls of a program end.
CHECK_DEADLOCK FALSE
