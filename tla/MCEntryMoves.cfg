SPECIFICATION FairCallSpec
CONSTANTS
  Register <- MCRegister
  Loc <- MCLoc
  Temp = "x8"
  MoveSets <- MCMoveSets
  ArgRegs <- MCArgRegs
  Calls <- MCCalls
  NoFun = "none"
  TempRegs <- MCTempRegs
  Incoming <- MCIncoming
  Unknown = "unknown"
INVARIANTS
  PendingIntact
  StuckInCycles
  ArgumentsDelivered
  ParametersArrive
PROPERTIES
  IsParallelAssignment
  Termination
