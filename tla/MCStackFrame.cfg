SPECIFICATION Spec
CONSTANTS
  Functions <- MCFunctions
  Variables <- NoVariables
  CalleeSaveRegs <- MCCalleeSaveRegs
  Value = {1, 2}
  StackTop = 112
INVARIANTS
  Restored
  SlotsHold
  ArgumentsArrive
  OperandsRead
