SPECIFICATION VariablesSpec
CONSTANTS
  Functions <- OneFunction
  Variables <- OneVariable
  CalleeSaveRegs <- MCCalleeSaveRegs
  Value = {1, 2}
  StackTop = 64
INVARIANT SavedPairIntact
