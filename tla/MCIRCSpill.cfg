SPECIFICATION Spec
CONSTANTS
  Inputs <- Clique
  MCParams <- NoParams
  MCReg = {1, 2, 3}
  Reg = {1, 2, 3}
  K = 2
  FirstCalleeSavedColor = 1
  NumArgRegs = 1
  MaxStack = 6
INVARIANTS
  RemovedOnce
CHECK_DEADLOCK FALSE
