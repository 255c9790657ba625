SPECIFICATION FairSpec
CONSTANTS
  Inputs <- MCInputs
  MCParams <- AnyParams
  MCReg = {1, 2, 3, 4}
  Reg = {1, 2, 3, 4}
  K = 2
  FirstCalleeSavedColor = 1
  NumArgRegs = 1
  MaxStack = 8
INVARIANTS
  TypeOK
  InterferencePreserved
  ColorsDiffer
  ResultKeepsApart
  NoRegisterForgotten
  EveryRegisterPlaced
  CallsPreserve
  ResultSeparates
  ColorabilityKept
PROPERTY Termination
CHECK_DEADLOCK FALSE
