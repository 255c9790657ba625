SPECIFICATION FairSpec
CONSTANTS
  Node <- MCNode
  Reg <- MCReg
  Functions <- MCFunctions
INVARIANTS
  DoneSolvesEquations
  BelowEverySolution
  DoneIsPathLiveness
PROPERTIES
  LiveSetsOnlyGrow
  Termination
