SPECIFICATION FairSpec
CONSTANTS
  Programs <- MCPrograms
  IntWidth = 8
  MaxIncludeDepth = 5
  Expand <- ExpandWithLoc
  Evaluate <- evaluateCondition
INVARIANTS
  StackIsOpenFiles
  OutputIsTranslation
PROPERTY Termination
