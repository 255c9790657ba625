SPECIFICATION FairSpec
CONSTANTS
  Programs <- MCPrograms
  Value = {1, 2, 3, 4}
INVARIANTS
  NodesHaveCode
  SameNext
PROPERTY KeepsUp
