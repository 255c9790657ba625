SPECIFICATION Spec
CONSTANTS
  Reg = {1, 2, 3}
  Loc <- MCLoc
  CallerSaved <- MCCallerSaved
  ReturnLoc = "x0"
  ArgLoc <- MCArgLoc
  Value = {7, 8}
  Exit = 0
  Allocations <- MCAllocations
INVARIANTS
  AllocationSimulates
  ResultsAgree
