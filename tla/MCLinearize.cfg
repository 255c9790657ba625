SPECIFICATION FairSpec
CONSTANTS
  Graphs <- MCGraphs
INVARIANTS
  LabelsResolve
PROPERTIES
  FollowsGraph
  KeepsGoing
