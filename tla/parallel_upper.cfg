CONSTANTS
  Node <- MCNode
  Dist <- MCDist
  Count = 3
  KeepPruned = TRUE
  Worker = {w1, w2}
  TopLevel = 1
  M = 2
  M0 = 2
  EfConstruction = 2
  UseHeuristic = TRUE
  PruneHeuristic = FALSE
SPECIFICATION Spec
INVARIANT UpperLayersLinked
