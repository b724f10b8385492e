CONSTANTS
  Node <- MCNode
  Dist <- MCDist
  Filters <- NoFilters
  Count = 6
  KeepPruned = TRUE
  TopLevel = 0
  M = 2
  M0 = 4
  EfConstruction = 2
  UseHeuristic = TRUE
  ExtendCandidates = TRUE
  PruneHeuristic = TRUE
  MaxK = 0
  MaxDead = 0
  EfSearch = 2
SPECIFICATION Spec
INVARIANT PruneSeesOneExtra
