CONSTANTS
  Node <- MCNode
  Dist <- MCDist
  Filters <- SomeFilters
  Count = 4
  KeepPruned = FALSE
  TopLevel = 1
  M = 2
  M0 = 2
  EfConstruction = 2
  UseHeuristic = TRUE
  ExtendCandidates = TRUE
  PruneHeuristic = TRUE
  MaxK = 2
  MaxDead = 4
  EfSearch = 2
SPECIFICATION FairSpec
INVARIANTS
  TypeOK PruneSeesOneExtra NoDuplicates LinksStayOnLayer
  UpperLayersLinked EntryIsFirstOfTop TombstonesCounted
PROPERTIES AnswerIsComplete AnswerIsLocallyClosest ImplementsCollection OperationsEnd
