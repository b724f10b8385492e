CONSTANTS
  Node <- MCNode
  Dist <- MCDist
  Count = 4
  KeepPruned = TRUE
  Worker = {w1, w2}
  TopLevel = 1
  M = 2
  M0 = 2
  EfConstruction = 2
  UseHeuristic = TRUE
  PruneHeuristic = TRUE
SPECIFICATION FairSpec
INVARIANTS
  TypeOK OvershootIsOwed NoSelfLinks LinksStayOnLayer
  LinkedAtMostTwice InsertedIsLinked OneWayMeansFull
PROPERTIES NeverEmptied PromotesLikeSequential BuildFinishes
