CONSTANTS
  MaxId = 2
  MaxStamp = 3
  MaxDepth = 2
  LongestSlice = 36
  Shapes <- MCShapes
  I32Max = 20
  Point <- MCPoint
  Indexes <- MCIndexes
  Distance <- MCDistance
  Limits = {1, 2, 3}
  Dimensions <- MCDimensions
  CodeRows <- MCCodeRows
  LongestRow = 24
  Metrics = {"Cosine", "DotProduct"}
  Seeds = {s1, s2}
  Widths = {4}
  Lengths = {1, 2}
  Classes = {"plain", "zero", "huge"}
  MaxItems = 2
  MaxRows = 2
  MaxSaves = 2
  MaxHoles = 1
  Dims = {1, 2}
  NoDim = 0
  MaxInserts = 4
  MaxInterrupted = 1
SYMMETRY SeedSymmetry
SPECIFICATION MCSpec
INVARIANTS
  VisitIsExact OneHolder FoldIsExact PickIsAlgorithm4 RowIsExact
  VerifiedIsWhole UnverifiedIsBounded ServedRowsMatch
  SaveNotRefused SameIds PairsAligned FilesPair
PROPERTY SavedOpens
CHECK_DEADLOCK FALSE
