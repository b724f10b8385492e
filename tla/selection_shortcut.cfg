CONSTANTS
  MaxId = 2
  MaxStamp = 3
  MaxDepth = 0
  LongestSlice = 36
  Shapes <- MCShapes
  I32Max = 20
  Point <- MCPoint
  Indexes <- MCIndexes
  Distance <- MCDistance
  Limits = {1, 2, 3}
  Dimensions <- MCDimensions
  CodeRows <- MCCodeRows
  LongestRow = 0
  Metrics = {}
  Seeds = {}
  Widths = {4}
  Lengths = {1}
  Classes = {}
  MaxItems = 0
  MaxRows = 0
  MaxSaves = 0
  MaxHoles = 0
  Dims = {}
  NoDim = 0
  MaxInserts = 0
  MaxInterrupted = 0
SPECIFICATION MCSpec
INVARIANT ShortcutIsSound
CHECK_DEADLOCK FALSE
