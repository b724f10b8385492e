CONSTANTS
  Dims = {1, 2}
  NoDim = 0
  MaxInserts = 3
  MaxInterrupted = 0
SPECIFICATION PairSpec
INVARIANT TombstonesAgree
