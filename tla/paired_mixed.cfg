CONSTANTS
  Dims = {1}
  NoDim = 0
  MaxInserts = 3
  MaxInterrupted = 1
SPECIFICATION PairSpec
INVARIANT LoadedTogether
