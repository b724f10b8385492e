CONSTANTS
  MaxInserts = 1
  MaxSaves = 2
  TopLevel = 0
  Metrics = {0}
  PreadKinds = {}
  MaxPread = 0
SPECIFICATION FairSpec
PROPERTY OneColumnPromiseHolds
