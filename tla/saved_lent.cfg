CONSTANTS
  MaxInserts = 1
  MaxSaves = 2
  TopLevel = 0
  Metrics = {0}
  PreadKinds = {"none"}
  MaxPread = 1
SPECIFICATION Spec
INVARIANT PlainReloads
