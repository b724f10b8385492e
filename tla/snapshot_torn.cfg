CONSTANTS
  MaxInserts = 2
  MaxSaves = 1
  TopLevel = 0
  Metrics = {0}
  PreadKinds = {}
  MaxPread = 0
SPECIFICATION Spec
INVARIANT PreallocationIsHarmless
