CONSTANTS
  MaxInserts = 3
  MaxSaves = 2
  TopLevel = 1
  Metrics = {0, 1}
  PreadKinds = {"none"}
  MaxPread = 2
SPECIFICATION Spec
INVARIANTS TypeOK PayloadAligned TornIsBounded PrefixIsRefused SavedIsReadable PreadIsExact
