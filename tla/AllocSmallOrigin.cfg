SPECIFICATION Spec
CONSTANTS
  HeapSize = 8
  Sizes <- MCSizes
  MaxAllocs = 4
  MaxSignals = 1
INVARIANTS
  AllocRunsHandlers
