SPECIFICATION FairSpec
CONSTANTS
  HeapSize = 8
  Sizes <- MCSizes
  MaxAllocs = 6
  MaxSignals = 2
INVARIANTS
  BlocksApart
  SignalForcesSlowPath
  BaselineAllocRunsHandlers
PROPERTIES
  AllocTerminates
