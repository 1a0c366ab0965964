SPECIFICATION FairSpec
CONSTANTS
  Programs <- MCPrograms
  KeysInMark = FALSE
INVARIANTS
  NoDangling
  GrayFound
  LastAfterDeath
  CleanFindsDataMarked
PROPERTIES
  GarbageFreed
  DeadKeyCleared
