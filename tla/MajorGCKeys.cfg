SPECIFICATION Spec
CONSTANTS
  Programs <- KeyPrograms
  KeysInMark = TRUE
INVARIANTS
  CleanFindsDataMarked
