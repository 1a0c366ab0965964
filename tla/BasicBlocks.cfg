SPECIFICATION FairSpec
CONSTANTS
  Programs <- AllPrograms
  MaxRegArgs = 2
INVARIANTS
  DepthsAreInterpreters
  EachInstructionOnceInOrder
  SealedAfterLastJump
  RejectsOnlyIrregular
  TranslatorKeepsCount
