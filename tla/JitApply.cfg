SPECIFICATION FairSpec
CONSTANTS
  Funs <- MCFuns
  Arity <- MCArity
  Optimisable <- MCFuns
  MaxRegArgs = 2
  Threshold = 1
  MaxArgs = 3
  MaxCallbackArgs = 3
  MaxOps = 3
  MaxSignals = 1
INVARIANTS
  HandlersSound
  RootsScanned
PROPERTIES
  ImplementsApplySemantics
  ReturnsToC
