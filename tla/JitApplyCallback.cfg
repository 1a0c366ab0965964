SPECIFICATION Spec
CONSTANTS
  Funs <- MCWideFuns
  Arity <- MCWideArity
  Optimisable = {}
  MaxRegArgs = 2
  Threshold = 1
  MaxArgs = 5
  MaxCallbackArgs = 5
  MaxOps = 3
  MaxSignals = 0
INVARIANTS
  OnlyEscapingReachC
