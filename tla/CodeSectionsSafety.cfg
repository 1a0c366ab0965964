SPECIFICATION Spec
CONSTANTS
  a1 = a1
  a2 = a2
  a3 = a3
  cb = cb
  Addrs <- MCAddrs
  CallbackCode = cb
  Offsets <- MCOffsets
  MaxLoads = 5
  MaxDepth = 3
  MaxClosures = 2
SYMMETRY Symmetry
INVARIANTS
  FunctionCodeLive
  RunningCodeMapped
  OptimisedFromOwnCode
  StackMapsOfOwnFunction
  NeverPanics
