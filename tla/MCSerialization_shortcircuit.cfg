SPECIFICATION FairSpec
CONSTANTS
  VirtualRoot = VirtualRoot
  Null = Null
  Functions <- MCShortCircuit
INVARIANT
  OutputReturns
