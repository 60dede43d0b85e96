SPECIFICATION FairSpec
CONSTANTS
  VirtualRoot = VirtualRoot
  Null = Null
  Functions <- MCFunctions
INVARIANTS
  TypeOK
  NothingForgotten
  TargetsCovered
  StackSound
  Linearised
  RightExactly
  LoopsKept
  RedirectDetermined
PROPERTIES
  Terminates
