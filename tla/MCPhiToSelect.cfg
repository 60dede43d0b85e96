SPECIFICATION Spec
CONSTANTS
  VirtualRoot = VirtualRoot
  Phis <- MCPhis
INVARIANTS
  TypeOK
  SelectsAgree
  BottomUp
  NothingLost
PROPERTY
  Terminates
