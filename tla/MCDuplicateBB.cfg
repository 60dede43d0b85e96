SPECIFICATION DuplicateSpec
CONSTANTS
  VirtualRoot = VirtualRoot
  RIVFunctions <- MCFunctions
INVARIANTS
  RIVExact
  ContextsThere
  BehaviourKept
