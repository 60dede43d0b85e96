SPECIFICATION Spec
CONSTANTS
  Functions <- WithPhis
INVARIANT
  BehaviourKept
