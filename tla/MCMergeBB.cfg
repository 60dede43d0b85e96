SPECIFICATION Spec
CONSTANTS
  Functions <- MCFunctions
INVARIANTS
  TypeOK
  BehaviourKept
  NothingLeadsToDeleted
  BranchTargetUpdated
PROPERTY
  Ends
