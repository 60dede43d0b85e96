SPECIFICATION FunctionSpec
CONSTANTS
  Functions <- MCFunctions
  Modulus = 4
  MaxDouble = 3
  Epsilon = 2
  None = None
  MaxPasses = 4
PROPERTIES
  AddsSubstituted
CHECK_DEADLOCK FALSE
