SPECIFICATION FunctionSpec
CONSTANTS
  Functions <- MCFunctions
  Modulus = 4
  MaxDouble = 3
  Epsilon = 2
  None = None
  MaxPasses = 4
INVARIANTS
  ValuesKept
  AnalysesFresh
CHECK_DEADLOCK FALSE
