SPECIFICATION PassSpec
CONSTANTS
  VirtualRoot = VirtualRoot
  Null = Null
  Functions <- MCFunctions
  Programs <- MCPrograms
INVARIANTS
  VectorExact
  PhisMatch
  CompilesExactly
  PaddingExact
PROPERTIES
  FindsDependent
