SPECIFICATION Spec
CONSTANTS
  Names <- MCNames
  Programs <- MCPrograms
  Main = main
  None = None
  Workers = {w}
  Entry <- MCEntry
  Modulus = 4
  MaxPasses = 3
INVARIANTS
  NeverOver
PROPERTIES
  ReportsFresh
  ResultsPrinted
CHECK_DEADLOCK FALSE
