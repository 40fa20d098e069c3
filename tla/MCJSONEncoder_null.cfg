SPECIFICATION Spec
CONSTANTS
  Graphs <- FewGraphs
  Options <- FewOptions
  RecursionMax = 3
  DefaultMax = 2
  Failures = FALSE
CHECK_DEADLOCK FALSE
INVARIANTS
  NullOnError
