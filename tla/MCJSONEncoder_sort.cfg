SPECIFICATION Spec
CONSTANTS
  Graphs <- SortGraphs
  Options <- SortDefault
  RecursionMax = 3
  DefaultMax = 2
  Failures = FALSE
CHECK_DEADLOCK FALSE
INVARIANTS
  SortKeysOrders
