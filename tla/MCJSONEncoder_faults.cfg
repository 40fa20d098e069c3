SPECIFICATION FairSpec
CONSTANTS
  Graphs <- AllGraphs
  Options <- AllOptions
  RecursionMax = 3
  DefaultMax = 2
  Failures = TRUE
CHECK_DEADLOCK FALSE
INVARIANTS
  TypeOK
  LevelBalanced
  Outcome
  NothingLost
  EncodesReference
PROPERTIES
  ErrorStops
  WritesText
  Returns
