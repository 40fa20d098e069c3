SPECIFICATION FairSpec
CONSTANTS
  Formats <- AllFormats
  InitialSize = 3
  Fixed = 2
  Scalars = {1, 2}
  Texts = {0, 1}
  RecursionMax = 2
  MaxCount = 2
  Failures = {"malloc"}
CHECK_DEADLOCK FALSE
INVARIANTS
  Covered
  MovesLinear
  Released
PROPERTIES
  Returns
