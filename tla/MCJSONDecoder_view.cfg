SPECIFICATION Spec
CONSTANTS
  Docs <- ViewDocs
  Views = TRUE
  Failures = {}
  MaxDepth = 2
  EscStack = 4
CHECK_DEADLOCK FALSE
INVARIANTS
  ViewIsDecoded
