SPECIFICATION FairSpec
CONSTANTS
  Docs <- SomeDocs
  Views = FALSE
  Failures = {"newScalar", "addItem", "malloc", "encode"}
  MaxDepth = 2
  EscStack = 1
CHECK_DEADLOCK FALSE
INVARIANTS
  TypeOK
  RefsBalanced
  NothingHeld
  Outcome
  DepthBalanced
  DecodesGrammar
  StringKeys
  NoReadPastNul
PROPERTIES
  FirstErrorWins
  ExceptionKept
  GrowsOnce
  ReadsText
  Returns
