SPECIFICATION Spec
CONSTANTS
  d1 = d1
  d2 = d2
  l1 = l1
  Dumps <- TwoDumps
  Loads <- OneLoad
  Failures = {"args", "attribute", "callable", "pack", "encode", "write", "torn", "read", "decode"}
CHECK_DEADLOCK FALSE
INVARIANTS
  Balanced
  WholeDocuments
