SPECIFICATION Spec
CONSTANTS
  i1 = i1
  i2 = i2
  Interpreters <- Two
  MaxClasses = 4
  Failures = {"create", "decimal", "new", "add"}
CHECK_DEADLOCK FALSE
INVARIANTS
  NeverDangling
  StateReleased
PROPERTIES
  ExportStable
