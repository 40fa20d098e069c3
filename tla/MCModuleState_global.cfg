SPECIFICATION Spec
CONSTANTS
  i1 = i1
  i2 = i2
  Interpreters <- Two
  MaxClasses = 2
  Failures = {}
CHECK_DEADLOCK FALSE
INVARIANTS
  RaisesOwn
