SPECIFICATION Spec
CONSTANT
  MaxLines = 3
INVARIANT
  MethodAssertHolds
CHECK_DEADLOCK FALSE
