SPECIFICATION Spec
CONSTANTS
  Log <- MCTypes
  MaxLine = 2
  MaxFile = 2
INVARIANT UnknownTypeIsOther
CHECK_DEADLOCK FALSE
