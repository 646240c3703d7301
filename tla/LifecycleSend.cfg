CONSTANTS
  MaxInstances = 1
  MaxCalls = 2
  MaxConnects = 1
SPECIFICATION Spec
CHECK_DEADLOCK FALSE
INVARIANT SendsFindHandlesOpen
