CONSTANTS
  Commands = {"method", "stubbed", "close", "null"}
  MaxBytes = 5
  MaxConns = 2
SPECIFICATION Spec
\* All bytes sent and all clients gone: nothing is left to do.
CHECK_DEADLOCK FALSE
INVARIANTS TypeOK LinesOfTheStream EveryTextAccounted
