CONSTANTS
  Kinds = {"close"}
  StatementBreaks = FALSE
  MaxConns = 1
  MaxRequests = 2
  MaxChunk = 2
  MaxBreaks = 0
SPECIFICATION Spec
CHECK_DEADLOCK FALSE
INVARIANT ClosedOnce
