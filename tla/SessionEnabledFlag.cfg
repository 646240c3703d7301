CONSTANTS
  Kinds = {"enable", "disable", "evaluate"}
  StatementBreaks = FALSE
  MaxConns = 1
  MaxRequests = 3
  MaxChunk = 1
  MaxBreaks = 0
SPECIFICATION Spec
CHECK_DEADLOCK FALSE
INVARIANT EnabledMeansAttached
