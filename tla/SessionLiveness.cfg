CONSTANTS
  Kinds = {"enable", "disable", "evaluate", "step", "setBreakpoint", "throwing", "close"}
  StatementBreaks = FALSE
  MaxConns = 1
  MaxRequests = 3
  MaxChunk = 2
  MaxBreaks = 1
SPECIFICATION FairSpec
CHECK_DEADLOCK FALSE
PROPERTIES ImplementsAttachment ServedWhileAttached DisableAnswered
