CONSTANTS
  Kinds = {"enable", "disable", "setBreakpoint", "pause", "resume", "step", "deferred"}
  StatementBreaks = FALSE
  MaxConns = 2
  MaxRequests = 3
  MaxChunk = 2
  MaxBreaks = 1
SPECIFICATION Spec
CHECK_DEADLOCK FALSE
INVARIANTS TypeOK EnableHandshake DisableHandshake DeferredOnlyUntilEnabled AnsweredAtMostOnce DetachedOnceGone ReleasedOnceGone
