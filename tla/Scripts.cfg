CONSTANTS
  MaxScripts = 2
  MaxRequests = 3
SPECIFICATION Spec
INVARIANTS TypeOK EveryScriptReported BreakpointWhereShown SourceIsTheScripts UrlsKeepApart
\* All requests made: nothing is left to do.
CHECK_DEADLOCK FALSE
