CONSTANTS
  Kinds = {"pause", "resume", "continueToLocation", "setBreakpoint", "removeBreakpoint", "setBreakpointsActive", "setPauseOnExceptions", "getScriptSource", "inspect"}
  MaxRequests = 3
  MaxStops = 2
SPECIFICATION FairSpec
INVARIANTS TypeOK ViewIsRight TemporaryTracked LaterSettingWins
PROPERTIES StopsReported RequestsAnswered
\* All requests made and answered: nothing is left to do.
CHECK_DEADLOCK FALSE
