CONSTANTS
  Kinds = {"enable", "pause", "step"}
  StatementBreaks = FALSE
  MaxConns = 1
  MaxRequests = 3
  MaxChunk = 1
  MaxBreaks = 1
SPECIFICATION FairSpec
CHECK_DEADLOCK FALSE
PROPERTY GoneClientReleases
