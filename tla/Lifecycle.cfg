CONSTANTS
  MaxInstances = 2
  MaxCalls = 4
  MaxConnects = 3
SPECIFICATION FairSpec
CHECK_DEADLOCK FALSE
INVARIANTS TypeOK AnsweredOrWaiting StopFindsWorker PendingKeepsProcessUp NothingLeftBehind HandlerHasController
PROPERTIES StartAnswered StopAnswered
