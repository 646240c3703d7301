\* signals_ has two producing threads (the worker, and the main thread when
\* a start fails); the consumer is the main thread.
CONSTANTS
  Items = {a, b}
  Producers = {p1, p2}
  Consumer = c
  NoThread = none
  MaxItems = 3
SPECIFICATION FairSpec
CHECK_DEADLOCK FALSE
INVARIANTS TypeOK LockHeldInside NoLostWakeup
PROPERTY ImplementsMailbox
