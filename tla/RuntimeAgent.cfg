CONSTANTS
  Objects = {o1, o2}
  MaxRequests = 2
  MaxStops = 2
SPECIFICATION FairSpec
INVARIANTS TypeOK AboutWhatWasShown EachPropertyOnce
PROPERTIES RequestsAnswered
\* All requests made and answered: nothing is left to do.
CHECK_DEADLOCK FALSE
