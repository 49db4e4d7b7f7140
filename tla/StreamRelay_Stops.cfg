SPECIFICATION Spec
CONSTANTS
  ChanCap = 2
  MaxEvents = 6
  MaxBatch = 3
  Pings = FALSE
\* The turn ends.
CHECK_DEADLOCK FALSE
INVARIANTS
  StopsOnlyAtTheEnd
