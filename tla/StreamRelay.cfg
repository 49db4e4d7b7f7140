SPECIFICATION Spec
CONSTANTS
  ChanCap = 8
  MaxEvents = 13
  MaxBatch = 3
  Pings = TRUE
\* The turn ends.
CHECK_DEADLOCK FALSE
INVARIANTS
  TypeOK
  RelayedInOrder
  ClientSeesPrefix
  ErrorFrameIsTheProviders
  StaysToTheEnd
PROPERTIES
  HandlerReturns
  PumpEndsUnlessStranded
