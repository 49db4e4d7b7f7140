SPECIFICATION Spec
CONSTANTS
  MaxCalls = 2
  MaxPieces = 5
\* The turn ends.
CHECK_DEADLOCK FALSE
INVARIANTS
  TypeOK
  NothingLostOrMixed
  StateTellsTheMessage
  AfterOutputMidMessage
PROPERTIES
  ImplementsBlockStream
