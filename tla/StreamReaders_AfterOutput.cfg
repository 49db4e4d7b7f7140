SPECIFICATION Spec
CONSTANTS
  MaxCalls = 2
  MaxPieces = 2
\* The turn ends.
CHECK_DEADLOCK FALSE
INVARIANTS
  AfterOutputIfEmitted
