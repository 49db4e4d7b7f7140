SPECIFICATION Spec
CONSTANTS
  r1 = r1
  r2 = r2
  r3 = r3
  r4 = r4
  s1 = s1
  Requests <- MCRequests
  Ids <- MCIds
  Cap = 2
  MaxBatch = 3
SYMMETRY Symmetry
\* Every request ends; nothing runs after the last one.
CHECK_DEADLOCK FALSE
INVARIANTS
  NoSilentLoss
