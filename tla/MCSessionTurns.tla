--------------------------- MODULE MCSessionTurns ---------------------------
(* Instances of SessionTurns for TLC. *)
EXTENDS SessionTurns, TLC

CONSTANTS r1, r2, r3, r4, s1

MCRequests == {r1, r2, r3, r4}
MCIds == {s1}
\* Requests are interchangeable: no action or property names one.
Symmetry == Permutations(MCRequests)
=============================================================================
