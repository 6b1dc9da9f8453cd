--------------------------- MODULE MCLoginThrottle ---------------------------
(* Two concurrent requests from one address for one action. *)
EXTENDS LoginThrottle, TLC
CONSTANTS r1, r2
TwoRequests == {r1, r2}
Symmetry == Permutations(TwoRequests)
=============================================================================
