--------------------------- MODULE MCTeapotProofs ---------------------------
(* Instances of Teapot and of its inductive invariant for TLC. *)
EXTENDS TeapotProofs, TLC

CONSTANTS u1, u2, u3

AllFaults == FaultNames
Symmetry == Permutations(User \ Unmapped)
=============================================================================
