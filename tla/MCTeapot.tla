------------------------------ MODULE MCTeapot ------------------------------
(* Instances of Teapot for TLC. *)
EXTENDS Teapot, TLC

CONSTANTS u1, u2

BenignFaults == {"dirs", "send"}
=============================================================================
