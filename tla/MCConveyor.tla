----------------------------- MODULE MCConveyor -----------------------------
(* Instances of Conveyor for TLC. *)
EXTENDS Conveyor

OneFile == {1}
TwoFiles == {1, 2}
ThreeFiles == {1, 2, 3}
None == {}
=============================================================================
