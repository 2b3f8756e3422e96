---------------------------- MODULE MCTransferTests ----------------------------
(* Instances of TransferTests for TLC. *)
EXTENDS TransferTests, TLC

CONSTANTS f1, f2
================================================================================
