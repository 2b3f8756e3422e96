------------------------- MODULE MCChecksumStrategy -------------------------
(* Instances of ChecksumStrategy for TLC. *)
EXTENDS ChecksumProofs, TLC
=============================================================================
