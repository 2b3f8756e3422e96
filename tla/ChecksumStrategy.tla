-------------------------- MODULE ChecksumStrategy --------------------------
(***************************************************************************)
(* How the FTS3 transfertool chooses what FTS validates on a path          *)
(* (src/shared/patches/rucio/fts3.py:148-170 and 289-396): one strategy    *)
(* for all hops, computed hop by hop, and then a checksum for each hop,    *)
(* which FTS compares on the sides that the strategy of the job names.     *)
(***************************************************************************)
EXTENDS Integers, Sequences

CONSTANTS
  Checksum,           (* the checksum algorithms                            *)
  PREFERRED_CHECKSUM, (* the preferred one                                  *)
  MaxHops,            (* bound: hops of a path                              *)
  NoChecksum          (* no checksum is given to FTS                        *)

ASSUME ChecksumAssumption ==
  /\ PREFERRED_CHECKSUM \in Checksum
  /\ NoChecksum \notin Checksum
  /\ MaxHops \in Nat

Strategy == {"both", "target", "source", "none"}
Side == {"source", "target"}

(* What an RSE says of itself: verify_checksum, and its algorithms. *)
Rse == [verify : BOOLEAN, supported : SUBSET Checksum]
Hop == [src : Rse, dst : Rse]

VARIABLES
  path,          (* the hops looked at                                      *)
  path_strategy, (* the strategy so far                                     *)
  known,         (* the checksums whose value Rucio knows of the file       *)
  picked         (* the checksum of each hop picked so far                  *)

vars == <<path, path_strategy, known, picked>>

(* _available_checksums, of one side *)
Available(rse) == IF rse.verify THEN rse.supported ELSE {}
Checksums(hop, side) == Available(IF side = "source" THEN hop.src ELSE hop.dst)
Common(hop) == Checksums(hop, "source") \cap Checksums(hop, "target")

HopStrategy(hop) ==
  CASE Common(hop) # {} -> "both"
    [] Common(hop) = {} /\ Checksums(hop, "target") # {} -> "target"
    [] Checksums(hop, "target") = {} /\ Checksums(hop, "source") # {} -> "source"
    [] OTHER -> "none"

(* Mutant: the path keeps the first restriction it meets. *)
MergeFirst(p, h) == IF p = "both" THEN h ELSE p

(* PATH_CHECKSUM_VALIDATION_STRATEGY *)
Merge(p, h) ==
  LET table ==
        [both   |-> [both |-> "both",   target |-> "target", source |-> "source", none |-> "none"],
         target |-> [both |-> "target", target |-> "target", source |-> "none",   none |-> "none"],
         source |-> [both |-> "source", target |-> "none",   source |-> "source", none |-> "none"],
         none   |-> [both |-> "none",   target |-> "none",   source |-> "none",   none |-> "none"]]
  IN  table[p][h]

(* Mutant: the checksums of either side, where both validate. *)
PossibleEither(hop, strategy) ==
  CASE strategy = "source" -> Checksums(hop, "source")
    [] strategy = "target" -> Checksums(hop, "target")
    [] strategy = "both" -> Checksums(hop, "source") \cup Checksums(hop, "target")
    [] OTHER -> {}

(* The sides whose checksums are possible under the strategy of the path. *)
Possible(hop, strategy) ==
  CASE strategy = "both" -> Common(hop)
    [] strategy = "target" -> Checksums(hop, "target")
    [] strategy = "source" -> Checksums(hop, "source")
    [] OTHER -> {}

(* Mutant: the iteration does not stop at the preferred checksum. *)
PicksAny(hop, strategy) ==
  LET usable == Possible(hop, strategy) \cap known
  IN  IF usable = {} THEN {NoChecksum} ELSE usable

(* _pick_fts_checksum: the last known one that the iteration over a set    *)
(* meets, in any order, which ends at the preferred one.                   *)
Picks(hop, strategy) ==
  LET usable == Possible(hop, strategy) \cap known
  IN  IF PREFERRED_CHECKSUM \in usable THEN {PREFERRED_CHECKSUM}
      ELSE IF usable = {} THEN {NoChecksum} ELSE usable

Init ==
  /\ path = <<>>
  /\ path_strategy = "both"
  /\ known \in SUBSET Checksum
  /\ picked = <<>>

(* _path_checksum_validation_strategy looks at the next hop. *)
LookAt(hop) ==
  /\ picked = <<>> /\ Len(path) < MaxHops
  /\ path' = Append(path, hop)
  /\ path_strategy' = Merge(path_strategy, HopStrategy(hop))
  /\ UNCHANGED <<known, picked>>

(* Mutant: the last hop gets a checksum twice. *)
PickPastEnd ==
  /\ path # <<>> /\ Len(picked) <= Len(path)
  /\ \E c \in Picks(path[Len(path)], path_strategy) : picked' = Append(picked, c)
  /\ UNCHANGED <<path, path_strategy, known>>

(* The strategy is that of the job: the next hop gets its checksum. *)
Pick ==
  /\ Len(picked) < Len(path)
  /\ \E c \in Picks(path[Len(picked) + 1], path_strategy) : picked' = Append(picked, c)
  /\ UNCHANGED <<path, path_strategy, known>>

Next == (\E hop \in Hop : LookAt(hop)) \/ Pick
Spec == Init /\ [][Next]_vars

TypeOK ==
  /\ path \in Seq(Hop)
  /\ path_strategy \in Strategy
  /\ known \in SUBSET Checksum
  /\ picked \in Seq(Checksum \cup {NoChecksum})
  /\ Len(picked) <= Len(path)

Sides(strategy) ==
  CASE strategy = "both" -> Side
    [] strategy = "none" -> {}
    [] OTHER -> {strategy}

(* The strategy of a path names the sides that every hop can validate, and *)
(* no others (the comment fts3.py:148-152).                                *)
StrategyIsCommon ==
  \A side \in Side :
    side \in Sides(path_strategy) <=>
      \A i \in DOMAIN path : side \in Sides(HopStrategy(path[i]))

(* A checksum given to FTS is one that every side to validate supports, on *)
(* its own hop: no transfer fails on an algorithm that an RSE lacks.       *)
PickedIsSupported ==
  \A i \in DOMAIN picked : picked[i] # NoChecksum =>
    /\ picked[i] \in known
    /\ \A side \in Sides(path_strategy) : picked[i] \in Checksums(path[i], side)

(* The preferred checksum is used wherever it can be: known, and supported *)
(* by the sides to validate.                                               *)
PreferredIsUsed ==
  \A i \in DOMAIN picked :
    /\ PREFERRED_CHECKSUM \in known
    /\ Sides(path_strategy) # {}
    /\ \A side \in Sides(path_strategy) : PREFERRED_CHECKSUM \in Checksums(path[i], side)
    => picked[i] = PREFERRED_CHECKSUM
=============================================================================
