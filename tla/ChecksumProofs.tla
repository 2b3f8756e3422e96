--------------------------- MODULE ChecksumProofs ---------------------------
(***************************************************************************)
(* The strategy and the checksums of ChecksumStrategy are right for paths  *)
(* of any length over any set of checksums.                                *)
(***************************************************************************)
EXTENDS ChecksumStrategy, TLAPS

(* The strategy of a hop names a side only if that side has a checksum,    *)
(* and both only if they have one in common.                               *)
LEMMA HopStrategyType == \A hop \in Hop : HopStrategy(hop) \in Strategy
  BY DEF HopStrategy, Strategy

(* The table of the merged strategies, line by line. *)
LEMMA MergeTable ==
  /\ \A h \in Strategy : Merge("both", h) = h /\ Merge("none", h) = "none"
  /\ \A h \in Strategy : Merge("target", h) = IF h \in {"both", "target"} THEN "target" ELSE "none"
  /\ \A h \in Strategy : Merge("source", h) = IF h \in {"both", "source"} THEN "source" ELSE "none"
  <1>1. /\ Merge("both", "both") = "both" /\ Merge("both", "target") = "target"
        /\ Merge("both", "source") = "source" /\ Merge("both", "none") = "none"
    BY DEF Merge
  <1>2. /\ Merge("none", "both") = "none" /\ Merge("none", "target") = "none"
        /\ Merge("none", "source") = "none" /\ Merge("none", "none") = "none"
    BY DEF Merge
  <1>3. /\ Merge("target", "both") = "target" /\ Merge("target", "target") = "target"
        /\ Merge("target", "source") = "none" /\ Merge("target", "none") = "none"
    BY DEF Merge
  <1>4. /\ Merge("source", "both") = "source" /\ Merge("source", "target") = "none"
        /\ Merge("source", "source") = "source" /\ Merge("source", "none") = "none"
    BY DEF Merge
  <1> QED
    BY <1>1, <1>2, <1>3, <1>4 DEF Strategy

(* Merging two strategies keeps the sides that both name. *)
LEMMA MergeIsMeet ==
  ASSUME NEW p \in Strategy, NEW h \in Strategy
  PROVE  /\ Merge(p, h) \in Strategy
         /\ Sides(Merge(p, h)) = Sides(p) \cap Sides(h)
  <1>1. CASE p = "both"
    BY <1>1, MergeTable DEF Strategy, Sides, Side
  <1>2. CASE p = "target"
    BY <1>2, MergeTable DEF Strategy, Sides, Side
  <1>3. CASE p = "source"
    BY <1>3, MergeTable DEF Strategy, Sides, Side
  <1>4. CASE p = "none"
    BY <1>4, MergeTable DEF Strategy, Sides, Side
  <1> QED
    BY <1>1, <1>2, <1>3, <1>4 DEF Strategy

(* What is picked is known and possible, or nothing is. *)
LEMMA PicksPossible ==
  ASSUME NEW hop, NEW strategy, NEW c \in Picks(hop, strategy)
  PROVE  /\ c # NoChecksum => c \in Possible(hop, strategy) \cap known
         /\ PREFERRED_CHECKSUM \in Possible(hop, strategy) \cap known => c = PREFERRED_CHECKSUM
  BY DEF Picks

(* What is possible is supported by every side to validate. *)
LEMMA PossibleSupported ==
  ASSUME NEW hop \in Hop, NEW strategy \in Strategy
  PROVE  /\ Possible(hop, strategy) \subseteq Checksum
         /\ \A c : c \in Possible(hop, strategy) <=>
              /\ Sides(strategy) # {}
              /\ \A side \in Sides(strategy) : c \in Checksums(hop, side)
  <1>1. Checksums(hop, "source") \subseteq Checksum /\ Checksums(hop, "target") \subseteq Checksum
    BY DEF Checksums, Available, Hop, Rse
  <1>2. CASE strategy = "both"
    BY <1>1, <1>2 DEF Possible, Sides, Side, Common
  <1>3. CASE strategy = "target"
    BY <1>1, <1>3 DEF Possible, Sides
  <1>4. CASE strategy = "source"
    BY <1>1, <1>4 DEF Possible, Sides
  <1>5. CASE strategy = "none"
    BY <1>5 DEF Possible, Sides
  <1> QED
    BY <1>2, <1>3, <1>4, <1>5 DEF Strategy

----------------------------------------------------------------------------
Inv == TypeOK /\ StrategyIsCommon /\ PickedIsSupported /\ PreferredIsUsed

LEMMA InitInv == Init => Inv
  BY DEF Init, Inv, TypeOK, StrategyIsCommon, PickedIsSupported, PreferredIsUsed, Strategy, Sides

LEMMA NextInv == Inv /\ [Next]_vars => Inv'
  <1> SUFFICES ASSUME Inv, [Next]_vars PROVE Inv'
    OBVIOUS
  <1> USE DEF Inv
  <1>1. ASSUME NEW hop \in Hop, LookAt(hop) PROVE Inv'
    <2>1. TypeOK'
      BY <1>1, HopStrategyType, MergeIsMeet DEF LookAt, TypeOK
    <2>2. StrategyIsCommon'
      <3> SUFFICES ASSUME NEW side \in Side
                   PROVE  side \in Sides(path_strategy') <=>
                            \A i \in DOMAIN path' : side \in Sides(HopStrategy(path'[i]))
        BY DEF StrategyIsCommon
      <3>1. side \in Sides(path_strategy') <=>
              side \in Sides(path_strategy) /\ side \in Sides(HopStrategy(hop))
        BY <1>1, HopStrategyType, MergeIsMeet DEF LookAt, TypeOK
      <3>2. /\ DOMAIN path' = DOMAIN path \cup {Len(path) + 1}
            /\ path'[Len(path) + 1] = hop
            /\ \A i \in DOMAIN path : path'[i] = path[i]
        BY <1>1 DEF LookAt, TypeOK
      <3> QED
        BY <3>1, <3>2 DEF StrategyIsCommon
    <2>3. PickedIsSupported'
      BY <1>1 DEF LookAt, PickedIsSupported
    <2>4. PreferredIsUsed'
      BY <1>1 DEF LookAt, PreferredIsUsed
    <2> QED
      BY <2>1, <2>2, <2>3, <2>4
  <1>2. ASSUME Pick PROVE Inv'
    <2> DEFINE k == Len(picked) + 1
    <2>1. PICK c \in Picks(path[k], path_strategy) : picked' = Append(picked, c)
      BY <1>2 DEF Pick
    <2>2. k \in DOMAIN path /\ path[k] \in Hop /\ UNCHANGED <<path, path_strategy, known>>
      BY <1>2 DEF Pick, TypeOK
    <2>3. /\ c # NoChecksum =>
               /\ c \in known
               /\ \A side \in Sides(path_strategy) : c \in Checksums(path[k], side)
          /\ /\ PREFERRED_CHECKSUM \in known
             /\ Sides(path_strategy) # {}
             /\ \A side \in Sides(path_strategy) : PREFERRED_CHECKSUM \in Checksums(path[k], side)
             => c = PREFERRED_CHECKSUM
      BY <2>2, PicksPossible, PossibleSupported DEF TypeOK
    <2>4. c \in Checksum \cup {NoChecksum}
      BY <2>2, PicksPossible, PossibleSupported DEF TypeOK
    <2>5. TypeOK'
      BY <1>2, <2>1, <2>2, <2>4 DEF TypeOK, Pick
    <2>6. StrategyIsCommon'
      BY <2>2 DEF StrategyIsCommon
    <2>7. /\ DOMAIN picked' = DOMAIN picked \cup {k}
          /\ picked'[k] = c
          /\ \A i \in DOMAIN picked : picked'[i] = picked[i]
      BY <2>1, <2>4 DEF TypeOK
    <2>8. PickedIsSupported'
      BY <2>2, <2>3, <2>7 DEF PickedIsSupported
    <2>9. PreferredIsUsed'
      BY <2>2, <2>3, <2>7 DEF PreferredIsUsed
    <2> QED
      BY <2>5, <2>6, <2>8, <2>9
  <1>3. ASSUME UNCHANGED vars PROVE Inv'
    BY <1>3 DEF vars, TypeOK, StrategyIsCommon, PickedIsSupported, PreferredIsUsed
  <1> QED
    BY <1>1, <1>2, <1>3 DEF Next

(* Path and picks are well formed, for paths of any length. *)
THEOREM ChecksumTypeCorrect == Spec => []TypeOK
  BY InitInv, NextInv, PTL DEF Spec, Inv

(* The strategy of every path names exactly the sides that all of its hops *)
(* can validate.                                                           *)
THEOREM StrategyCorrect == Spec => []StrategyIsCommon
  BY InitInv, NextInv, PTL DEF Spec, Inv

(* No side is asked to validate a checksum that it does not support. *)
THEOREM PickCorrect == Spec => []PickedIsSupported
  BY InitInv, NextInv, PTL DEF Spec, Inv

(* The preferred checksum is used on every hop that allows it. *)
THEOREM PreferenceCorrect == Spec => []PreferredIsUsed
  BY InitInv, NextInv, PTL DEF Spec, Inv
=============================================================================
