-------------------------- MODULE RequestLifecycle --------------------------
(***************************************************************************)
(* What a transfer request promises to the rule that made it, whatever     *)
(* brings its verdict: it is submitted, decided once by the job it was     *)
(* submitted in, and DONE only when the destination holds the file, for    *)
(* good.  One that is not DONE may get another attempt.                    *)
(***************************************************************************)
EXTENDS Naturals

CONSTANTS
  Dest,       (* the destinations, one request each                         *)
  MaxAttempt  (* attempts of a request                                      *)

VARIABLES
  state,   (* of each request                                               *)
  attempt, (* which attempt it is in                                        *)
  safe     (* the destinations that hold the whole file                     *)

vars == <<state, attempt, safe>>

Init ==
  /\ state = [d \in Dest |-> "queued"]
  /\ attempt = [d \in Dest |-> 1]
  /\ safe \in SUBSET Dest

(* A job takes some of the requests. *)
Submit(D) ==
  /\ \A d \in D : state[d] = "queued"
  /\ state' = [d \in Dest |-> IF d \in D THEN "submitted" ELSE state[d]]
  /\ UNCHANGED <<attempt, safe>>

(* The verdict, once for each attempt. *)
Complete(d) ==
  /\ state[d] = "submitted" /\ d \in safe
  /\ state' = [state EXCEPT ![d] = "done"]
  /\ UNCHANGED <<attempt, safe>>

Fail(d) ==
  /\ state[d] = "submitted"
  /\ state' = [state EXCEPT ![d] = "failed"]
  /\ UNCHANGED <<attempt, safe>>

Retry(d) ==
  /\ state[d] = "failed" /\ attempt[d] < MaxAttempt
  /\ state' = [state EXCEPT ![d] = "queued"]
  /\ attempt' = [attempt EXCEPT ![d] = attempt[d] + 1]
  /\ UNCHANGED safe

(* Jobs write a destination, also those that are no longer asked for, but  *)
(* they leave alone what is DONE.                                          *)
Write(d) ==
  /\ state[d] # "done"
  /\ safe' = IF d \in safe THEN safe \ {d} ELSE safe \cup {d}
  /\ UNCHANGED <<state, attempt>>

Next ==
  \/ \E D \in SUBSET Dest : Submit(D)
  \/ \E d \in Dest : Complete(d) \/ Fail(d) \/ Retry(d) \/ Write(d)

Spec == Init /\ [][Next]_vars
=============================================================================
