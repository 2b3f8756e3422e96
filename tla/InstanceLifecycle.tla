------------------------- MODULE InstanceLifecycle -------------------------
(***************************************************************************)
(* What Teapot promises about the storm-webdav instance of each user: the  *)
(* four states and the transitions the docstring of storm_webdav_state     *)
(* (teapot.py:869-874) names, and the instance (its process and its port)  *)
(* that requests are proxied to for as long as the state is RUNNING.       *)
(***************************************************************************)
CONSTANTS
  User,      (* the local accounts instances run under                *)
  Instance,  (* the values an instance is published with              *)
  NoInstance (* nothing is published, not a member of Instance        *)

VARIABLES
  phase,     (* the state of the instance of each user                *)
  published  (* the instance requests of the user are proxied to      *)

vars == <<phase, published>>

Phase == {"NOT RUNNING", "STARTING", "RUNNING", "STOPPING"}

TypeOK ==
  /\ phase \in [User -> Phase]
  /\ published \in [User -> Instance \cup {NoInstance}]

Init ==
  /\ phase = [u \in User |-> "NOT RUNNING"]
  /\ published = [u \in User |-> NoInstance]

Move(u, from, to, instance) ==
  /\ phase[u] = from
  /\ phase' = [phase EXCEPT ![u] = to]
  /\ published' = [published EXCEPT ![u] = instance]

(* A request finds no instance and starts one. *)
Start(u) == Move(u, "NOT RUNNING", "STARTING", NoInstance)

(* The instance answered: it is published. *)
Publish(u) ==
  /\ published'[u] \in Instance
  /\ Move(u, "STARTING", "RUNNING", published'[u])

(* The instance could not be started. *)
GiveUp(u) == Move(u, "STARTING", "NOT RUNNING", NoInstance)

(* The instance is withdrawn before its process is told to stop. *)
Withdraw(u) == Move(u, "RUNNING", "STOPPING", NoInstance)

(* The process was told to stop. *)
Stopped(u) == Move(u, "STOPPING", "NOT RUNNING", NoInstance)

(* Teapot itself stops or dies: it forgets every state. *)
Forget ==
  /\ phase' = [u \in User |-> "NOT RUNNING"]
  /\ published' = [u \in User |-> NoInstance]

Next ==
  \/ \E u \in User : Start(u) \/ Publish(u) \/ GiveUp(u) \/ Withdraw(u) \/ Stopped(u)
  \/ Forget

Spec == Init /\ [][Next]_vars

(* No start lasts for ever, and no stop does. *)
StartEnds == \A u \in User : phase[u] = "STARTING" ~> phase[u] # "STARTING"
StopEnds == \A u \in User : phase[u] = "STOPPING" ~> phase[u] # "STOPPING"
=============================================================================
