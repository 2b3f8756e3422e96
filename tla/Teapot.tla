------------------------------- MODULE Teapot -------------------------------
(***************************************************************************)
(* Teapot (src/shared/patches/teapot/teapot.py): a WebDAV proxy that runs  *)
(* one storm-webdav process (a JVM) per local user, starts it on the first *)
(* request of the user, proxies requests to it, and stops it once idle.    *)
(*                                                                         *)
(* Everything runs in one asyncio event loop: a task gives way only where  *)
(* it awaits.  An action is what a task does between two such points.  The *)
(* body of "async with app.state.state_lock" never awaits, and sw_state is *)
(* read and written under sw_condition only, so each locked section is one *)
(* action, the session update nested in it included: the session fields    *)
(* that other tasks change without sw_condition (active_requests) commute  *)
(* with the part of the section before the nested lock.                    *)
(*                                                                         *)
(* Processes outlive Teapot, need time to boot and to exit, and may die by *)
(* themselves; Teapot may crash and restart from its session store.        *)
(***************************************************************************)
EXTENDS Integers, Sequences, FiniteSets

CONSTANTS
  MaxRequest,      (* bound: requests over a behaviour                       *)
  User,            (* what _map_fed_to_local returns for their subjects      *)
  Unmapped,        (* the members of User that stand for None                *)
  MaxPid,          (* bound: processes started over a behaviour              *)
  STARTING_PORT,   (* one less than the first port (teapot.py:110-113)       *)
  STARTUP_TIMEOUT, (* probes of a starting instance before giving up         *)
  Faults,          (* what may go wrong in this instance of the model        *)
  NoSession,       (* no entry for the user in session_state                 *)
  NoFile,          (* there is no session store file                         *)
  Truncated,       (* the session store file is not valid JSON               *)
  Nobody           (* no user                                                *)

FaultNames ==
  {"dirs",    \* the directories of all users are missing
   "status",  \* the process found is neither running nor sleeping
   "slow",    \* a process may boot after the last probe
   "raise",   \* the account or a directory of the user is missing, or a probe
              \* raises something else than ConnectError
   "send",    \* a proxied request fails although the instance is up
   "read",    \* the response cannot be read to its end
   "kill",    \* sudo kill fails although the process is alive
   "linger",  \* a process told to stop takes time to exit
   "jvm",     \* a process dies by itself
   "shutdown", \* Teapot is told to stop, and is started again
   "crash"}   \* Teapot is killed, and is started again

Request == 1 .. MaxRequest   \* in the order in which they arrive
Pid == 1 .. MaxPid
MaxPort == STARTING_PORT + 2 * MaxPid   \* no process is ever given a higher one
NoPid == 0          \* the None of session["pid"]
FailedPort == -1    \* the port recorded for a start that failed

ASSUME ConstantsAssumption ==
  /\ MaxRequest \in Nat
  /\ MaxPid \in Nat
  /\ STARTING_PORT \in Nat
  /\ STARTUP_TIMEOUT \in Nat
  /\ Unmapped \subseteq User
  /\ Nobody \notin User
  /\ Faults \subseteq FaultNames

VARIABLES
  teapot,   (* whether the Teapot process is up                              *)
  swState,  (* sw_state                                                      *)
  waiters,  (* the queue of sw_condition.wait(), one for all users           *)
  session,  (* app.state.session_state                                       *)
  idle,     (* recorded users not accessed for INSTANCE_TIMEOUT_SEC          *)
  store,    (* the session store file: sessions, NoFile or Truncated         *)
  pc,       (* where each request is                                         *)
  user, port, pid, tries,   (* the local variables of each request           *)
  task,     (* where the reaper and the lifespan function are                *)
  todo,     (* the users each of the two has yet to look at                  *)
  victim,   (* the user whose instance each of the two stops                 *)
  proc      (* the storm-webdav processes                                    *)

teapotVars == <<teapot, swState, waiters, session, idle, store>>
localVars == <<user, port, pid, tries>>
taskVars == <<task, todo, victim>>
vars == <<teapotVars, pc, localVars, taskVars, proc>>

SwState == {"ABSENT", "NOT RUNNING", "STARTING", "RUNNING", "STOPPING"}
Session == [pid : Pid \cup {NoPid}, port : Nat \cup {FailedPort}, active : Nat]
ProcState == {"unused", "booting", "up", "dying", "dead"}
Process == [user : User \cup {Nobody}, port : Nat, state : ProcState]
Task == {"reaper", "lifespan"}

Starting == {"spawn", "getproc", "failed", "probe", "started"}
InFlight == {"send", "respond"}
Ended == {"done", "error"}
PC == {"idle", "enter", "waiting", "lookup", "count"}
        \cup Starting \cup InFlight \cup Ended

ASSUME NoSessionAssumption ==
  /\ NoSession \notin Session
  /\ {NoFile, Truncated} \cap [User -> Session \cup {NoSession}] = {}
  /\ NoFile # Truncated

NoSessions == [u \in User |-> NoSession]
Recorded == {u \in User : session[u] # NoSession}

----------------------------------------------------------------------------
(* Every write to the sessions is followed by save_session_state. *)
Save(sessions) == session' = sessions /\ store' = sessions

(* last_accessed = now, or the stamp disappears with its session *)
Touch(u) == idle' = idle \ {u}

(* condition.notify() wakes the waiter that has waited longest, whatever   *)
(* its user; it takes the lock again and tests the state again.            *)
Notify == waiters' = IF waiters = <<>> THEN <<>> ELSE Tail(waiters)
Notified == IF waiters = <<>> THEN pc ELSE [pc EXCEPT ![Head(waiters)] = "enter"]

Goto(r, label) == pc' = [pc EXCEPT ![r] = label]
(* Mutant: without notify. *)
NotifyNobody(c) == UNCHANGED <<waiters, pc>>

NotifyIf(c) == IF c THEN Notify /\ pc' = Notified ELSE UNCHANGED <<waiters, pc>>
NotifyAndGoto(r, label) == Notify /\ pc' = [Notified EXCEPT ![r] = label]

SetState(u, s) == swState' = [swState EXCEPT ![u] = s]
(* Mutant: whatever the state is. *)
ForceState(u, from, to) == SetState(u, to)

(* "if state[user] == from: state[user] = to" *)
LeaveState(u, from, to) ==
  swState' = IF swState[u] = from THEN [swState EXCEPT ![u] = to] ELSE swState

(* An instance listens on port (HTTPS) and on port + 1 (HTTP); given port 0 *)
(* it listens on a port of the system's choice, which nobody knows.         *)
Listens(p) == {p, p + 1} \ {0}
Bound(p) == \E q \in Pid : proc[q].state \in {"up", "dying"} /\ p \in Listens(proc[q].port)
Answers(p) == p # 0 /\ \E q \in Pid : proc[q].state = "up" /\ proc[q].port = p
Alive(q) == q # NoPid /\ proc[q].state \in {"booting", "up", "dying"}

(* _find_usable_port_no and _test_port: the first port that can be bound    *)
(* above every recorded one.                                                *)
UsedPorts == IF Recorded = {} THEN {STARTING_PORT} ELSE {session[u].port : u \in Recorded}
UsablePort(p) ==
  \E top \in UsedPorts :
    /\ \A other \in UsedPorts : other <= top
    /\ p > top
    /\ p = 0 \/ ~ Bound(p)
    /\ \A q \in (top + 1) .. (p - 1) : q # 0 /\ Bound(q)
----------------------------------------------------------------------------
(* Requests: root, storm_webdav_state, _start_webdav_instance.             *)

(* A request is accepted and its subject mapped to a local user. *)
Arrive(r, u) ==
  /\ teapot = "up" /\ task["lifespan"] = "serve"
  /\ pc[r] = "idle" /\ \A s \in 1 .. (r - 1) : pc[s] # "idle"
  /\ user' = [user EXCEPT ![r] = u]
  /\ Goto(r, "enter")
  /\ UNCHANGED <<teapotVars, port, pid, tries, taskVars, proc>>

(* Mutant: an instance that is being stopped counts as not running. *)
NotUp(u) == swState[u] \notin {"STARTING", "RUNNING"}

NotRunning(u) == swState[u] \in {"ABSENT", "NOT RUNNING"}

(* No instance: this request starts it. *)
EnterAndStart(r) ==
  /\ pc[r] = "enter" /\ NotRunning(user[r])
  /\ SetState(user[r], "STARTING")
  /\ NotifyAndGoto(r, "spawn")
  /\ UNCHANGED <<teapot, session, idle, store, localVars, taskVars, proc>>

EnterRunning(r) ==
  /\ pc[r] = "enter"
  /\ swState[user[r]] = "RUNNING"
  /\ Goto(r, "lookup")
  /\ UNCHANGED <<teapotVars, localVars, taskVars, proc>>

(* Someone else starts or stops it: condition.wait(). *)
EnterAndWait(r) ==
  /\ pc[r] = "enter"
  /\ swState[user[r]] \in {"STARTING", "STOPPING"}
  /\ waiters' = Append(waiters, r)
  /\ Goto(r, "waiting")
  /\ UNCHANGED <<teapot, swState, session, idle, store, localVars, taskVars, proc>>

(* The subject has no local user: the start is taken back, ValueError. *)
RejectUnmapped(r) ==
  /\ pc[r] = "spawn" /\ user[r] \in Unmapped
  /\ SetState(user[r], "NOT RUNNING")
  /\ Goto(r, "error")
  /\ UNCHANGED <<teapot, waiters, session, idle, store, localVars, taskVars, proc>>

(* /var/lib/APP_NAME does not exist: no process is started. *)
SpawnFail(r) ==
  /\ "dirs" \in Faults
  /\ pc[r] = "spawn" /\ user[r] \notin Unmapped
  /\ Goto(r, "failed")
  /\ UNCHANGED <<teapotVars, localVars, taskVars, proc>>

(* A port is chosen and the process started; nothing records either yet. *)
Spawn(r) ==
  /\ pc[r] = "spawn" /\ user[r] \notin Unmapped
  /\ \E p \in 0 .. MaxPort, q \in Pid :
       /\ UsablePort(p)
       /\ proc[q].state = "unused"
       /\ \A o \in Pid : proc[o].state = "unused" => q <= o
       /\ proc' = [proc EXCEPT ![q] = [user |-> user[r], port |-> p, state |-> "booting"]]
       /\ port' = [port EXCEPT ![r] = p]
  /\ Goto(r, "getproc")
  /\ UNCHANGED <<teapotVars, user, pid, tries, taskVars>>

(* _get_proc, a second later: the lowest pid whose command line names the   *)
(* user's directory.                                                        *)
FoundAny(u) == {q \in Pid : Alive(q)}   \* mutant: of any user

Found(u) == {q \in Pid : proc[q].user = u /\ Alive(q)}
LowestFound(u, q) == q \in Found(u) /\ \A o \in Found(u) : q <= o

GetProc(r) ==
  /\ pc[r] = "getproc"
  /\ \E q \in Pid : LowestFound(user[r], q) /\ pid' = [pid EXCEPT ![r] = q]
  /\ tries' = [tries EXCEPT ![r] = 0]
  /\ Goto(r, "probe")
  /\ UNCHANGED <<teapotVars, user, port, taskVars, proc>>

(* The process found is in another state: kill_proc.wait() blocks the event *)
(* loop until it ends, and None is returned.                                *)
GetProcBadStatus(r) ==
  /\ "status" \in Faults
  /\ pc[r] = "getproc"
  /\ \E q \in Pid : LowestFound(user[r], q) /\ proc' = [proc EXCEPT ![q].state = "dead"]
  /\ Goto(r, "failed")
  /\ UNCHANGED <<teapotVars, localVars, taskVars>>

(* No process has such a command line any more: RuntimeError. *)
GetProcNone(r) ==
  /\ pc[r] = "getproc"
  /\ Found(user[r]) = {}
  /\ Goto(r, "error")
  /\ UNCHANGED <<teapotVars, localVars, taskVars, proc>>

(* if not pid: the start is given up, and a session without process is     *)
(* recorded; the -1 returned makes root raise.                             *)
GiveUpNot(u) == UNCHANGED swState   \* mutant: the state stays STARTING

GiveUp(u) == LeaveState(u, "STARTING", "NOT RUNNING")

StartFailed(r) ==
  LET u == user[r] IN
  /\ pc[r] = "failed"
  /\ GiveUp(u)
  /\ IF swState[u] = "STARTING" THEN NotifyAndGoto(r, "error")
                                ELSE Goto(r, "error") /\ UNCHANGED waiters
  /\ Save([session EXCEPT ![u] = [pid |-> NoPid, port |-> FailedPort, active |-> 0]])
  /\ Touch(u)
  /\ UNCHANGED <<teapot, localVars, taskVars, proc>>

(* One turn of "while not running". *)
ProbeAnswered(r) ==
  /\ pc[r] = "probe" /\ tries[r] < STARTUP_TIMEOUT
  /\ Answers(port[r])
  /\ Goto(r, "started")
  /\ UNCHANGED <<teapotVars, localVars, taskVars, proc>>

ProbeMissed(r) ==
  /\ pc[r] = "probe" /\ tries[r] < STARTUP_TIMEOUT
  /\ ~ Answers(port[r])
  /\ \/ "slow" \in Faults
     \/ tries[r] + 1 < STARTUP_TIMEOUT
     \/ \A q \in Pid : ~ (proc[q].state = "booting" /\ proc[q].port = port[r])
  /\ tries' = [tries EXCEPT ![r] = @ + 1]
  /\ UNCHANGED <<teapotVars, pc, user, port, pid, taskVars, proc>>

(* An exception nothing catches: the state stays STARTING. *)
StartRaises(r) ==
  /\ "raise" \in Faults
  /\ \/ pc[r] = "spawn" /\ user[r] \notin Unmapped
     \/ pc[r] = "probe" /\ tries[r] < STARTUP_TIMEOUT
  /\ Goto(r, "error")
  /\ UNCHANGED <<teapotVars, localVars, taskVars, proc>>

(* The instance did not answer in time.  session_state.pop(user) raises     *)
(* KeyError when nothing is recorded; the request fails either way.         *)
StartTimedOut(r) ==
  LET u == user[r] IN
  /\ pc[r] = "probe" /\ tries[r] >= STARTUP_TIMEOUT
  /\ GiveUp(u)
  /\ IF u \in Recorded THEN Save([session EXCEPT ![u] = NoSession])
                       ELSE UNCHANGED <<session, store>>
  /\ Touch(u)
  /\ Goto(r, "error")
  /\ UNCHANGED <<teapot, waiters, localVars, taskVars, proc>>

StartSucceeded(r) ==
  LET u == user[r] IN
  /\ pc[r] = "started"
  /\ LeaveState(u, "STARTING", "RUNNING")
  /\ Save([session EXCEPT ![u] = [pid |-> pid[r], port |-> port[r], active |-> 0]])
  /\ Touch(u)
  /\ NotifyAndGoto(r, "count")
  /\ UNCHANGED <<teapot, localVars, taskVars, proc>>

(* The instance was running: its port is read under the lock again, which   *)
(* is KeyError or -1 when it was stopped in between.                        *)
HasPort(u) == u \in Recorded /\ session[u].port # FailedPort

Lookup(r) ==
  /\ pc[r] = "lookup" /\ HasPort(user[r])
  /\ port' = [port EXCEPT ![r] = session[user[r]].port]
  /\ Goto(r, "count")
  /\ UNCHANGED <<teapotVars, user, pid, tries, taskVars, proc>>

LookupFails(r) ==
  /\ pc[r] = "lookup" /\ ~ HasPort(user[r])
  /\ Goto(r, "error")
  /\ UNCHANGED <<teapotVars, localVars, taskVars, proc>>

(* Mutants: the decrement is forgotten, or save_session_state is.          *)
DropActiveNot(u) == UNCHANGED <<session, store>>
DropActiveUnsaved(u) ==
  session' = [session EXCEPT ![u].active = IF @ > 0 THEN @ - 1 ELSE 0] /\ UNCHANGED store

(* active_requests of a user who has a session. *)
AddActive(u) == Save([session EXCEPT ![u].active = @ + 1])
DropActive(u) == Save([session EXCEPT ![u].active = IF @ > 0 THEN @ - 1 ELSE 0])

Count(r) ==
  LET u == user[r] IN
  /\ pc[r] = "count"
  /\ IF u \in Recorded THEN AddActive(u) ELSE UNCHANGED <<session, store>>
  /\ Goto(r, "send")
  /\ UNCHANGED <<teapot, swState, waiters, idle, localVars, taskVars, proc>>

(* client.send: the instance answers, or the exception handler uncounts the *)
(* request.                                                                 *)
Send(r) ==
  /\ pc[r] = "send"
  /\ Answers(port[r])
  /\ Goto(r, "respond")
  /\ UNCHANGED <<teapotVars, localVars, taskVars, proc>>

SendFails(r) ==
  LET u == user[r] IN
  /\ pc[r] = "send"
  /\ "send" \in Faults \/ ~ Answers(port[r])
  /\ IF u \in Recorded THEN DropActive(u) ELSE UNCHANGED <<session, store>>
  /\ Goto(r, "error")
  /\ UNCHANGED <<teapot, swState, waiters, idle, localVars, taskVars, proc>>

(* The response went out: _decrement_active_requests runs in background. *)
Respond(r) ==
  LET u == user[r] IN
  /\ pc[r] = "respond"
  /\ IF u \in Recorded THEN DropActive(u) /\ Touch(u)
                       ELSE UNCHANGED <<session, store, idle>>
  /\ Goto(r, "done")
  /\ UNCHANGED <<teapot, swState, waiters, localVars, taskVars, proc>>

(* The response cannot be read to its end: nothing uncounts the request. *)
ReadFails(r) ==
  /\ pc[r] = "respond"
  /\ "read" \in Faults \/ ~ Answers(port[r])
  /\ Goto(r, "error")
  /\ UNCHANGED <<teapotVars, localVars, taskVars, proc>>

----------------------------------------------------------------------------
(* The reaper (stop_expired_instances) and the shutdown half of lifespan.  *)

(* CHECK_INTERVAL_SEC passed.  "now" is read once: only sessions that are   *)
(* already idle can be stopped by this sweep.                               *)
Sweep ==
  /\ teapot = "up"
  /\ task["reaper"] = "sleep"
  /\ todo' = [todo EXCEPT !["reaper"] = Recorded \cap idle]
  /\ task' = [task EXCEPT !["reaper"] = "sweep"]
  /\ UNCHANGED <<teapotVars, pc, localVars, victim, proc>>

Expired(u) == u \in Recorded /\ u \in idle /\ ~ (session[u].active > 0)

TakeVictim(t, u) ==
  /\ task' = [task EXCEPT ![t] = "stop"]
  /\ victim' = [victim EXCEPT ![t] = u]

Check(u) ==
  /\ task["reaper"] = "sweep" /\ u \in todo["reaper"]
  /\ todo' = [todo EXCEPT !["reaper"] = @ \ {u}]
  /\ IF Expired(u) THEN TakeVictim("reaper", u) ELSE UNCHANGED <<task, victim>>
  /\ UNCHANGED <<teapotVars, pc, localVars, proc>>

SweepEnds ==
  /\ task["reaper"] = "sweep" /\ todo["reaper"] = {}
  /\ task' = [task EXCEPT !["reaper"] = "sleep"]
  /\ UNCHANGED <<teapotVars, pc, localVars, todo, victim, proc>>

(* uvicorn runs the code after "yield" once no request is being served. *)
ShutdownStarts ==
  /\ "shutdown" \in Faults
  /\ teapot = "up" /\ task["lifespan"] = "serve"
  /\ \A r \in Request : pc[r] \in {"idle"} \cup Ended
  /\ todo' = [todo EXCEPT !["lifespan"] = Recorded]
  /\ task' = [task EXCEPT !["lifespan"] = "sweep"]
  /\ UNCHANGED <<teapotVars, pc, localVars, victim, proc>>

ShutdownNext(u) ==
  /\ task["lifespan"] = "sweep" /\ u \in todo["lifespan"]
  /\ todo' = [todo EXCEPT !["lifespan"] = @ \ {u}]
  /\ TakeVictim("lifespan", u)
  /\ UNCHANGED <<teapotVars, pc, localVars, proc>>

(* Mutant: the state is left as it is. *)
WithdrawNothing(u) == UNCHANGED <<swState, waiters, pc>>

(* RUNNING becomes STOPPING before the session goes. *)
Withdraw(u) ==
  /\ LeaveState(u, "RUNNING", "STOPPING")
  /\ NotifyIf(swState[u] = "RUNNING")

(* _stop_webdav_instance, to the end of kill_proc.wait(). *)
StopBody(t) ==
  LET u == victim[t]
      q == session[u].pid
  IN
  /\ task[t] = "stop" /\ swState[u] # "ABSENT" /\ u \in Recorded
  /\ Withdraw(u)
  /\ Save([session EXCEPT ![u] = NoSession])
  /\ Touch(u)
  /\ \/ /\ Alive(q)
        /\ \E s \in IF "linger" \in Faults THEN {"dying", "dead"} ELSE {"dead"} :
             proc' = [proc EXCEPT ![q].state = s]
        /\ task' = [task EXCEPT ![t] = "killed"]
     \/ /\ ~ Alive(q) \/ "kill" \in Faults
        /\ task' = [task EXCEPT ![t] = "sweep"]
        /\ UNCHANGED proc
  /\ UNCHANGED <<teapot, localVars, todo, victim>>

(* session_state.pop(username) raises KeyError, which is caught: -1. *)
StopNothing(t) ==
  LET u == victim[t] IN
  /\ task[t] = "stop" /\ swState[u] # "ABSENT" /\ u \notin Recorded
  /\ Withdraw(u)
  /\ task' = [task EXCEPT ![t] = "sweep"]
  /\ UNCHANGED <<teapot, session, idle, store, localVars, todo, victim, proc>>

(* state[username] raises KeyError, which nothing catches. *)
StopRaises(t) ==
  /\ task[t] = "stop" /\ swState[victim[t]] = "ABSENT"
  /\ task' = [task EXCEPT ![t] = "raised"]
  /\ UNCHANGED <<teapotVars, pc, localVars, todo, victim, proc>>

(* Mutant: the state stays STOPPING. *)
StopDoneSilently(t) ==
  /\ task[t] = "killed"
  /\ task' = [task EXCEPT ![t] = "sweep"]
  /\ UNCHANGED <<teapotVars, pc, localVars, todo, victim, proc>>

(* The kill succeeded: the lock is taken again. *)
StopDone(t) ==
  LET u == victim[t] IN
  /\ task[t] = "killed"
  /\ LeaveState(u, "STOPPING", "NOT RUNNING")
  /\ NotifyIf(swState[u] = "STOPPING")
  /\ task' = [task EXCEPT ![t] = "sweep"]
  /\ UNCHANGED <<teapot, session, idle, store, localVars, todo, victim, proc>>
----------------------------------------------------------------------------
(* The Teapot process ends and starts; time; the storm-webdav processes.   *)

(* All of Teapot's memory is gone and the connections are closed. *)
Forget ==
  /\ teapot' = "down"
  /\ swState' = [u \in User |-> "ABSENT"]
  /\ waiters' = <<>>
  /\ session' = NoSessions
  /\ pc' = [r \in Request |-> IF pc[r] \in {"idle"} \cup Ended THEN pc[r] ELSE "error"]
  /\ task' = [t \in Task |-> "raised"]
  /\ todo' = [t \in Task |-> {}]
  /\ UNCHANGED <<localVars, victim, proc>>

(* lifespan unlinks the session store last. *)
ShutdownEnds ==
  /\ task["lifespan"] = "sweep" /\ todo["lifespan"] = {}
  /\ store' = NoFile
  /\ idle' = {}
  /\ Forget

(* An exception in lifespan ends the shutdown half way. *)
ShutdownFails ==
  /\ teapot = "up" /\ task["lifespan"] = "raised"
  /\ UNCHANGED <<store, idle>>
  /\ Forget

(* A crash during save_session_state leaves a truncated file: open(.., "w"). *)
Saving ==
  \/ \E r \in Request : pc[r] \in {"failed", "probe", "started", "count"} \cup InFlight
  \/ \E t \in Task : task[t] = "stop"

Crash ==
  /\ "crash" \in Faults
  /\ teapot = "up"
  /\ \/ UNCHANGED <<store, idle>>
     \/ Saving /\ store' = Truncated /\ idle' = {}
  /\ Forget

(* load_session_state: sw_state starts empty whatever was saved.  With a   *)
(* truncated file json.load raises and Teapot does not come up.            *)
Boot ==
  /\ teapot = "down" /\ store # Truncated
  /\ teapot' = "up"
  /\ Save(IF store = NoFile THEN NoSessions ELSE store)
  /\ task' = [t \in Task |-> IF t = "reaper" THEN "sleep" ELSE "serve"]
  /\ UNCHANGED <<swState, waiters, idle, pc, localVars, todo, victim, proc>>

(* INSTANCE_TIMEOUT_SEC passed since last_accessed of the user: far longer  *)
(* than the event loop keeps a task waiting that can run.                   *)
Runnable ==
  \/ \E r \in Request : pc[r] \in {"enter", "spawn", "failed", "started", "lookup", "count"}
  \/ \E t \in Task :
       \/ task[t] \in {"stop", "killed"}
       \/ task[t] = "sweep" /\ todo[t] # {}
Stamped == IF store \in {NoFile, Truncated} THEN {} ELSE {u \in User : store[u] # NoSession}
Age(u) ==
  /\ ~ Runnable
  /\ u \in Stamped \ idle
  /\ idle' = idle \cup {u}
  /\ UNCHANGED <<teapot, swState, waiters, session, store, pc, localVars, taskVars, proc>>

ProcBecomes(q, s) ==
  /\ proc' = [proc EXCEPT ![q].state = s]
  /\ UNCHANGED <<teapotVars, pc, localVars, taskVars>>

PortTaken(q) == \E p \in Listens(proc[q].port) : Bound(p)
ProcUp(q) == proc[q].state = "booting" /\ ~ PortTaken(q) /\ ProcBecomes(q, "up")
ProcPortTaken(q) == proc[q].state = "booting" /\ PortTaken(q) /\ ProcBecomes(q, "dead")
ProcExits(q) == proc[q].state = "dying" /\ ProcBecomes(q, "dead")
ProcDies(q) ==
  "jvm" \in Faults /\ proc[q].state \in {"booting", "up"} /\ ProcBecomes(q, "dead")

----------------------------------------------------------------------------
Init ==
  /\ teapot = "up"
  /\ swState = [u \in User |-> "ABSENT"]
  /\ waiters = <<>>
  /\ session = NoSessions
  /\ idle = {}
  /\ store = NoSessions
  /\ pc = [r \in Request |-> "idle"]
  /\ user = [r \in Request |-> Nobody]
  /\ port = [r \in Request |-> 0]
  /\ pid = [r \in Request |-> NoPid]
  /\ tries = [r \in Request |-> 0]
  /\ task = [t \in Task |-> IF t = "reaper" THEN "sleep" ELSE "serve"]
  /\ todo = [t \in Task |-> {}]
  /\ victim = [t \in Task |-> Nobody]
  /\ proc = [q \in Pid |-> [user |-> Nobody, port |-> 0, state |-> "unused"]]

EnterStep(r) == EnterAndStart(r) \/ EnterRunning(r) \/ EnterAndWait(r)
StartStep(r) ==
  \/ RejectUnmapped(r) \/ SpawnFail(r) \/ Spawn(r)
  \/ GetProc(r) \/ GetProcBadStatus(r) \/ GetProcNone(r) \/ StartFailed(r)
  \/ ProbeAnswered(r) \/ ProbeMissed(r) \/ StartRaises(r)
  \/ StartTimedOut(r) \/ StartSucceeded(r)
ProxyStep(r) ==
  \/ Lookup(r) \/ LookupFails(r) \/ Count(r)
  \/ Send(r) \/ SendFails(r) \/ Respond(r) \/ ReadFails(r)
RequestStep(r) == EnterStep(r) \/ StartStep(r) \/ ProxyStep(r)

StopStep(t) == StopBody(t) \/ StopNothing(t) \/ StopRaises(t) \/ StopDone(t)
ReaperStep == Sweep \/ SweepEnds \/ StopStep("reaper") \/ \E u \in User : Check(u)
LifespanStep ==
  ShutdownEnds \/ ShutdownFails \/ StopStep("lifespan") \/ \E u \in User : ShutdownNext(u)
ProcStep(q) == ProcUp(q) \/ ProcPortTaken(q) \/ ProcExits(q)

Next ==
  \/ \E r \in Request : RequestStep(r)
  \/ \E r \in Request, u \in User : Arrive(r, u)
  \/ ReaperStep \/ LifespanStep \/ ShutdownStarts
  \/ Crash \/ Boot
  \/ \E u \in User : Age(u)
  \/ \E q \in Pid : ProcStep(q) \/ ProcDies(q)

Spec == Init /\ [][Next]_vars

(* The event loop keeps running tasks that can run, time passes, processes  *)
(* boot and exit.  Nothing makes clients send requests, Teapot stop or      *)
(* start, or a fault happen.  Each request and each process takes finitely  *)
(* many steps between two notifications, so no one is starved.              *)
Fairness ==
  /\ WF_vars(\E r \in Request : RequestStep(r))
  /\ WF_vars(ReaperStep) /\ WF_vars(LifespanStep)
  /\ WF_vars(\E u \in User : Age(u))
  /\ WF_vars(\E q \in Pid : ProcStep(q))

FairSpec == Spec /\ Fairness

----------------------------------------------------------------------------
(* Every variable has the values the code can give it. *)
TypeOK ==
  /\ teapot \in {"up", "down"}
  /\ swState \in [User -> SwState]
  /\ waiters \in Seq(Request)
  /\ session \in [User -> Session \cup {NoSession}]
  /\ idle \in SUBSET User
  /\ store \in [User -> Session \cup {NoSession}] \cup {NoFile, Truncated}
  /\ pc \in [Request -> PC]
  /\ user \in [Request -> User \cup {Nobody}]
  /\ port \in [Request -> Nat]
  /\ pid \in [Request -> Pid \cup {NoPid}]
  /\ tries \in [Request -> Nat]
  /\ task \in [Task -> {"sleep", "serve", "sweep", "stop", "killed", "raised"}]
  /\ todo \in [Task -> SUBSET User]
  /\ victim \in [Task -> User \cup {Nobody}]
  /\ proc \in [Pid -> Process]

(* At most one request starts the instance of a user, from the moment it    *)
(* takes the state to STARTING until it leaves storm_webdav_state, however  *)
(* many arrive meanwhile and whoever wakes up.                              *)
SoleStarter ==
  /\ \A r \in Request : pc[r] \in Starting => swState[user[r]] = "STARTING"
  /\ \A r, s \in Request :
       pc[r] \in Starting /\ pc[s] \in Starting /\ user[r] = user[s] => r = s

(* RUNNING is only ever said of a user whose process and port are recorded, *)
(* and a user being stopped has no session any more.                        *)
InstanceRecorded ==
  \A u \in User :
    /\ swState[u] = "RUNNING" =>
         u \in Recorded /\ session[u].pid \in Pid /\ session[u].port > STARTING_PORT
    /\ swState[u] = "STOPPING" => u \notin Recorded

(* The session store always holds what memory holds. *)
StoreMatchesMemory == teapot = "up" => store = session

(* The pid recorded for a user is that of a process started for the user:  *)
(* stopping an instance never kills the instance of somebody else.         *)
OwnProcess ==
  \A u \in Recorded : session[u].pid # NoPid => proc[session[u].pid].user = u

----------------------------------------------------------------------------
(* What the lifecycle of the instance of a user is about. *)
phase == [u \in User |-> IF swState[u] = "ABSENT" THEN "NOT RUNNING" ELSE swState[u]]
published ==
  [u \in User |-> IF swState[u] = "RUNNING" THEN <<session[u].pid, session[u].port>>
                                            ELSE NoSession]

Lifecycle == INSTANCE InstanceLifecycle WITH
  Instance <- Pid \X Nat,
  NoInstance <- NoSession

(* Teapot keeps the lifecycle promised for the instance of every user: only *)
(* the transitions it names, whoever takes them, and what is published      *)
(* never changes while RUNNING.                                             *)
LifecycleSpec == Lifecycle!Spec

----------------------------------------------------------------------------
(* Where nothing goes wrong but what the code handles (one user, processes *)
(* that boot in time, live until they are stopped and exit at once):       *)

(* no start lasts for ever, and no stop does; *)
StartEnds == Lifecycle!StartEnds
StopEnds == Lifecycle!StopEnds

(* an instance nobody uses is stopped and its session dropped, as the       *)
(* docstring of stop_expired_instances has it: each way out of a request    *)
(* uncounts it.  This leaves out responses that cannot be read (ReadFails): *)
(* nothing uncounts those, and with the fault "read" it does not hold;      *)
IdleInstanceStopped ==
  \A u \in User :
    (u \in Recorded /\ \A r \in Request : pc[r] \in Ended) ~> u \notin Recorded

(* and as long as no start fails: every request is answered or refused, one *)
(* that slept in sw_condition.wait() and was not woken when the instance    *)
(* came up included: the notifications of the next stop reach it.           *)
NoStartFails == [](\A u \in Recorded : HasPort(u))
RequestEnds ==
  NoStartFails => []<>(\A r \in Request : pc[r] \in {"idle"} \cup Ended)

----------------------------------------------------------------------------
(* What the texts of the repository say and the code does not do.          *)

(* teapot.py:661 "has active requests, skipping shut down".                 *)
ReaperSparesActive ==
  [][(task["reaper"] = "stop" /\ task'["reaper"] # "stop" /\ victim["reaper"] \in Recorded)
       => session[victim["reaper"]].active = 0]_vars

(* adr-001:66 "per-user JVM isolation": what answers at the port recorded   *)
(* for a user is the instance of that user.                                 *)
OwnInstanceAnswers ==
  \A u \in Recorded, q \in Pid :
    proc[q].state = "up" /\ proc[q].port = session[u].port => proc[q].user = u
=============================================================================
