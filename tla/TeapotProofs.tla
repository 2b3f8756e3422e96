---------------------------- MODULE TeapotProofs ----------------------------
(***************************************************************************)
(* Proofs about Teapot: the inductive invariant behind its safety          *)
(* invariants, for every number of requests, users, processes and ports    *)
(* and whatever faults happen.                                             *)
(***************************************************************************)
EXTENDS Teapot, SequenceTheorems, TLAPS

(* Whoever is being served, sleeps or stops an instance is known. *)
ActorsKnown ==
  /\ \A r \in Request : pc[r] # "idle" => user[r] \in User
  /\ \A i \in 1 .. Len(waiters) : pc[waiters[i]] # "idle"
  /\ \A t \in Task : task[t] \in {"stop", "killed"} => victim[t] \in User

(* Nothing of Teapot's memory survives its end. *)
DownIsBlank ==
  teapot = "down" =>
    /\ \A u \in User : swState[u] = "ABSENT"
    /\ \A r \in Request : pc[r] \in {"idle"} \cup Ended
    /\ \A t \in Task : task[t] = "raised"

(* A process belongs to the user it was started for, from its start on. *)
UnusedIsNobodys == \A q \in Pid : proc[q].state = "unused" => proc[q].user = Nobody

(* What the starter of an instance holds in its local variables. *)
StarterHolds ==
  \A r \in Request :
    /\ pc[r] \in {"probe", "started"} => pid[r] \in Pid /\ proc[pid[r]].user = user[r]
    /\ pc[r] \in {"getproc", "probe", "started"} =>
         (port[r] = 0 \/ port[r] > STARTING_PORT)
    /\ pc[r] = "started" => port[r] # 0

(* A session has either the mark of a failed start or a port above         *)
(* STARTING_PORT, and the pid of a process of its user if any.              *)
Sound(sessions, processes) ==
  \A u \in User : sessions[u] # NoSession =>
    /\ sessions[u].port = FailedPort \/ sessions[u].port > STARTING_PORT
    /\ sessions[u].pid # NoPid => processes[sessions[u].pid].user = u
SessionsSound ==
  /\ Sound(session, proc)
  /\ store \notin {NoFile, Truncated} => Sound(store, proc)

Inv ==
  /\ TypeOK
  /\ ActorsKnown /\ DownIsBlank
  /\ SoleStarter /\ StarterHolds
  /\ InstanceRecorded /\ SessionsSound
  /\ UnusedIsNobodys /\ StoreMatchesMemory

----------------------------------------------------------------------------
(* The queue of sleepers and the requests in it, after a notification. *)
LEMMA NotifyType ==
  ASSUME TypeOK, Notify
  PROVE  /\ waiters' \in Seq(Request)
         /\ Notified \in [Request -> PC]
         /\ \A r \in Request : Notified[r] = pc[r] \/ Notified[r] = "enter"
<1>1. CASE waiters = <<>>
  BY <1>1 DEF TypeOK, Notify, Notified
<1>2. CASE waiters # <<>>
  <2>1. Head(waiters) \in Request /\ Tail(waiters) \in Seq(Request)
    BY <1>2, HeadTailProperties DEF TypeOK
  <2>2. "enter" \in PC
    BY DEF PC
  <2> QED BY <1>2, <2>1, <2>2 DEF TypeOK, Notify, Notified
<1> QED BY <1>1, <1>2

LEMMA TypeEnter ==
  ASSUME TypeOK, ActorsKnown, NEW r \in Request, EnterStep(r)
  PROVE  TypeOK'
<1> USE DEF TypeOK, teapotVars, localVars, taskVars, PC, Starting, InFlight, Ended
<1>1. CASE EnterAndStart(r)
  <2>1. Notify /\ pc' = [Notified EXCEPT ![r] = "spawn"]
    BY <1>1 DEF EnterAndStart, NotifyAndGoto
  <2>2. pc' \in [Request -> PC] /\ waiters' \in Seq(Request)
    BY <2>1, NotifyType
  <2>3. swState' \in [User -> SwState]
    BY <1>1 DEF EnterAndStart, SetState, SwState
  <2> QED BY <1>1, <2>2, <2>3 DEF EnterAndStart
<1>2. CASE EnterRunning(r)
  BY <1>2 DEF EnterRunning, Goto
<1>3. CASE EnterAndWait(r)
  <2>1. waiters' \in Seq(Request)
    BY <1>3 DEF EnterAndWait
  <2> QED BY <1>3, <2>1 DEF EnterAndWait, Goto
<1> QED BY <1>1, <1>2, <1>3 DEF EnterStep

LEMMA SaveType ==
  ASSUME TypeOK, NEW u \in User, NEW s \in Session \cup {NoSession},
         Save([session EXCEPT ![u] = s])
  PROVE  /\ session' \in [User -> Session \cup {NoSession}]
         /\ store' \in [User -> Session \cup {NoSession}] \cup {NoFile, Truncated}
BY DEF TypeOK, Save

(* Counting a request changes nothing of a session but the count. *)
LEMMA ActiveType ==
  ASSUME TypeOK, NEW u \in Recorded, AddActive(u) \/ DropActive(u)
  PROVE  /\ session' \in [User -> Session \cup {NoSession}]
         /\ store' = session'
         /\ \A v \in User : session[v] = NoSession <=> session'[v] = NoSession
         /\ \A v \in Recorded : /\ session'[v].pid = session[v].pid
                                /\ session'[v].port = session[v].port
<1>1. session[u] \in Session /\ u \in User
  BY DEF TypeOK, Recorded
<1>2. PICK n \in Nat : session' = [session EXCEPT ![u].active = n] /\ store' = session'
  <2>1. session[u].active \in Nat
    BY <1>1 DEF Session
  <2> QED BY <2>1 DEF AddActive, DropActive, Save
<1>3. [session[u] EXCEPT !.active = n] \in Session
  BY <1>1, <1>2 DEF Session
<1>4. session' = [session EXCEPT ![u] = [session[u] EXCEPT !.active = n]]
  BY <1>2
<1>5. session'[u] # NoSession
  BY <1>1, <1>3, <1>4, NoSessionAssumption DEF TypeOK
<1>6. session'[u].pid = session[u].pid /\ session'[u].port = session[u].port
  BY <1>1, <1>4 DEF TypeOK, Session
<1>7. \A v \in User \ {u} : session'[v] = session[v]
  BY <1>4 DEF TypeOK
<1>8. session' \in [User -> Session \cup {NoSession}]
  BY <1>1, <1>3, <1>4 DEF TypeOK
<1> QED BY <1>1, <1>2, <1>5, <1>6, <1>7, <1>8 DEF Recorded

LEMMA TypeStart ==
  ASSUME TypeOK, ActorsKnown, NEW r \in Request, StartStep(r)
  PROVE  TypeOK'
<1> USE DEF TypeOK, teapotVars, localVars, taskVars, PC, Starting, InFlight, Ended
<1>0. pc[r] # "idle" => user[r] \in User
  BY DEF ActorsKnown
<1>1. CASE RejectUnmapped(r)
  BY <1>1 DEF RejectUnmapped, SetState, Goto, SwState
<1>2. CASE SpawnFail(r)
  BY <1>2 DEF SpawnFail, Goto
<1>3. CASE Spawn(r)
  <2>1. PICK p \in 0 .. MaxPort, q \in Pid :
          /\ proc' = [proc EXCEPT ![q] = [user |-> user[r], port |-> p, state |-> "booting"]]
          /\ port' = [port EXCEPT ![r] = p]
    BY <1>3 DEF Spawn
  <2>2. p \in Nat
    BY ConstantsAssumption DEF MaxPort
  <2>3. proc' \in [Pid -> Process] /\ port' \in [Request -> Nat]
    BY <1>0, <1>3, <2>1, <2>2 DEF Process, ProcState, Spawn
  <2> QED BY <1>3, <2>3 DEF Spawn, Goto
<1>4. CASE GetProc(r)
  BY <1>4 DEF GetProc, Goto
<1>5. CASE GetProcBadStatus(r)
  BY <1>5 DEF GetProcBadStatus, Goto, Process, ProcState
<1>6. CASE GetProcNone(r)
  BY <1>6 DEF GetProcNone, Goto
<1>7. CASE StartFailed(r)
  <2>1. user[r] \in User
    BY <1>0, <1>7 DEF StartFailed
  <2>2. [pid |-> NoPid, port |-> FailedPort, active |-> 0] \in Session
    BY DEF Session, NoPid, FailedPort
  <2>3. /\ session' \in [User -> Session \cup {NoSession}]
        /\ store' \in [User -> Session \cup {NoSession}] \cup {NoFile, Truncated}
    BY <1>7, <2>1, <2>2, SaveType DEF StartFailed
  <2>4. pc' \in [Request -> PC] /\ waiters' \in Seq(Request)
    <3>1. CASE swState[user[r]] = "STARTING"
      BY <1>7, <3>1, NotifyType DEF StartFailed, NotifyAndGoto
    <3>2. CASE swState[user[r]] # "STARTING"
      BY <1>7, <3>2 DEF StartFailed, Goto
    <3> QED BY <3>1, <3>2
  <2>5. swState' \in [User -> SwState] /\ idle' \in SUBSET User
    BY <1>7, <2>1 DEF StartFailed, GiveUp, LeaveState, SwState, Touch
  <2> QED BY <1>7, <2>3, <2>4, <2>5 DEF StartFailed
<1>8. CASE ProbeAnswered(r)
  BY <1>8 DEF ProbeAnswered, Goto
<1>9. CASE ProbeMissed(r)
  BY <1>9 DEF ProbeMissed
<1>10. CASE StartRaises(r)
  BY <1>10 DEF StartRaises, Goto
<1>11. CASE StartTimedOut(r)
  <2>1. user[r] \in User
    BY <1>0, <1>11 DEF StartTimedOut
  <2>2. /\ session' \in [User -> Session \cup {NoSession}]
        /\ store' \in [User -> Session \cup {NoSession}] \cup {NoFile, Truncated}
    BY <1>11, <2>1, SaveType DEF StartTimedOut
  <2>3. swState' \in [User -> SwState] /\ idle' \in SUBSET User
    BY <1>11, <2>1 DEF StartTimedOut, GiveUp, LeaveState, SwState, Touch
  <2> QED BY <1>11, <2>2, <2>3 DEF StartTimedOut, Goto
<1>12. CASE StartSucceeded(r)
  <2>1. user[r] \in User
    BY <1>0, <1>12 DEF StartSucceeded
  <2>2. [pid |-> pid[r], port |-> port[r], active |-> 0] \in Session
    BY DEF Session
  <2>3. /\ session' \in [User -> Session \cup {NoSession}]
        /\ store' \in [User -> Session \cup {NoSession}] \cup {NoFile, Truncated}
    BY <1>12, <2>1, <2>2, SaveType DEF StartSucceeded
  <2>4. pc' \in [Request -> PC] /\ waiters' \in Seq(Request)
    BY <1>12, NotifyType DEF StartSucceeded, NotifyAndGoto
  <2>5. swState' \in [User -> SwState] /\ idle' \in SUBSET User
    BY <1>12, <2>1 DEF StartSucceeded, LeaveState, SwState, Touch
  <2> QED BY <1>12, <2>3, <2>4, <2>5 DEF StartSucceeded
<1> QED
  BY <1>1, <1>2, <1>3, <1>4, <1>5, <1>6, <1>7, <1>8, <1>9, <1>10, <1>11, <1>12 DEF StartStep

LEMMA TypeProxy ==
  ASSUME TypeOK, ActorsKnown, NEW r \in Request, ProxyStep(r)
  PROVE  TypeOK'
<1> USE DEF TypeOK, teapotVars, localVars, taskVars, PC, Starting, InFlight, Ended
<1>1. CASE Lookup(r)
  <2>1. session[user[r]].port \in Nat
    BY <1>1 DEF Lookup, HasPort, Recorded, Session
  <2> QED BY <1>1, <2>1 DEF Lookup, Goto
<1>2. CASE LookupFails(r)
  BY <1>2 DEF LookupFails, Goto
<1>3. CASE Count(r)
  BY <1>3, ActiveType DEF Count, Goto
<1>4. CASE Send(r)
  BY <1>4 DEF Send, Goto
<1>5. CASE SendFails(r)
  BY <1>5, ActiveType DEF SendFails, Goto
<1>6. CASE Respond(r)
  BY <1>6, ActiveType DEF Respond, Goto, Touch
<1>7. CASE ReadFails(r)
  BY <1>7 DEF ReadFails, Goto
<1> QED BY <1>1, <1>2, <1>3, <1>4, <1>5, <1>6, <1>7 DEF ProxyStep

LEMMA WithdrawType ==
  ASSUME TypeOK, NEW u \in User, Withdraw(u)
  PROVE  /\ swState' \in [User -> SwState]
         /\ waiters' \in Seq(Request)
         /\ pc' \in [Request -> PC]
<1>1. swState' \in [User -> SwState]
  BY DEF TypeOK, Withdraw, LeaveState, SwState
<1>2. waiters' \in Seq(Request) /\ pc' \in [Request -> PC]
  BY NotifyType DEF TypeOK, Withdraw, NotifyIf
<1> QED BY <1>1, <1>2

(* Only the state of a process ever changes once it is started. *)
LEMMA ProcMoves ==
  ASSUME TypeOK, NEW q \in Pid, NEW s \in ProcState, proc' = [proc EXCEPT ![q].state = s]
  PROVE  /\ proc' \in [Pid -> Process]
         /\ \A o \in Pid : /\ proc'[o].user = proc[o].user
                           /\ proc'[o].port = proc[o].port
                           /\ o # q => proc'[o].state = proc[o].state
         /\ proc'[q].state = s
<1>1. [proc[q] EXCEPT !.state = s] \in Process
  BY DEF TypeOK, Process
<1> QED BY <1>1 DEF TypeOK, Process

(* The process a session names is told to stop. *)
LEMMA StopBodyProc ==
  ASSUME TypeOK, NEW t \in Task, StopBody(t), victim[t] \in User
  PROVE  \/ UNCHANGED proc
         \/ \E q \in Pid, s \in {"dying", "dead"} : proc' = [proc EXCEPT ![q].state = s]
<1> DEFINE q == session[victim[t]].pid
<1>1. q \in Pid \cup {NoPid}
  BY DEF TypeOK, StopBody, Recorded, Session
<1>2. CASE Alive(q) /\ \E s \in IF "linger" \in Faults THEN {"dying", "dead"} ELSE {"dead"} :
                         proc' = [proc EXCEPT ![q].state = s]
  BY <1>1, <1>2 DEF Alive
<1>3. CASE UNCHANGED proc
  BY <1>3
<1> QED BY <1>2, <1>3, Zenon DEF StopBody

LEMMA TypeStop ==
  ASSUME TypeOK, ActorsKnown, NEW t \in Task, StopStep(t)
  PROVE  TypeOK'
<1> USE DEF TypeOK, teapotVars, localVars, taskVars
<1>0. task[t] \in {"stop", "killed"} => victim[t] \in User
  BY DEF ActorsKnown
<1>1. CASE StopBody(t)
  <2>1. victim[t] \in User /\ Withdraw(victim[t]) /\ Save([session EXCEPT ![victim[t]] = NoSession])
    BY <1>0, <1>1 DEF StopBody
  <2>2. /\ swState' \in [User -> SwState]
        /\ waiters' \in Seq(Request)
        /\ pc' \in [Request -> PC]
    BY <2>1, WithdrawType
  <2>3. /\ session' \in [User -> Session \cup {NoSession}]
        /\ store' \in [User -> Session \cup {NoSession}] \cup {NoFile, Truncated}
    BY <2>1, SaveType
  <2>4. proc' \in [Pid -> Process]
    BY <1>1, <2>1, StopBodyProc, ProcMoves DEF ProcState
  <2>5. task' \in [Task -> {"sleep", "serve", "sweep", "stop", "killed", "raised"}]
    BY <1>1 DEF StopBody
  <2> QED BY <1>1, <2>2, <2>3, <2>4, <2>5 DEF StopBody, Touch
<1>2. CASE StopNothing(t)
  BY <1>0, <1>2, WithdrawType DEF StopNothing
<1>3. CASE StopRaises(t)
  BY <1>3 DEF StopRaises
<1>4. CASE StopDone(t)
  <2>1. waiters' \in Seq(Request) /\ pc' \in [Request -> PC]
    BY <1>4, NotifyType DEF StopDone, NotifyIf
  <2>2. swState' \in [User -> SwState]
    BY <1>0, <1>4 DEF StopDone, LeaveState, SwState
  <2> QED BY <1>4, <2>1, <2>2 DEF StopDone
<1> QED BY <1>1, <1>2, <1>3, <1>4 DEF StopStep

LEMMA ForgetType ==
  ASSUME TypeOK, Forget,
         store' \in [User -> Session \cup {NoSession}] \cup {NoFile, Truncated},
         idle' \in SUBSET User
  PROVE  TypeOK'
<1>1. waiters' \in Seq(Request) /\ pc' \in [Request -> PC]
  BY DEF TypeOK, Forget, PC, Ended
<1>2. swState' \in [User -> SwState] /\ session' \in [User -> Session \cup {NoSession}]
  BY DEF Forget, SwState, NoSessions
<1> QED BY <1>1, <1>2 DEF TypeOK, Forget, localVars

LEMMA TypeTask ==
  ASSUME TypeOK, ActorsKnown, ReaperStep \/ LifespanStep \/ ShutdownStarts
  PROVE  TypeOK'
<1> USE DEF TypeOK, teapotVars, localVars, taskVars
<1>1. CASE Sweep
  BY <1>1 DEF Sweep, Task
<1>2. CASE SweepEnds
  BY <1>2 DEF SweepEnds, Task
<1>3. ASSUME NEW u \in User, Check(u) PROVE TypeOK'
  BY <1>3 DEF Check, TakeVictim, Task
<1>4. ASSUME NEW u \in User, ShutdownNext(u) PROVE TypeOK'
  BY <1>4 DEF ShutdownNext, TakeVictim, Task
<1>5. CASE ShutdownStarts
  BY <1>5 DEF ShutdownStarts, Task, Recorded
<1>6. CASE ShutdownEnds
  BY <1>6, ForgetType DEF ShutdownEnds
<1>7. CASE ShutdownFails
  BY <1>7, ForgetType DEF ShutdownFails
<1>8. CASE StopStep("reaper") \/ StopStep("lifespan")
  BY <1>8, TypeStop DEF Task
<1> QED
  BY <1>1, <1>2, <1>3, <1>4, <1>5, <1>6, <1>7, <1>8 DEF ReaperStep, LifespanStep

LEMMA TypeWorld ==
  ASSUME TypeOK,
         \/ \E r \in Request, u \in User : Arrive(r, u)
         \/ Crash \/ Boot
         \/ \E u \in User : Age(u)
         \/ \E q \in Pid : ProcStep(q) \/ ProcDies(q)
  PROVE  TypeOK'
<1> USE DEF TypeOK, teapotVars, localVars, taskVars
<1>1. ASSUME NEW r \in Request, NEW u \in User, Arrive(r, u) PROVE TypeOK'
  BY <1>1 DEF Arrive, Goto, PC
<1>2. CASE Crash
  BY <1>2, ForgetType DEF Crash
<1>3. CASE Boot
  BY <1>3 DEF Boot, Save, NoSessions
<1>4. ASSUME NEW u \in User, Age(u) PROVE TypeOK'
  BY <1>4 DEF Age
<1>5. ASSUME NEW q \in Pid, ProcStep(q) \/ ProcDies(q) PROVE TypeOK'
  <2>1. PICK s \in {"up", "dead"} : ProcBecomes(q, s)
    BY <1>5 DEF ProcStep, ProcUp, ProcPortTaken, ProcExits, ProcDies
  <2>2. proc' \in [Pid -> Process]
    BY <2>1, ProcMoves DEF ProcBecomes, ProcState
  <2> QED BY <2>1, <2>2 DEF ProcBecomes
<1> QED BY <1>1, <1>2, <1>3, <1>4, <1>5

LEMMA TypeInit == Init => TypeOK
BY ConstantsAssumption
DEF Init, TypeOK, NoSessions, SwState, PC, Process, ProcState, Task, NoPid

LEMMA TypeStep == TypeOK /\ ActorsKnown /\ [Next]_vars => TypeOK'
<1> SUFFICES ASSUME TypeOK, ActorsKnown, [Next]_vars PROVE TypeOK'
  OBVIOUS
<1>1. ASSUME NEW r \in Request, RequestStep(r) PROVE TypeOK'
  BY <1>1, TypeEnter, TypeStart, TypeProxy DEF RequestStep
<1>2. CASE UNCHANGED vars
  BY <1>2 DEF TypeOK, vars, teapotVars, localVars, taskVars
<1> QED BY <1>1, <1>2, TypeTask, TypeWorld DEF Next

----------------------------------------------------------------------------
(* Who acts, and who else moves: a notification wakes one sleeper.         *)
LEMMA NotifyMoves ==
  ASSUME TypeOK, ActorsKnown, Notify
  PROVE  /\ \A r \in Request : Notified[r] = pc[r] \/ (Notified[r] = "enter" /\ pc[r] # "idle")
         /\ \A i \in 1 .. Len(waiters') : waiters'[i] \in Request /\ pc[waiters'[i]] # "idle"
<1>1. CASE waiters = <<>>
  <2>1. waiters' = <<>> /\ Notified = pc
    BY <1>1 DEF Notify, Notified
  <2>2. Len(waiters') = 0
    BY <2>1
  <2> QED BY <2>1, <2>2
<1>2. CASE waiters # <<>>
  <2>1. /\ Head(waiters) = waiters[1]
        /\ Tail(waiters) \in Seq(Request)
        /\ Len(Tail(waiters)) = Len(waiters) - 1
        /\ \A i \in 1 .. Len(Tail(waiters)) : Tail(waiters)[i] = waiters[i + 1]
    BY <1>2, HeadTailProperties DEF TypeOK
  <2>2. Len(waiters) \in Nat /\ Len(waiters) # 0
    BY <1>2 DEF TypeOK
  <2>3. \A r \in Request : Notified[r] = pc[r] \/ (Notified[r] = "enter" /\ pc[r] # "idle")
    <3>1. pc[Head(waiters)] # "idle"
      BY <2>1, <2>2 DEF ActorsKnown
    <3>2. Notified = [pc EXCEPT ![Head(waiters)] = "enter"]
      BY <1>2 DEF Notified
    <3> QED BY <3>1, <3>2 DEF TypeOK
  <2>4. \A i \in 1 .. Len(waiters') : waiters'[i] \in Request /\ pc[waiters'[i]] # "idle"
    <3> SUFFICES ASSUME NEW i \in 1 .. Len(waiters')
                 PROVE  waiters'[i] \in Request /\ pc[waiters'[i]] # "idle"
      OBVIOUS
    <3>1. waiters'[i] = waiters[i + 1] /\ i + 1 \in 1 .. Len(waiters)
      BY <1>2, <2>1, <2>2 DEF Notify
    <3> QED BY <3>1, ElementOfSeq DEF TypeOK, ActorsKnown
  <2> QED BY <2>3, <2>4
<1> QED BY <1>1, <1>2

(* No request goes back to where it has not arrived. *)
Moved(pcs) ==
  \A s \in Request : pcs[s] = pc[s] \/ (pcs[s] = "enter" /\ pc[s] # "idle")
SleepersKnown(pcs, sleepers) ==
  \A i \in 1 .. Len(sleepers) : pcs[sleepers[i]] # "idle"

LEMMA GotoMoves ==
  ASSUME TypeOK, ActorsKnown, NEW r \in Request, NEW label \in PC \ {"idle"},
         \/ Goto(r, label) /\ UNCHANGED waiters
         \/ NotifyAndGoto(r, label)
  PROVE  /\ pc'[r] = label
         /\ \A s \in Request \ {r} : pc'[s] = pc[s] \/ (pc'[s] = "enter" /\ pc[s] # "idle")
         /\ SleepersKnown(pc', waiters')
<1>1. CASE Goto(r, label) /\ UNCHANGED waiters
  <2>1. \A i \in 1 .. Len(waiters) : waiters[i] \in Request
    BY ElementOfSeq DEF TypeOK
  <2>2. \A i \in 1 .. Len(waiters) : pc'[waiters[i]] # "idle"
    BY <1>1, <2>1 DEF TypeOK, ActorsKnown, Goto
  <2>3. SleepersKnown(pc', waiters')
    BY <1>1, <2>2 DEF SleepersKnown
  <2> QED BY <1>1, <2>3 DEF TypeOK, Goto
<1>2. CASE NotifyAndGoto(r, label)
  <2>1. Notified \in [Request -> PC]
    BY <1>2, NotifyType DEF NotifyAndGoto
  <2>2. Moved(Notified) /\ SleepersKnown(Notified, waiters')
    BY <1>2, NotifyMoves DEF NotifyAndGoto, Moved, SleepersKnown
  <2>3. \A i \in 1 .. Len(waiters') : waiters'[i] \in Request
    BY <1>2, NotifyMoves DEF NotifyAndGoto
  <2> QED BY <1>2, <2>1, <2>2, <2>3 DEF NotifyAndGoto, Moved, SleepersKnown
<1> QED BY <1>1, <1>2

(* Every step of a request is taken while Teapot is up, by one who is known. *)
LEMMA RequestMoves ==
  ASSUME TypeOK, ActorsKnown, DownIsBlank, NEW r \in Request, RequestStep(r)
  PROVE  /\ pc[r] \notin {"idle"} \cup Ended /\ pc'[r] # "idle"
         /\ \A s \in Request \ {r} : pc'[s] = pc[s] \/ (pc'[s] = "enter" /\ pc[s] # "idle")
         /\ SleepersKnown(pc', waiters')
         /\ teapot = "up" /\ user[r] \in User
         /\ UNCHANGED <<teapot, user, taskVars>>
<1> USE DEF teapotVars, localVars, taskVars, PC, Starting, InFlight, Ended
<1>1. ASSUME pc[r] \notin {"idle"} \cup Ended
      PROVE  teapot = "up" /\ user[r] \in User
  BY <1>1 DEF TypeOK, ActorsKnown, DownIsBlank
<1>2. ASSUME EnterStep(r)
      PROVE  /\ pc[r] = "enter" /\ pc'[r] # "idle"
             /\ \A s \in Request \ {r} : pc'[s] = pc[s] \/ (pc'[s] = "enter" /\ pc[s] # "idle")
             /\ SleepersKnown(pc', waiters')
             /\ UNCHANGED <<teapot, user, taskVars>>
  <2>1. CASE EnterAndStart(r)
    BY <2>1, GotoMoves DEF EnterAndStart
  <2>2. CASE EnterRunning(r)
    BY <2>2, GotoMoves DEF EnterRunning
  <2>3. CASE EnterAndWait(r)
    <3>1. \A i \in 1 .. Len(waiters') : waiters'[i] \in Request /\ pc[waiters'[i]] # "idle"
      BY <2>3, ElementOfSeq DEF EnterAndWait, TypeOK, ActorsKnown
    <3>2. pc' = [pc EXCEPT ![r] = "waiting"]
      BY <2>3 DEF EnterAndWait, Goto
    <3>3. SleepersKnown(pc', waiters')
      BY <3>1, <3>2 DEF SleepersKnown, TypeOK
    <3> QED BY <2>3, <3>2, <3>3 DEF EnterAndWait, TypeOK
  <2> QED BY <1>2, <2>1, <2>2, <2>3 DEF EnterStep
<1>3. ASSUME StartStep(r)
      PROVE  /\ pc[r] \in Starting /\ pc'[r] # "idle"
             /\ \A s \in Request \ {r} : pc'[s] = pc[s] \/ (pc'[s] = "enter" /\ pc[s] # "idle")
             /\ SleepersKnown(pc', waiters')
             /\ UNCHANGED <<teapot, user, taskVars>>
  <2>1. CASE RejectUnmapped(r)
    <3>1. Goto(r, "error") /\ UNCHANGED <<waiters, teapot, user, taskVars>> /\ pc[r] = "spawn"
      BY <2>1 DEF RejectUnmapped
    <3> QED BY <3>1, GotoMoves
  <2>2. CASE SpawnFail(r)
    BY <2>2, GotoMoves DEF SpawnFail
  <2>3. CASE Spawn(r)
    BY <2>3, GotoMoves DEF Spawn
  <2>4. CASE GetProc(r)
    BY <2>4, GotoMoves DEF GetProc
  <2>5. CASE GetProcBadStatus(r)
    BY <2>5, GotoMoves DEF GetProcBadStatus
  <2>6. CASE GetProcNone(r)
    BY <2>6, GotoMoves DEF GetProcNone
  <2>7. CASE StartFailed(r)
    BY <2>7, GotoMoves DEF StartFailed
  <2>8. CASE ProbeAnswered(r)
    BY <2>8, GotoMoves DEF ProbeAnswered
  <2>9. CASE ProbeMissed(r)
    <3>1. UNCHANGED <<pc, waiters, teapot, user, taskVars>> /\ pc[r] = "probe"
      BY <2>9 DEF ProbeMissed
    <3>2. SleepersKnown(pc', waiters')
      BY <3>1, Zenon DEF ActorsKnown, SleepersKnown
    <3> QED BY <3>1, <3>2
  <2>10. CASE StartRaises(r)
    BY <2>10, GotoMoves DEF StartRaises
  <2>11. CASE StartTimedOut(r)
    BY <2>11, GotoMoves DEF StartTimedOut
  <2>12. CASE StartSucceeded(r)
    BY <2>12, GotoMoves DEF StartSucceeded
  <2> QED
    BY <1>3, <2>1, <2>2, <2>3, <2>4, <2>5, <2>6, <2>7, <2>8, <2>9, <2>10, <2>11, <2>12
    DEF StartStep
<1>4. ASSUME ProxyStep(r)
      PROVE  /\ pc[r] \in {"lookup", "count"} \cup InFlight /\ pc'[r] # "idle"
             /\ \A s \in Request \ {r} : pc'[s] = pc[s] \/ (pc'[s] = "enter" /\ pc[s] # "idle")
             /\ SleepersKnown(pc', waiters')
             /\ UNCHANGED <<teapot, user, taskVars>>
  <2>1. CASE Lookup(r)
    BY <2>1, GotoMoves DEF Lookup
  <2>2. CASE LookupFails(r)
    BY <2>2, GotoMoves DEF LookupFails
  <2>3. CASE Count(r)
    BY <2>3, GotoMoves DEF Count
  <2>4. CASE Send(r)
    BY <2>4, GotoMoves DEF Send
  <2>5. CASE SendFails(r)
    BY <2>5, GotoMoves DEF SendFails
  <2>6. CASE Respond(r)
    BY <2>6, GotoMoves DEF Respond
  <2>7. CASE ReadFails(r)
    BY <2>7, GotoMoves DEF ReadFails
  <2> QED BY <1>4, <2>1, <2>2, <2>3, <2>4, <2>5, <2>6, <2>7 DEF ProxyStep
<1> QED BY <1>1, <1>2, <1>3, <1>4 DEF RequestStep

LEMMA NotifyIfMoves ==
  ASSUME TypeOK, ActorsKnown, NEW c, NotifyIf(c)
  PROVE  Moved(pc') /\ SleepersKnown(pc', waiters')
<1>1. CASE c
  <2>1. Notify /\ pc' = Notified
    BY <1>1 DEF NotifyIf
  <2>2. Moved(pc')
    BY <2>1, NotifyMoves DEF Moved
  <2>3. \A i \in 1 .. Len(waiters') : waiters'[i] \in Request /\ pc[waiters'[i]] # "idle"
    BY <2>1, NotifyMoves
  <2> QED BY <2>2, <2>3 DEF Moved, SleepersKnown
<1>2. CASE ~ c
  BY <1>2, Zenon DEF NotifyIf, Moved, SleepersKnown, ActorsKnown
<1> QED BY <1>1, <1>2

(* The reaper and the shutdown only move requests by waking sleepers. *)
LEMMA StopMoves ==
  ASSUME TypeOK, ActorsKnown, DownIsBlank, NEW t \in Task, StopStep(t)
  PROVE  /\ Moved(pc') /\ SleepersKnown(pc', waiters')
         /\ teapot = "up" /\ victim[t] \in User
         /\ UNCHANGED <<teapot, localVars, todo, victim>>
         /\ \A o \in Task \ {t} : task'[o] = task[o]
         /\ task[t] \in {"stop", "killed"}
<1>1. task[t] \in {"stop", "killed"}
  BY DEF StopStep, StopBody, StopNothing, StopRaises, StopDone
<1>2. teapot = "up" /\ victim[t] \in User
  BY <1>1 DEF TypeOK, ActorsKnown, DownIsBlank
<1>3. CASE StopBody(t)
  BY <1>1, <1>2, <1>3, NotifyIfMoves DEF StopBody, Withdraw, TypeOK
<1>4. CASE StopNothing(t)
  BY <1>1, <1>2, <1>4, NotifyIfMoves DEF StopNothing, Withdraw, TypeOK
<1>5. CASE StopRaises(t)
  <2>1. UNCHANGED <<pc, waiters>>
    BY <1>5 DEF StopRaises, teapotVars
  <2>2. Moved(pc') /\ SleepersKnown(pc', waiters')
    BY <2>1, Zenon DEF Moved, SleepersKnown, ActorsKnown
  <2> QED BY <1>1, <1>2, <1>5, <2>2 DEF StopRaises, teapotVars, TypeOK
<1>6. CASE StopDone(t)
  BY <1>1, <1>2, <1>6, NotifyIfMoves DEF StopDone, TypeOK
<1> QED BY <1>3, <1>4, <1>5, <1>6 DEF StopStep

(* ActorsKnown and DownIsBlank are inductive. *)
LEMMA ActorsStep ==
  ASSUME TypeOK, ActorsKnown, DownIsBlank, [Next]_vars
  PROVE  (ActorsKnown /\ DownIsBlank)'
<1> USE DEF teapotVars, localVars, taskVars
<1>1. ASSUME NEW r \in Request, RequestStep(r) PROVE (ActorsKnown /\ DownIsBlank)'
  <2>1. /\ pc[r] \notin {"idle"} \cup Ended /\ pc'[r] # "idle"
        /\ \A s \in Request \ {r} : pc'[s] = pc[s] \/ (pc'[s] = "enter" /\ pc[s] # "idle")
        /\ SleepersKnown(pc', waiters')
        /\ teapot = "up"
        /\ UNCHANGED <<teapot, user, taskVars>>
    BY <1>1, RequestMoves
  <2>2. \A s \in Request : pc'[s] # "idle" => user'[s] \in User
    BY <2>1 DEF ActorsKnown
  <2>3. \A i \in 1 .. Len(waiters') : pc'[waiters'[i]] # "idle"
    BY <2>1 DEF SleepersKnown
  <2> QED BY <2>1, <2>2, <2>3 DEF ActorsKnown, DownIsBlank
<1>2. ASSUME NEW t \in Task, StopStep(t) PROVE (ActorsKnown /\ DownIsBlank)'
  <2>1. /\ Moved(pc') /\ SleepersKnown(pc', waiters')
        /\ teapot = "up" /\ victim[t] \in User
        /\ UNCHANGED <<teapot, localVars, todo, victim>>
        /\ \A o \in Task \ {t} : task'[o] = task[o]
    BY <1>2, StopMoves
  <2>2. \A s \in Request : pc'[s] # "idle" => user'[s] \in User
    BY <2>1 DEF ActorsKnown, Moved
  <2>3. \A i \in 1 .. Len(waiters') : pc'[waiters'[i]] # "idle"
    BY <2>1 DEF SleepersKnown
  <2>4. \A o \in Task : task'[o] \in {"stop", "killed"} => victim'[o] \in User
    BY <2>1 DEF ActorsKnown
  <2> QED BY <2>1, <2>2, <2>3, <2>4 DEF ActorsKnown, DownIsBlank
<1>3. ASSUME UNCHANGED <<pc, user, waiters>> PROVE
      /\ \A s \in Request : pc'[s] # "idle" => user'[s] \in User
      /\ \A i \in 1 .. Len(waiters') : pc'[waiters'[i]] # "idle"
  BY <1>3, Zenon DEF ActorsKnown
<1>4. ASSUME NEW u \in User, Check(u) PROVE (ActorsKnown /\ DownIsBlank)'
  BY <1>3, <1>4 DEF Check, TakeVictim, ActorsKnown, DownIsBlank, TypeOK, Task
<1>5. ASSUME NEW u \in User, ShutdownNext(u) PROVE (ActorsKnown /\ DownIsBlank)'
  BY <1>3, <1>5 DEF ShutdownNext, TakeVictim, ActorsKnown, DownIsBlank, TypeOK, Task
<1>6. CASE Sweep \/ SweepEnds \/ ShutdownStarts
  BY <1>3, <1>6 DEF Sweep, SweepEnds, ShutdownStarts, ActorsKnown, DownIsBlank, TypeOK, Task
<1>7. CASE ShutdownEnds \/ ShutdownFails \/ Crash
  <2>1. Forget
    BY <1>7 DEF ShutdownEnds, ShutdownFails, Crash
  <2>2. Len(waiters') = 0
    BY <2>1 DEF Forget
  <2> QED BY <2>1, <2>2 DEF Forget, ActorsKnown, DownIsBlank, TypeOK, Ended
<1>8. CASE Boot
  BY <1>3, <1>8 DEF Boot, ActorsKnown, DownIsBlank
<1>9. ASSUME NEW r \in Request, NEW u \in User, Arrive(r, u) PROVE (ActorsKnown /\ DownIsBlank)'
  <2>1. \A i \in 1 .. Len(waiters) : waiters[i] \in Request
    BY ElementOfSeq DEF TypeOK
  <2>2. pc' = [pc EXCEPT ![r] = "enter"] /\ UNCHANGED waiters
    BY <1>9 DEF Arrive, Goto
  <2>3. \A i \in 1 .. Len(waiters') : pc'[waiters'[i]] # "idle"
    BY <2>1, <2>2 DEF ActorsKnown, TypeOK
  <2> QED BY <1>9, <2>2, <2>3 DEF Arrive, ActorsKnown, DownIsBlank, TypeOK
<1>10. CASE \/ \E u \in User : Age(u)
            \/ \E q \in Pid : ProcStep(q) \/ ProcDies(q)
            \/ UNCHANGED vars
  <2>1. UNCHANGED <<teapot, swState, pc, user, waiters, task, victim>>
    BY <1>10 DEF Age, ProcStep, ProcUp, ProcPortTaken, ProcExits, ProcDies, ProcBecomes, vars
  <2> QED BY <1>3, <2>1 DEF ActorsKnown, DownIsBlank
<1> QED
  BY <1>1, <1>2, <1>4, <1>5, <1>6, <1>7, <1>8, <1>9, <1>10
  DEF Next, ReaperStep, LifespanStep, Task

LEMMA ActorsInit == Init => ActorsKnown /\ DownIsBlank
<1> SUFFICES ASSUME Init PROVE ActorsKnown /\ DownIsBlank
  OBVIOUS
<1>1. Len(waiters) = 0
  BY DEF Init
<1> QED BY <1>1 DEF Init, ActorsKnown, DownIsBlank, Task

(* Whatever happens, every variable keeps the values the code can give it: *)
(* an active_requests below zero, a session without its fields or a wake-up *)
(* of somebody who does not exist never come about (teapot.py:622-631,      *)
(* 883-924).                                                                *)
THEOREM TypeCorrect == Spec => []TypeOK
<1>1. Init => TypeOK /\ ActorsKnown /\ DownIsBlank
  BY TypeInit, ActorsInit
<1>2. /\ TypeOK /\ ActorsKnown /\ DownIsBlank
      /\ [Next]_vars
      => (TypeOK /\ ActorsKnown /\ DownIsBlank)'
  BY TypeStep, ActorsStep
<1> QED BY <1>1, <1>2, PTL DEF Spec

----------------------------------------------------------------------------
(* The steps of a request, one at a time: the effect on the states of the  *)
(* instances, on the sessions and on the processes.                        *)
Core == SoleStarter /\ StarterHolds /\ InstanceRecorded /\ SessionsSound
          /\ UnusedIsNobodys /\ StoreMatchesMemory

(* A step that leaves states, sessions and processes alone keeps what is    *)
(* said of them.                                                            *)
LEMMA QuietStep ==
  ASSUME Core, UNCHANGED <<teapot, swState, session, store, proc>>
  PROVE  (InstanceRecorded /\ SessionsSound /\ UnusedIsNobodys /\ StoreMatchesMemory)'
BY DEF Core, InstanceRecorded, SessionsSound, Sound, UnusedIsNobodys, StoreMatchesMemory,
       Recorded

(* Who takes no new step of a start stays a sole starter, and holds what it *)
(* held, as long as its state and its process are left alone.               *)
StartersKeep(r) ==
  \A s \in Request \ {r} : pc'[s] \in Starting => pc'[s] = pc[s]

LEMMA StartersKept ==
  ASSUME TypeOK, ActorsKnown, DownIsBlank, NEW r \in Request, RequestStep(r)
  PROVE  /\ StartersKeep(r) /\ UNCHANGED user /\ user[r] \in User /\ teapot = "up"
         /\ UNCHANGED teapot
BY RequestMoves DEF StartersKeep, Starting

LEMMA SoleStarterKept ==
  ASSUME TypeOK, ActorsKnown, Core, NEW r \in Request, StartersKeep(r), UNCHANGED user,
         \A s \in Request \ {r} : pc[s] \in Starting => swState'[user[s]] = "STARTING",
         pc'[r] \in Starting => pc[r] \in Starting /\ swState'[user[r]] = "STARTING"
  PROVE  SoleStarter'
BY DEF SoleStarter, StartersKeep, Core, Starting

LEMMA StarterHoldsKept ==
  ASSUME TypeOK, Core, NEW r \in Request, StartersKeep(r), UNCHANGED user,
         \A s \in Request \ {r} : port'[s] = port[s] /\ pid'[s] = pid[s],
         \A q \in Pid : proc[q].user \in User => proc'[q].user = proc[q].user,
         ActorsKnown,
         /\ pc'[r] \in {"probe", "started"} => pid'[r] \in Pid /\ proc'[pid'[r]].user = user[r]
         /\ pc'[r] \in {"getproc", "probe", "started"} =>
              (port'[r] = 0 \/ port'[r] > STARTING_PORT)
         /\ pc'[r] = "started" => port'[r] # 0
  PROVE  StarterHolds'
BY DEF StarterHolds, StartersKeep, Core, Starting, ActorsKnown

LEMMA CoreEnter ==
  ASSUME TypeOK, ActorsKnown, DownIsBlank, Core, NEW r \in Request, EnterStep(r)
  PROVE  Core'
<1> USE DEF teapotVars, localVars, taskVars
<1>1. StartersKeep(r) /\ UNCHANGED user /\ user[r] \in User /\ teapot = "up" /\ UNCHANGED teapot
  BY StartersKept DEF RequestStep
<1>2. UNCHANGED <<port, pid, proc, session, store>>
  BY DEF EnterStep, EnterAndStart, EnterRunning, EnterAndWait
<1>3. CASE EnterAndStart(r)
  <2>1. /\ NotRunning(user[r]) /\ pc[r] = "enter" /\ pc'[r] = "spawn"
        /\ swState' = [swState EXCEPT ![user[r]] = "STARTING"]
    <3>1. NotifyAndGoto(r, "spawn")
      BY <1>3 DEF EnterAndStart
    <3>2. pc'[r] = "spawn"
      BY <3>1, GotoMoves DEF PC, Starting
    <3> QED BY <1>3, <3>2 DEF EnterAndStart, SetState
  <2>2. \A s \in Request : pc[s] \in Starting => user[s] # user[r]
    BY <2>1 DEF Core, SoleStarter, NotRunning
  <2>3. SoleStarter'
    <3>1. \A s \in Request : pc'[s] \in Starting => s = r \/ pc[s] \in Starting
      BY <1>1 DEF StartersKeep
    <3>2. \A s \in Request : pc[s] \in Starting =>
            user[s] # user[r] /\ swState'[user[s]] = swState[user[s]]
      BY <2>1, <2>2 DEF TypeOK
    <3>3. swState'[user[r]] = "STARTING"
      BY <1>1, <2>1 DEF TypeOK
    <3> QED BY <1>1, <3>1, <3>2, <3>3 DEF Core, SoleStarter
  <2>4. StarterHolds'
    BY <1>1, <1>2, <2>1, StarterHoldsKept
  <2>5. InstanceRecorded'
    BY <1>1, <1>2, <2>1 DEF Core, InstanceRecorded, Recorded, TypeOK
  <2> QED BY <1>1, <1>2, <2>3, <2>4, <2>5
          DEF Core, SessionsSound, Sound, UnusedIsNobodys, StoreMatchesMemory
<1>4. CASE EnterRunning(r) \/ EnterAndWait(r)
  <2>1. pc'[r] \in {"lookup", "waiting"} /\ UNCHANGED swState
    BY <1>4 DEF EnterRunning, EnterAndWait, Goto, TypeOK
  <2>2. SoleStarter'
    BY <1>1, <2>1, SoleStarterKept DEF Core, SoleStarter, Starting
  <2>3. StarterHolds'
    BY <1>1, <1>2, <2>1, StarterHoldsKept
  <2> QED BY <1>1, <1>2, <2>1, <2>2, <2>3, QuietStep DEF Core
<1> QED BY <1>3, <1>4 DEF EnterStep

(* What UsablePort chooses: a port above STARTING_PORT, or the 0 after the  *)
(* mark of a failed start.                                                  *)
LEMMA UsablePortRange ==
  ASSUME TypeOK, Core, NEW p \in Nat, UsablePort(p)
  PROVE  p = 0 \/ p > STARTING_PORT
<1>1. PICK top \in UsedPorts :
        /\ p > top
        /\ \A q \in (top + 1) .. (p - 1) : q # 0 /\ Bound(q)
  BY DEF UsablePort
<1>2. top \in Int /\ (top = FailedPort \/ top >= STARTING_PORT)
  <2>1. CASE Recorded = {}
    BY <1>1, <2>1, ConstantsAssumption DEF UsedPorts
  <2>2. CASE Recorded # {}
    <3>1. PICK u \in Recorded : top = session[u].port
      BY <1>1, <2>2 DEF UsedPorts
    <3>2. top \in Int
      BY <3>1 DEF TypeOK, Recorded, Session, FailedPort
    <3>3. top = FailedPort \/ top > STARTING_PORT
      BY <3>1 DEF Core, SessionsSound, Sound, Recorded
    <3> QED BY <3>2, <3>3, ConstantsAssumption
  <2> QED BY <2>1, <2>2
<1>3. CASE top = FailedPort
  BY <1>1, <1>3 DEF FailedPort
<1>4. CASE top >= STARTING_PORT
  BY <1>1, <1>2, <1>4, ConstantsAssumption
<1> QED BY <1>2, <1>3, <1>4

(* Sessions stay sound while processes keep their users. *)
LEMMA SoundKept ==
  ASSUME NEW sessions \in [User -> Session \cup {NoSession}],
         NEW before \in [Pid -> Process], NEW after,
         \A q \in Pid : before[q].user \in User => after[q].user = before[q].user,
         Sound(sessions, before)
  PROVE  Sound(sessions, after)
<1> SUFFICES ASSUME NEW u \in User, sessions[u] # NoSession
             PROVE  /\ \/ sessions[u].port = FailedPort
                       \/ sessions[u].port > STARTING_PORT
                    /\ sessions[u].pid # NoPid => after[sessions[u].pid].user = u
  BY DEF Sound
<1>1. sessions[u].pid \in Pid \cup {NoPid}
  BY DEF Session
<1> QED BY <1>1 DEF Sound

LEMMA ProcsGrow ==
  ASSUME TypeOK, SessionsSound, UNCHANGED <<session, store>>,
         \A q \in Pid : proc[q].user \in User => proc'[q].user = proc[q].user
  PROVE  SessionsSound'
<1>1. Sound(session, proc')
  BY SoundKept DEF TypeOK, SessionsSound
<1>2. store \notin {NoFile, Truncated} => Sound(store, proc')
  BY SoundKept DEF TypeOK, SessionsSound
<1> QED BY <1>1, <1>2 DEF SessionsSound, Sound

LEMMA CoreSpawn ==
  ASSUME TypeOK, ActorsKnown, DownIsBlank, Core, NEW r \in Request,
         \/ SpawnFail(r) \/ Spawn(r) \/ RejectUnmapped(r)
  PROVE  Core'
<1> USE DEF teapotVars, localVars, taskVars
<1>1. StartersKeep(r) /\ UNCHANGED user /\ user[r] \in User /\ teapot = "up" /\ UNCHANGED teapot
  BY StartersKept DEF RequestStep, StartStep
<1>2. pc[r] \in Starting
  BY DEF SpawnFail, Spawn, RejectUnmapped, Starting
<1>3. CASE RejectUnmapped(r)
  <2>1. /\ swState' = [swState EXCEPT ![user[r]] = "NOT RUNNING"]
        /\ pc'[r] = "error" /\ UNCHANGED <<port, pid, proc, session, store>>
    BY <1>3 DEF RejectUnmapped, SetState, Goto, TypeOK
  <2>2. SoleStarter'
    <3>1. \A s \in Request \ {r} : pc[s] \in Starting => swState'[user[s]] = "STARTING"
      <4>1. \A s \in Request \ {r} : pc[s] \in Starting =>
              /\ user[s] \in User /\ user[s] # user[r]
              /\ swState[user[s]] = "STARTING"
        BY <1>2 DEF Core, SoleStarter, ActorsKnown, Starting
      <4> QED BY <2>1, <4>1 DEF TypeOK
    <3> QED BY <1>1, <2>1, <3>1, SoleStarterKept DEF Starting
  <2>3. StarterHolds'
    BY <1>1, <2>1, StarterHoldsKept
  <2>4. InstanceRecorded'
    BY <1>1, <2>1 DEF Core, InstanceRecorded, Recorded, TypeOK
  <2> QED BY <1>1, <2>1, <2>2, <2>3, <2>4
          DEF Core, SessionsSound, Sound, UnusedIsNobodys, StoreMatchesMemory
<1>4. CASE SpawnFail(r)
  <2>1. UNCHANGED <<swState, session, store, proc, port, pid>> /\ pc'[r] = "failed"
    BY <1>4 DEF SpawnFail, Goto, TypeOK
  <2>2. SoleStarter'
    BY <1>1, <1>2, <2>1, SoleStarterKept DEF Core, SoleStarter
  <2>3. StarterHolds'
    BY <1>1, <2>1, StarterHoldsKept
  <2> QED BY <1>1, <2>1, <2>2, <2>3, QuietStep DEF Core
<1>5. CASE Spawn(r)
  <2>1. PICK p \in 0 .. MaxPort, q \in Pid :
          /\ UsablePort(p) /\ proc[q].state = "unused"
          /\ proc' = [proc EXCEPT ![q] = [user |-> user[r], port |-> p, state |-> "booting"]]
          /\ port' = [port EXCEPT ![r] = p]
    BY <1>5 DEF Spawn
  <2>2. UNCHANGED <<swState, session, store, pid>> /\ pc'[r] = "getproc"
    BY <1>5 DEF Spawn, Goto, TypeOK
  <2>3. p \in Nat /\ (p = 0 \/ p > STARTING_PORT)
    BY <2>1, UsablePortRange
  <2>4. \A o \in Pid : proc[o].user \in User => proc'[o] = proc[o]
    BY <2>1, ConstantsAssumption DEF Core, UnusedIsNobodys, TypeOK
  <2>5. UnusedIsNobodys'
    BY <2>1 DEF Core, UnusedIsNobodys, TypeOK
  <2>6. SoleStarter'
    BY <1>1, <1>2, <2>2, SoleStarterKept DEF Core, SoleStarter
  <2>7. StarterHolds'
    BY <1>1, <2>1, <2>2, <2>3, <2>4, StarterHoldsKept DEF TypeOK
  <2>8. SessionsSound'
    BY <2>2, <2>4, ProcsGrow DEF Core
  <2> QED BY <1>1, <2>2, <2>5, <2>6, <2>7, <2>8
          DEF Core, InstanceRecorded, Recorded, StoreMatchesMemory
<1> QED BY <1>3, <1>4, <1>5

(* Other starters are of other users, whose states a step of r leaves alone. *)
LEMMA OthersStart ==
  ASSUME TypeOK, ActorsKnown, Core, NEW r \in Request, pc[r] \in Starting,
         \A v \in User \ {user[r]} : swState'[v] = swState[v]
  PROVE  \A s \in Request \ {r} : pc[s] \in Starting => swState'[user[s]] = "STARTING"
BY DEF Core, SoleStarter, ActorsKnown, Starting

LEMMA CoreGetProc ==
  ASSUME TypeOK, ActorsKnown, DownIsBlank, Core, NEW r \in Request,
         GetProc(r) \/ GetProcBadStatus(r) \/ GetProcNone(r)
  PROVE  Core'
<1> USE DEF teapotVars, localVars, taskVars
<1>1. StartersKeep(r) /\ UNCHANGED user /\ user[r] \in User /\ teapot = "up" /\ UNCHANGED teapot
  BY StartersKept DEF RequestStep, StartStep
<1>2. pc[r] = "getproc" /\ UNCHANGED <<swState, session, store, port>>
  BY DEF GetProc, GetProcBadStatus, GetProcNone
<1>3. pc'[r] \in Starting \cup {"error"}
  BY DEF GetProc, GetProcBadStatus, GetProcNone, Goto, TypeOK, Starting
<1>4. SoleStarter'
  BY <1>1, <1>2, <1>3, SoleStarterKept DEF Core, SoleStarter, Starting
<1>5. CASE GetProc(r)
  <2>1. PICK q \in Pid : LowestFound(user[r], q) /\ pid' = [pid EXCEPT ![r] = q]
    BY <1>5 DEF GetProc
  <2>2. UNCHANGED proc /\ pc'[r] = "probe" /\ pid'[r] = q /\ proc[q].user = user[r]
    BY <1>5, <2>1 DEF GetProc, Goto, LowestFound, Found, TypeOK
  <2>3. port[r] = 0 \/ port[r] > STARTING_PORT
    BY <1>2 DEF Core, StarterHolds
  <2>4. \A s \in Request \ {r} : pid'[s] = pid[s]
    BY <2>1 DEF TypeOK
  <2>5. StarterHolds'
    BY <1>1, <1>2, <2>2, <2>3, <2>4, StarterHoldsKept
  <2> QED BY <1>1, <1>2, <1>4, <2>2, <2>5, QuietStep DEF Core
<1>6. CASE GetProcBadStatus(r)
  <2>1. PICK q \in Pid : LowestFound(user[r], q) /\ proc' = [proc EXCEPT ![q].state = "dead"]
    BY <1>6 DEF GetProcBadStatus
  <2>2. \A o \in Pid : proc'[o].user = proc[o].user
                        /\ (proc'[o].state = "unused" => proc[o].state = "unused")
    BY <2>1, ProcMoves DEF ProcState
  <2>3. UNCHANGED pid /\ pc'[r] = "failed"
    BY <1>6 DEF GetProcBadStatus, Goto, TypeOK
  <2>4. StarterHolds'
    BY <1>1, <1>2, <2>2, <2>3, StarterHoldsKept
  <2>5. SessionsSound'
    BY <1>2, <2>2, ProcsGrow DEF Core
  <2>6. UnusedIsNobodys'
    BY <2>2 DEF Core, UnusedIsNobodys
  <2> QED BY <1>1, <1>2, <1>4, <2>4, <2>5, <2>6
          DEF Core, InstanceRecorded, Recorded, StoreMatchesMemory
<1>7. CASE GetProcNone(r)
  <2>1. UNCHANGED <<proc, pid>> /\ pc'[r] = "error"
    BY <1>7 DEF GetProcNone, Goto, TypeOK
  <2>2. StarterHolds'
    BY <1>1, <1>2, <2>1, StarterHoldsKept
  <2> QED BY <1>1, <1>2, <1>4, <2>1, <2>2, QuietStep DEF Core
<1> QED BY <1>5, <1>6, <1>7

(* A sound session more, or one less. *)
LEMMA SoundSaved ==
  ASSUME TypeOK, SessionsSound, UNCHANGED proc, NEW u \in User,
         NEW s \in Session \cup {NoSession}, Save([session EXCEPT ![u] = s]),
         s # NoSession =>
           /\ s.port = FailedPort \/ s.port > STARTING_PORT
           /\ s.pid # NoPid => proc[s.pid].user = u
  PROVE  SessionsSound'
<1>1. session' = [session EXCEPT ![u] = s] /\ store' = session'
  BY DEF Save
<1>2. Sound(session', proc)
  BY <1>1 DEF Sound, SessionsSound, TypeOK
<1> QED BY <1>1, <1>2 DEF SessionsSound, Sound

LEMMA CoreStartFailed ==
  ASSUME TypeOK, ActorsKnown, DownIsBlank, Core, NEW r \in Request, StartFailed(r)
  PROVE  Core'
<1> USE DEF teapotVars, localVars, taskVars
<1> DEFINE s == [pid |-> NoPid, port |-> FailedPort, active |-> 0]
<1>1. StartersKeep(r) /\ UNCHANGED user /\ user[r] \in User /\ teapot = "up" /\ UNCHANGED teapot
  BY StartersKept DEF RequestStep, StartStep
<1>2. /\ pc[r] = "failed" /\ UNCHANGED <<proc, port, pid>>
      /\ Save([session EXCEPT ![user[r]] = s])
  BY DEF StartFailed
<1>3. swState[user[r]] = "STARTING" /\ pc[r] \in Starting
  BY <1>2 DEF Core, SoleStarter, Starting
<1>4. swState' = [swState EXCEPT ![user[r]] = "NOT RUNNING"]
  BY <1>3 DEF StartFailed, GiveUp, LeaveState
<1>5. pc'[r] = "error"
  <2>1. NotifyAndGoto(r, "error")
    BY <1>3 DEF StartFailed
  <2> QED BY <2>1, GotoMoves DEF PC, Ended
<1>6. SoleStarter'
  <2>1. \A v \in User \ {user[r]} : swState'[v] = swState[v]
    BY <1>4 DEF TypeOK
  <2> QED BY <1>1, <1>3, <1>5, <2>1, OthersStart, SoleStarterKept DEF Starting
<1>7. StarterHolds'
  BY <1>1, <1>2, <1>5, StarterHoldsKept
<1>8. s \in Session
  BY DEF Session, NoPid, FailedPort
<1>9. SessionsSound'
  BY <1>1, <1>2, <1>8, SoundSaved DEF Core
<1>10. InstanceRecorded'
  BY <1>1, <1>2, <1>4 DEF Core, InstanceRecorded, Recorded, Save, TypeOK
<1> QED BY <1>1, <1>2, <1>6, <1>7, <1>9, <1>10
        DEF Core, UnusedIsNobodys, StoreMatchesMemory, Save

LEMMA CoreProbe ==
  ASSUME TypeOK, ActorsKnown, DownIsBlank, Core, NEW r \in Request,
         ProbeAnswered(r) \/ ProbeMissed(r) \/ StartRaises(r)
  PROVE  Core'
<1> USE DEF teapotVars, localVars, taskVars
<1>1. StartersKeep(r) /\ UNCHANGED user /\ user[r] \in User /\ teapot = "up" /\ UNCHANGED teapot
  BY StartersKept DEF RequestStep, StartStep
<1>2. /\ pc[r] \in {"spawn", "probe"}
      /\ UNCHANGED <<swState, session, store, port, pid, proc>>
  BY DEF ProbeAnswered, ProbeMissed, StartRaises
<1>3. /\ pc'[r] \in {"probe", "started", "error"}
      /\ pc'[r] # "error" => pc[r] = "probe"
      /\ pc'[r] = "started" => port[r] # 0
  BY <1>2 DEF ProbeAnswered, ProbeMissed, StartRaises, Goto, Answers, TypeOK
<1>4. SoleStarter'
  BY <1>1, <1>2, <1>3, SoleStarterKept DEF Core, SoleStarter, Starting
<1>5. pc[r] = "probe" =>
        /\ pid[r] \in Pid /\ proc[pid[r]].user = user[r]
        /\ port[r] = 0 \/ port[r] > STARTING_PORT
  BY DEF Core, StarterHolds
<1>6. StarterHolds'
  BY <1>1, <1>2, <1>3, <1>5, StarterHoldsKept
<1> QED BY <1>1, <1>2, <1>4, <1>6, QuietStep DEF Core

LEMMA CoreTimedOut ==
  ASSUME TypeOK, ActorsKnown, DownIsBlank, Core, NEW r \in Request, StartTimedOut(r)
  PROVE  Core'
<1> USE DEF teapotVars, localVars, taskVars
<1>1. StartersKeep(r) /\ UNCHANGED user /\ user[r] \in User /\ teapot = "up" /\ UNCHANGED teapot
  BY StartersKept DEF RequestStep, StartStep
<1>2. pc[r] = "probe" /\ UNCHANGED <<proc, port, pid>> /\ pc'[r] = "error"
  BY DEF StartTimedOut, Goto, TypeOK
<1>3. swState[user[r]] = "STARTING" /\ pc[r] \in Starting
  BY <1>2 DEF Core, SoleStarter, Starting
<1>4. swState' = [swState EXCEPT ![user[r]] = "NOT RUNNING"]
  BY <1>3 DEF StartTimedOut, GiveUp, LeaveState
<1>5. \/ Save([session EXCEPT ![user[r]] = NoSession])
      \/ UNCHANGED <<session, store>>
  BY DEF StartTimedOut
<1>6. SoleStarter'
  <2>1. \A v \in User \ {user[r]} : swState'[v] = swState[v]
    BY <1>4 DEF TypeOK
  <2> QED BY <1>1, <1>2, <1>3, <2>1, OthersStart, SoleStarterKept DEF Starting
<1>7. StarterHolds'
  BY <1>1, <1>2, StarterHoldsKept
<1>8. SessionsSound'
  <2>1. CASE Save([session EXCEPT ![user[r]] = NoSession])
    BY <1>1, <1>2, <2>1, SoundSaved DEF Core
  <2>2. CASE UNCHANGED <<session, store>>
    BY <1>2, <2>2, ProcsGrow DEF Core
  <2> QED BY <1>5, <2>1, <2>2
<1>9. InstanceRecorded'
  <2> SUFFICES ASSUME NEW v \in User
               PROVE  /\ swState'[v] = "RUNNING" =>
                           /\ v \in Recorded' /\ session'[v].pid \in Pid
                           /\ session'[v].port > STARTING_PORT
                      /\ swState'[v] = "STOPPING" => v \notin Recorded'
    BY DEF InstanceRecorded
  <2>1. CASE v = user[r]
    BY <1>1, <1>4, <2>1 DEF TypeOK
  <2>2. CASE v # user[r]
    <3>1. swState'[v] = swState[v] /\ session'[v] = session[v]
      BY <1>1, <1>4, <1>5, <2>2 DEF TypeOK, Save
    <3> QED BY <3>1 DEF Core, InstanceRecorded, Recorded
  <2> QED BY <2>1, <2>2
<1> QED BY <1>1, <1>2, <1>5, <1>6, <1>7, <1>8, <1>9
        DEF Core, UnusedIsNobodys, StoreMatchesMemory, Save

LEMMA CoreSucceeded ==
  ASSUME TypeOK, ActorsKnown, DownIsBlank, Core, NEW r \in Request, StartSucceeded(r)
  PROVE  Core'
<1> USE DEF teapotVars, localVars, taskVars
<1> DEFINE s == [pid |-> pid[r], port |-> port[r], active |-> 0]
<1>1. StartersKeep(r) /\ UNCHANGED user /\ user[r] \in User /\ teapot = "up" /\ UNCHANGED teapot
  BY StartersKept DEF RequestStep, StartStep
<1>2. /\ pc[r] = "started" /\ UNCHANGED <<proc, port, pid>>
      /\ Save([session EXCEPT ![user[r]] = s])
  BY DEF StartSucceeded
<1>3. swState[user[r]] = "STARTING" /\ pc[r] \in Starting
  BY <1>2 DEF Core, SoleStarter, Starting
<1>4. swState' = [swState EXCEPT ![user[r]] = "RUNNING"]
  BY <1>3 DEF StartSucceeded, LeaveState
<1>5. pc'[r] = "count"
  <2>1. NotifyAndGoto(r, "count")
    BY DEF StartSucceeded
  <2> QED BY <2>1, GotoMoves DEF PC
<1>6. SoleStarter'
  <2>1. \A v \in User \ {user[r]} : swState'[v] = swState[v]
    BY <1>4 DEF TypeOK
  <2> QED BY <1>1, <1>3, <1>5, <2>1, OthersStart, SoleStarterKept DEF Starting
<1>7. StarterHolds'
  BY <1>1, <1>2, <1>5, StarterHoldsKept
<1>8. /\ s \in Session /\ s # NoSession
      /\ s.pid \in Pid /\ proc[s.pid].user = user[r]
      /\ s.port > STARTING_PORT
  <2>1. /\ pid[r] \in Pid /\ proc[pid[r]].user = user[r]
        /\ port[r] > STARTING_PORT /\ port[r] \in Nat
    BY <1>2 DEF Core, StarterHolds, TypeOK
  <2>2. s \in Session
    BY <2>1 DEF Session
  <2> QED BY <2>1, <2>2, NoSessionAssumption
<1>9. SessionsSound'
  BY <1>1, <1>2, <1>8, SoundSaved DEF Core
<1>10. InstanceRecorded'
  <2> SUFFICES ASSUME NEW v \in User
               PROVE  /\ swState'[v] = "RUNNING" =>
                           /\ v \in Recorded' /\ session'[v].pid \in Pid
                           /\ session'[v].port > STARTING_PORT
                      /\ swState'[v] = "STOPPING" => v \notin Recorded'
    BY DEF InstanceRecorded
  <2>1. CASE v = user[r]
    <3>1. session'[v] = s /\ swState'[v] = "RUNNING"
      BY <1>1, <1>2, <1>4, <2>1 DEF TypeOK, Save
    <3> QED BY <1>8, <3>1 DEF Recorded
  <2>2. CASE v # user[r]
    <3>1. swState'[v] = swState[v] /\ session'[v] = session[v]
      BY <1>1, <1>2, <1>4, <2>2 DEF TypeOK, Save
    <3> QED BY <3>1 DEF Core, InstanceRecorded, Recorded
  <2> QED BY <2>1, <2>2
<1> QED BY <1>1, <1>2, <1>6, <1>7, <1>9, <1>10
        DEF Core, UnusedIsNobodys, StoreMatchesMemory, Save

(* Proxying a request moves nothing but the count of a session. *)
LEMMA CoreProxy ==
  ASSUME TypeOK, ActorsKnown, DownIsBlank, Core, NEW r \in Request, ProxyStep(r)
  PROVE  Core'
<1> USE DEF teapotVars, localVars, taskVars
<1>1. StartersKeep(r) /\ UNCHANGED user /\ user[r] \in User /\ teapot = "up" /\ UNCHANGED teapot
  BY StartersKept DEF RequestStep
<1>2. UNCHANGED <<swState, proc, pid>> /\ \A s \in Request \ {r} : port'[s] = port[s]
  BY DEF ProxyStep, Lookup, LookupFails, Count, Send, SendFails, Respond, ReadFails, TypeOK
<1>3. pc'[r] \in {"count", "send"} \cup InFlight \cup Ended
  BY DEF ProxyStep, Lookup, LookupFails, Count, Send, SendFails, Respond, ReadFails, TypeOK,
         Goto, InFlight, Ended
<1>4. SoleStarter'
  BY <1>1, <1>2, <1>3, SoleStarterKept DEF Core, SoleStarter, Starting, InFlight, Ended
<1>5. StarterHolds'
  BY <1>1, <1>2, <1>3, StarterHoldsKept DEF InFlight, Ended
<1>6. CASE UNCHANGED <<session, store>>
  BY <1>1, <1>2, <1>4, <1>5, <1>6, QuietStep DEF Core
<1>7. CASE user[r] \in Recorded /\ (AddActive(user[r]) \/ DropActive(user[r]))
  <2>1. /\ session' \in [User -> Session \cup {NoSession}]
        /\ store' = session'
        /\ \A v \in User : session[v] = NoSession <=> session'[v] = NoSession
        /\ \A v \in Recorded : /\ session'[v].pid = session[v].pid
                               /\ session'[v].port = session[v].port
    BY <1>7, ActiveType
  <2>2. Sound(session', proc)
    BY <2>1 DEF Core, SessionsSound, Sound, Recorded
  <2>3. InstanceRecorded'
    BY <1>2, <2>1 DEF Core, InstanceRecorded, Recorded
  <2>4. SessionsSound'
    BY <1>2, <2>1, <2>2 DEF SessionsSound
  <2> QED BY <1>2, <1>4, <1>5, <2>1, <2>3, <2>4
          DEF Core, UnusedIsNobodys, StoreMatchesMemory
<1> QED
  BY <1>6, <1>7 DEF ProxyStep, Lookup, LookupFails, Count, Send, SendFails, Respond, ReadFails

----------------------------------------------------------------------------
(* The steps of the reaper, of the shutdown and of the rest of the world.  *)

(* Starters are left alone by a step that keeps STARTING and wakes sleepers. *)
LEMMA StartersAlone ==
  ASSUME TypeOK, ActorsKnown, Core, Moved(pc'), UNCHANGED <<user, port, pid>>,
         \A v \in User : swState[v] = "STARTING" => swState'[v] = "STARTING",
         \A q \in Pid : proc[q].user \in User => proc'[q].user = proc[q].user
  PROVE  SoleStarter' /\ StarterHolds'
<1>1. \A s \in Request : pc'[s] \in Starting =>
        pc[s] \in Starting /\ pc'[s] = pc[s] /\ user[s] \in User
  BY DEF Moved, Starting, ActorsKnown
<1>2. SoleStarter'
  BY <1>1 DEF Core, SoleStarter
<1>3. StarterHolds'
  BY <1>1 DEF Core, StarterHolds, Starting
<1> QED BY <1>2, <1>3

LEMMA CoreStop ==
  ASSUME TypeOK, ActorsKnown, DownIsBlank, Core, NEW t \in Task, StopStep(t)
  PROVE  Core'
<1> USE DEF teapotVars, localVars, taskVars
<1> DEFINE u == victim[t]
<1>1. Moved(pc') /\ teapot = "up" /\ u \in User /\ UNCHANGED <<teapot, user, port, pid>>
  BY StopMoves
<1>2. /\ \A q \in Pid : /\ proc'[q].user = proc[q].user
                        /\ proc'[q].state = "unused" => proc[q].state = "unused"
  BY <1>1, StopBodyProc, ProcMoves
  DEF StopStep, StopBody, StopNothing, StopRaises, StopDone, ProcState
<1>3. UnusedIsNobodys'
  BY <1>2 DEF Core, UnusedIsNobodys
<1>4. CASE StopBody(t)
  <2>1. /\ swState' = IF swState[u] = "RUNNING" THEN [swState EXCEPT ![u] = "STOPPING"]
                                                ELSE swState
        /\ session' = [session EXCEPT ![u] = NoSession] /\ store' = session'
    BY <1>4 DEF StopBody, Withdraw, LeaveState, Save
  <2>2. SoleStarter' /\ StarterHolds'
    <3>1. \A v \in User : swState[v] = "STARTING" => swState'[v] = "STARTING"
      BY <1>1, <2>1 DEF TypeOK
    <3> QED BY <1>1, <1>2, <3>1, StartersAlone
  <2>3. InstanceRecorded'
    <3> SUFFICES ASSUME NEW v \in User
                 PROVE  /\ swState'[v] = "RUNNING" =>
                             /\ v \in Recorded' /\ session'[v].pid \in Pid
                             /\ session'[v].port > STARTING_PORT
                        /\ swState'[v] = "STOPPING" => v \notin Recorded'
      BY DEF InstanceRecorded
    <3>1. CASE v = u
      BY <1>1, <2>1, <3>1 DEF TypeOK, Recorded
    <3>2. CASE v # u
      <4>1. swState'[v] = swState[v] /\ session'[v] = session[v]
        BY <1>1, <2>1, <3>2 DEF TypeOK
      <4> QED BY <4>1 DEF Core, InstanceRecorded, Recorded
    <3> QED BY <3>1, <3>2
  <2>4. Sound(session', proc)
    BY <1>1, <2>1 DEF Core, SessionsSound, Sound, TypeOK
  <2>5. session' \in [User -> Session \cup {NoSession}]
    BY <2>1 DEF TypeOK
  <2>6. Sound(session', proc')
    BY <1>2, <2>4, <2>5, SoundKept DEF TypeOK
  <2> QED BY <1>3, <2>1, <2>2, <2>3, <2>6 DEF Core, SessionsSound, StoreMatchesMemory
<1>5. CASE StopNothing(t) \/ StopRaises(t) \/ StopDone(t)
  <2>1. UNCHANGED <<session, store, proc>>
    BY <1>5 DEF StopNothing, StopRaises, StopDone
  <2>2. /\ \A v \in User : swState[v] = "STARTING" => swState'[v] = "STARTING"
        /\ \A v \in User : swState'[v] = "RUNNING" => swState[v] = "RUNNING"
        /\ \A v \in User : swState'[v] = "STOPPING" => swState[v] = "STOPPING" \/ v \notin Recorded
    BY <1>1, <1>5
    DEF StopNothing, StopRaises, StopDone, Withdraw, LeaveState, TypeOK, Recorded
  <2>3. SoleStarter' /\ StarterHolds'
    BY <1>1, <1>2, <2>2, StartersAlone
  <2>4. InstanceRecorded'
    BY <2>1, <2>2 DEF Core, InstanceRecorded, Recorded
  <2>5. SessionsSound'
    BY <2>1, ProcsGrow DEF Core
  <2> QED BY <1>1, <1>3, <2>1, <2>3, <2>4, <2>5 DEF Core, StoreMatchesMemory
<1> QED BY <1>4, <1>5 DEF StopStep

(* What leaves requests, states, sessions and the users of processes alone. *)
LEMMA CoreKept ==
  ASSUME TypeOK, ActorsKnown, Core, Moved(pc'),
         UNCHANGED <<teapot, swState, session, store, user, port, pid>>,
         \A q \in Pid : /\ proc'[q].user = proc[q].user
                        /\ proc'[q].state = "unused" => proc[q].state = "unused"
  PROVE  Core'
<1>1. SoleStarter' /\ StarterHolds'
  BY StartersAlone
<1>2. SessionsSound'
  BY ProcsGrow DEF Core
<1> QED BY <1>1, <1>2
        DEF Core, InstanceRecorded, Recorded, UnusedIsNobodys, StoreMatchesMemory

LEMMA CoreForget ==
  ASSUME TypeOK, Core, Forget,
         UNCHANGED store \/ store' \in {NoFile, Truncated}
  PROVE  Core'
<1>1. \A r \in Request : pc'[r] \notin Starting
  BY DEF Forget, Starting, Ended
<1>2. SoleStarter' /\ StarterHolds'
  BY <1>1 DEF SoleStarter, StarterHolds, Starting
<1>3. InstanceRecorded'
  BY DEF Forget, InstanceRecorded
<1>4. session' = NoSessions /\ UNCHANGED proc
  BY DEF Forget
<1>5. SessionsSound'
  BY <1>4 DEF Core, SessionsSound, Sound, NoSessions
<1> QED BY <1>2, <1>3, <1>4, <1>5
        DEF Core, Forget, UnusedIsNobodys, StoreMatchesMemory

LEMMA CoreWorld ==
  ASSUME TypeOK, ActorsKnown, DownIsBlank, Core,
         \/ \E r \in Request, u \in User : Arrive(r, u)
         \/ Sweep \/ SweepEnds \/ \E u \in User : Check(u) \/ ShutdownNext(u)
         \/ ShutdownStarts \/ ShutdownEnds \/ ShutdownFails \/ Crash \/ Boot
         \/ \E u \in User : Age(u)
         \/ \E q \in Pid : ProcStep(q) \/ ProcDies(q)
         \/ UNCHANGED vars
  PROVE  Core'
<1> USE DEF teapotVars, localVars, taskVars
<1>1. ASSUME NEW r \in Request, NEW u \in User, Arrive(r, u) PROVE Core'
  <2>1. /\ UNCHANGED <<teapot, swState, session, store, port, pid, proc>>
        /\ pc[r] = "idle" /\ pc' = [pc EXCEPT ![r] = "enter"] /\ user' = [user EXCEPT ![r] = u]
    BY <1>1 DEF Arrive, Goto
  <2>2. \A s \in Request : pc'[s] \in Starting => pc'[s] = pc[s] /\ user'[s] = user[s]
    BY <2>1 DEF TypeOK, Starting
  <2>3. SoleStarter' /\ StarterHolds'
    BY <2>1, <2>2 DEF Core, SoleStarter, StarterHolds, Starting
  <2> QED BY <2>1, <2>3, QuietStep DEF Core
<1>2. CASE \/ Sweep \/ SweepEnds \/ (\E u \in User : Check(u) \/ ShutdownNext(u))
           \/ ShutdownStarts \/ (\E u \in User : Age(u)) \/ UNCHANGED vars
  <2>1. UNCHANGED <<teapot, swState, session, store, user, port, pid, pc, proc>>
    BY <1>2 DEF Sweep, SweepEnds, Check, ShutdownNext, ShutdownStarts, Age, vars
  <2>2. Moved(pc')
    BY <2>1, Zenon DEF Moved
  <2> QED BY <2>1, <2>2, CoreKept
<1>3. CASE ShutdownEnds \/ ShutdownFails \/ Crash
  BY <1>3, CoreForget DEF ShutdownEnds, ShutdownFails, Crash
<1>4. CASE Boot
  <2>1. /\ UNCHANGED <<swState, user, port, pid, pc, proc>>
        /\ \A u \in User : swState[u] = "ABSENT"
        /\ session' = (IF store = NoFile THEN NoSessions ELSE store) /\ store' = session'
    BY <1>4 DEF Boot, Save, DownIsBlank
  <2>2. Sound(session', proc)
    BY <1>4, <2>1 DEF Boot, Core, SessionsSound, Sound, NoSessions
  <2>3. SessionsSound' /\ InstanceRecorded' /\ StoreMatchesMemory'
    BY <2>1, <2>2 DEF SessionsSound, InstanceRecorded, StoreMatchesMemory
  <2>4. SoleStarter' /\ StarterHolds' /\ UnusedIsNobodys'
    BY <2>1 DEF Core, SoleStarter, StarterHolds, UnusedIsNobodys
  <2> QED BY <2>3, <2>4 DEF Core
<1>5. ASSUME NEW q \in Pid, ProcStep(q) \/ ProcDies(q) PROVE Core'
  <2>1. PICK s \in {"up", "dead"} : ProcBecomes(q, s)
    BY <1>5 DEF ProcStep, ProcUp, ProcPortTaken, ProcExits, ProcDies
  <2>2. \A o \in Pid : /\ proc'[o].user = proc[o].user
                       /\ proc'[o].state = "unused" => proc[o].state = "unused"
    BY <2>1, ProcMoves DEF ProcBecomes, ProcState
  <2>3. UNCHANGED <<teapot, swState, session, store, user, port, pid, pc>>
    BY <2>1 DEF ProcBecomes
  <2>4. Moved(pc')
    BY <2>3, Zenon DEF Moved
  <2> QED BY <2>2, <2>3, <2>4, CoreKept
<1> QED BY <1>1, <1>2, <1>3, <1>4, <1>5

----------------------------------------------------------------------------
LEMMA CoreInit == Init => Core
BY ConstantsAssumption
DEF Init, Core, SoleStarter, StarterHolds, InstanceRecorded, Recorded, SessionsSound, Sound,
    UnusedIsNobodys, StoreMatchesMemory, NoSessions, Starting

LEMMA InvStep == Inv /\ [Next]_vars => Inv'
<1> SUFFICES ASSUME TypeOK, ActorsKnown, DownIsBlank, Core, [Next]_vars PROVE Inv'
  BY DEF Inv, Core
<1>1. TypeOK' /\ ActorsKnown' /\ DownIsBlank'
  BY TypeStep, ActorsStep
<1>2. ASSUME NEW r \in Request, RequestStep(r) PROVE Core'
  BY <1>2, CoreEnter, CoreSpawn, CoreGetProc, CoreStartFailed, CoreProbe, CoreTimedOut,
     CoreSucceeded, CoreProxy DEF RequestStep, StartStep
<1>3. Core'
  BY <1>2, CoreStop, CoreWorld DEF Next, ReaperStep, LifespanStep, Task
<1> QED BY <1>1, <1>3 DEF Inv, Core

(* The invariant the safety of Teapot rests on. *)
THEOREM InvCorrect == Spec => []Inv
<1>1. Init => Inv
  BY TypeInit, ActorsInit, CoreInit DEF Inv, Core
<1> QED BY <1>1, InvStep, PTL DEF Spec

(* However many requests of a user arrive, sleep and are woken, only one    *)
(* starts the instance at a time (teapot.py:883-924).                       *)
THEOREM SoleStarterCorrect == Spec => []SoleStarter
<1>1. Inv => SoleStarter
  BY DEF Inv
<1> QED BY <1>1, InvCorrect, PTL

(* What requests are proxied to is recorded for as long as the state says   *)
(* RUNNING, and gone once it says STOPPING (teapot.py:561-619, 1005-1018).  *)
THEOREM InstanceRecordedCorrect == Spec => []InstanceRecorded
<1>1. Inv => InstanceRecorded
  BY DEF Inv
<1> QED BY <1>1, InvCorrect, PTL

(* No write to the sessions is ever left unsaved (teapot.py:743-753).       *)
THEOREM StoreCorrect == Spec => []StoreMatchesMemory
<1>1. Inv => StoreMatchesMemory
  BY DEF Inv
<1> QED BY <1>1, InvCorrect, PTL

(* The pid that will be killed for a user is that of a process of the user, *)
(* over restarts of Teapot too (teapot.py:542-558, 561-619).                *)
THEOREM OwnProcessCorrect == Spec => []OwnProcess
<1>1. Inv => OwnProcess
  BY DEF Inv, SessionsSound, Sound, OwnProcess, Recorded
<1> QED BY <1>1, InvCorrect, PTL

----------------------------------------------------------------------------
(* Who wakes the sleepers of sw_condition.                                 *)

(* The steps that take away what sleepers wait for and call no notify(). *)
Silent ==
  \/ \E r \in Request :
       RejectUnmapped(r) \/ GetProcNone(r) \/ StartRaises(r) \/ StartTimedOut(r)
  \/ \E t \in Task :
       StopBody(t) /\ swState[victim[t]] = "RUNNING" /\ task'[t] = "sweep"
  \/ StopRaises("reaper")

(* While somebody sleeps, somebody else is bound to call notify(). *)
SleepersWoken ==
  (\E r \in Request : pc[r] = "waiting") =>
    \/ \E r \in Request : pc[r] \in {"enter"} \cup Starting
    \/ \E t \in Task : task[t] = "killed" /\ swState[victim[t]] = "STOPPING"
    \/ task["reaper"] # "raised" /\ \E u \in User : swState[u] = "RUNNING"

(* The queue of sw_condition holds the requests that sleep, each once. *)
Queue(pcs, sleepers) ==
  /\ \A r \in Request :
       pcs[r] = "waiting" <=> \E i \in 1 .. Len(sleepers) : sleepers[i] = r
  /\ \A i, j \in 1 .. Len(sleepers) : sleepers[i] = sleepers[j] => i = j
QueueSound == Queue(pc, waiters)

(* Nobody sleeps when no instance starts, runs or stops, except behind one  *)
(* who is about to look at the state.                                       *)
NotForgotten ==
  (\E r \in Request : pc[r] = "waiting") =>
    \/ \E r \in Request : pc[r] = "enter"
    \/ \E u \in User : ~ NotRunning(u)

StarterLeft ==
  \A u \in User : swState[u] = "STARTING" =>
    \E r \in Request : pc[r] \in Starting /\ user[r] = u
StopperLeft ==
  \A u \in User : swState[u] = "STOPPING" =>
    \E t \in Task : task[t] = "killed" /\ victim[t] = u
ReaperLeft == teapot = "up" => task["reaper"] # "raised"

Watch ==
  /\ QueueSound /\ NotForgotten
  /\ StarterLeft /\ StopperLeft /\ ReaperLeft

(* Who moves on a notification, and that somebody does if anyone sleeps. *)
Woke(pcs) ==
  \A s \in Request : pcs[s] = pc[s] \/ (pcs[s] = "enter" /\ pc[s] = "waiting")
SomeoneUp(pcs) ==
  (\E s \in Request : pcs[s] = "waiting") =>
    \E s \in Request : pcs[s] = "enter" /\ pc[s] = "waiting"

LEMMA NotifyQueue ==
  ASSUME TypeOK, QueueSound, Notify
  PROVE  Woke(Notified) /\ SomeoneUp(Notified) /\ Queue(Notified, waiters')
<1>1. CASE waiters = <<>>
  <2>1. waiters' = waiters /\ Notified = pc /\ Len(waiters) = 0
    BY <1>1 DEF Notify, Notified
  <2>2. \A s \in Request : pc[s] # "waiting"
    BY <2>1 DEF QueueSound, Queue
  <2>3. Queue(Notified, waiters')
    BY <2>1 DEF QueueSound
  <2> QED BY <2>1, <2>2, <2>3 DEF Woke, SomeoneUp
<1>2. CASE waiters # <<>>
  <2>1. /\ Head(waiters) = waiters[1]
        /\ Tail(waiters) \in Seq(Request)
        /\ Len(Tail(waiters)) = Len(waiters) - 1
        /\ \A i \in 1 .. Len(Tail(waiters)) : Tail(waiters)[i] = waiters[i + 1]
    BY <1>2, HeadTailProperties DEF TypeOK
  <2>2. Len(waiters) \in Nat /\ Len(waiters) # 0
    BY <1>2 DEF TypeOK
  <2>3. \A i \in 1 .. Len(waiters) : waiters[i] \in Request
    BY ElementOfSeq DEF TypeOK
  <2> DEFINE h == Head(waiters)
  <2>4. h \in Request /\ pc[h] = "waiting" /\ h = waiters[1] /\ 1 \in 1 .. Len(waiters)
    BY <2>1, <2>2, <2>3 DEF QueueSound, Queue
  <2>5. Notified = [pc EXCEPT ![h] = "enter"] /\ waiters' = Tail(waiters)
    BY <1>2 DEF Notified, Notify
  <2> HIDE DEF h
  <2>6. Woke(Notified) /\ SomeoneUp(Notified)
    BY <2>4, <2>5 DEF Woke, SomeoneUp, TypeOK
  <2>7. \A i \in 1 .. Len(waiters') :
          waiters'[i] = waiters[i + 1] /\ i + 1 \in 1 .. Len(waiters)
    BY <2>1, <2>2, <2>5
  <2>8. \A i, j \in 1 .. Len(waiters') : waiters'[i] = waiters'[j] => i = j
    <3> SUFFICES ASSUME NEW i \in 1 .. Len(waiters'), NEW j \in 1 .. Len(waiters'),
                        waiters'[i] = waiters'[j]
                 PROVE  i = j
      OBVIOUS
    <3>1. waiters[i + 1] = waiters[j + 1]
      BY <2>7
    <3>2. i + 1 = j + 1
      BY <2>7, <3>1 DEF QueueSound, Queue
    <3> QED BY <3>2, <2>1, <2>5
  <2>9. ASSUME NEW s \in Request, Notified[s] = "waiting"
        PROVE  \E i \in 1 .. Len(waiters') : waiters'[i] = s
    <3>1. s # h /\ pc[s] = "waiting"
      BY <2>4, <2>5, <2>9 DEF TypeOK
    <3>2. PICK i \in 1 .. Len(waiters) : waiters[i] = s
      BY <3>1 DEF QueueSound, Queue
    <3>3. i # 1
      BY <2>4, <3>1, <3>2
    <3>4. i - 1 \in 1 .. Len(waiters')
      BY <2>1, <2>2, <2>5, <3>3
    <3>5. waiters'[i - 1] = waiters[(i - 1) + 1]
      BY <2>7, <3>4
    <3> QED BY <3>2, <3>4, <3>5
  <2>10. ASSUME NEW i \in 1 .. Len(waiters')
         PROVE  Notified[waiters'[i]] = "waiting"
    <3>1. waiters'[i] = waiters[i + 1] /\ i + 1 \in 1 .. Len(waiters) /\ i + 1 # 1
      BY <2>1, <2>2, <2>5, <2>7
    <3>2. waiters[i + 1] # h
      BY <2>4, <3>1 DEF QueueSound, Queue
    <3>3. waiters[i + 1] \in Request /\ pc[waiters[i + 1]] = "waiting"
      BY <2>3, <3>1 DEF QueueSound, Queue
    <3> QED BY <2>5, <3>1, <3>2, <3>3 DEF TypeOK
  <2>11. Queue(Notified, waiters')
    BY <2>8, <2>9, <2>10 DEF Queue
  <2> QED BY <2>6, <2>11
<1> QED BY <1>1, <1>2

LEMMA NotifyGotoQueue ==
  ASSUME TypeOK, QueueSound, NEW r \in Request, NEW label \in PC \ {"waiting"},
         pc[r] # "waiting", NotifyAndGoto(r, label)
  PROVE  /\ pc'[r] = label
         /\ \A s \in Request \ {r} : pc'[s] = pc[s] \/ (pc'[s] = "enter" /\ pc[s] = "waiting")
         /\ SomeoneUp(pc') /\ QueueSound'
<1>1. Woke(Notified) /\ SomeoneUp(Notified) /\ Queue(Notified, waiters')
  BY NotifyQueue DEF NotifyAndGoto
<1>2. Notified \in [Request -> PC] /\ pc' = [Notified EXCEPT ![r] = label]
  BY NotifyType DEF NotifyAndGoto
<1>3. /\ pc'[r] = label
      /\ \A s \in Request \ {r} : pc'[s] = Notified[s]
  BY <1>2
<1>4. Notified[r] # "waiting"
  BY <1>1 DEF Woke
<1>5. \A s \in Request : pc'[s] = "waiting" <=> Notified[s] = "waiting"
  BY <1>3, <1>4
<1>6. SomeoneUp(pc')
  BY <1>1, <1>3, <1>5 DEF SomeoneUp
<1>7. QueueSound'
  BY <1>1, <1>5 DEF QueueSound, Queue
<1> QED BY <1>1, <1>3, <1>6, <1>7 DEF Woke

(* A notification leaves nobody forgotten. *)
LEMMA UpNotForgotten == ASSUME SomeoneUp(pc') PROVE NotForgotten'
BY DEF SomeoneUp, NotForgotten

(* A step at which nobody sleeps or wakes and no state changes. *)
Steady ==
  /\ UNCHANGED <<waiters, swState>>
  /\ \A s \in Request : pc'[s] = "waiting" <=> pc[s] = "waiting"
  /\ \A s \in Request : pc[s] = "enter" /\ pc'[s] # "enter" =>
       user[s] \in User /\ swState[user[s]] = "RUNNING"

LEMMA SteadyQueue ==
  ASSUME QueueSound, NotForgotten, Steady
  PROVE  QueueSound' /\ NotForgotten'
<1>1. QueueSound'
  <2>1. \A s \in Request : pc'[s] = "waiting" <=> pc[s] = "waiting"
    BY DEF Steady
  <2>2. waiters' = waiters
    BY DEF Steady
  <2> QED BY <2>1, <2>2 DEF QueueSound, Queue
<1>2. NotForgotten'
  <2> SUFFICES ASSUME NEW r \in Request, pc'[r] = "waiting",
                      \A s \in Request : pc'[s] # "enter"
               PROVE  \E u \in User : ~ NotRunning(u)'
    BY DEF NotForgotten
  <2>1. swState' = swState
    BY DEF Steady
  <2>2. CASE \E s \in Request : pc[s] = "enter"
    BY <2>1, <2>2 DEF Steady, NotRunning
  <2>3. CASE \E u \in User : ~ NotRunning(u)
    BY <2>1, <2>3 DEF NotRunning
  <2> QED BY <2>2, <2>3 DEF Steady, NotForgotten
<1> QED BY <1>1, <1>2

LEMMA StarterStays ==
  ASSUME StarterLeft,
         \A u \in User : swState'[u] = "STARTING" => swState[u] = "STARTING",
         \A r \in Request : pc[r] \in Starting /\ swState'[user[r]] = "STARTING" =>
           pc'[r] \in Starting /\ user'[r] = user[r]
  PROVE  StarterLeft'
BY DEF StarterLeft

LEMMA StopperStays ==
  ASSUME StopperLeft,
         \A u \in User : swState'[u] = "STOPPING" => swState[u] = "STOPPING",
         \A t \in Task : task[t] = "killed" /\ swState'[victim[t]] = "STOPPING" =>
           task'[t] = "killed" /\ victim'[t] = victim[t]
  PROVE  StopperLeft'
BY DEF StopperLeft

(* The tasks and the state of who stops are left alone. *)
LEMMA TasksAlone ==
  ASSUME StopperLeft, ReaperLeft, UNCHANGED <<teapot, task, victim>>,
         \A u \in User : swState'[u] = "STOPPING" => swState[u] = "STOPPING"
  PROVE  StopperLeft' /\ ReaperLeft'
BY StopperStays DEF ReaperLeft

LEMMA WatchEnter ==
  ASSUME TypeOK, ActorsKnown, Watch, NEW r \in Request, EnterStep(r)
  PROVE  Watch'
<1> USE DEF teapotVars, localVars, taskVars
<1>1. pc[r] = "enter" /\ user[r] \in User
  BY DEF EnterStep, EnterAndStart, EnterRunning, EnterAndWait, ActorsKnown
<1>2. CASE EnterAndStart(r)
  <2>1. NotifyAndGoto(r, "spawn") /\ swState' = [swState EXCEPT ![user[r]] = "STARTING"]
        /\ UNCHANGED <<teapot, user, task, victim>>
    BY <1>2 DEF EnterAndStart, SetState
  <2>2. /\ pc'[r] = "spawn"
        /\ \A s \in Request \ {r} : pc'[s] = pc[s] \/ (pc'[s] = "enter" /\ pc[s] = "waiting")
        /\ SomeoneUp(pc') /\ QueueSound'
    BY <1>1, <2>1, NotifyGotoQueue DEF Watch, PC, Starting
  <2>3. StarterLeft'
    <3> SUFFICES ASSUME NEW u \in User, swState'[u] = "STARTING"
                 PROVE  \E s \in Request : pc'[s] \in Starting /\ user'[s] = u
      BY DEF StarterLeft
    <3>1. CASE u = user[r]
      BY <2>1, <2>2, <3>1 DEF Starting
    <3>2. CASE u # user[r]
      <4>1. swState[u] = "STARTING"
        BY <2>1, <3>2 DEF TypeOK
      <4>2. PICK s \in Request : pc[s] \in Starting /\ user[s] = u
        BY <4>1 DEF Watch, StarterLeft
      <4>3. pc'[s] = pc[s]
        BY <1>1, <2>2, <4>2 DEF Starting
      <4> QED BY <2>1, <4>2, <4>3
    <3> QED BY <3>1, <3>2
  <2>4. StopperLeft' /\ ReaperLeft'
    BY <1>1, <2>1, TasksAlone DEF TypeOK, Watch
  <2> QED BY <2>2, <2>3, <2>4, UpNotForgotten DEF Watch
<1>3. CASE EnterRunning(r)
  <2>1. pc' = [pc EXCEPT ![r] = "lookup"]
        /\ UNCHANGED <<teapot, swState, waiters, user, task, victim>>
        /\ swState[user[r]] = "RUNNING"
    BY <1>3 DEF EnterRunning, Goto
  <2>2. Steady
    BY <1>1, <2>1 DEF Steady, TypeOK
  <2>3. StarterLeft'
    BY <1>1, <2>1, StarterStays DEF Watch, TypeOK, Starting
  <2>4. StopperLeft' /\ ReaperLeft'
    BY <2>1, TasksAlone DEF Watch
  <2> QED BY <2>2, <2>3, <2>4, SteadyQueue DEF Watch
<1>4. CASE EnterAndWait(r)
  <2>1. /\ pc' = [pc EXCEPT ![r] = "waiting"] /\ waiters' = Append(waiters, r)
        /\ UNCHANGED <<teapot, swState, user, task, victim>>
        /\ ~ NotRunning(user[r])
    BY <1>4 DEF EnterAndWait, Goto, NotRunning
  <2>2. NotForgotten'
    BY <1>1, <2>1 DEF NotForgotten, NotRunning
  <2>3. QueueSound'
    <3> DEFINE n == Len(waiters)
    <3>1. /\ n \in Nat /\ Len(waiters') = n + 1
          /\ waiters'[n + 1] = r
          /\ \A i \in 1 .. n : waiters'[i] = waiters[i]
      BY <2>1 DEF TypeOK
    <3>2. \A i \in 1 .. n : waiters[i] \in Request /\ pc[waiters[i]] = "waiting"
      BY ElementOfSeq DEF TypeOK, Watch, QueueSound, Queue
    <3>3. \A i \in 1 .. n : waiters[i] # r
      BY <1>1, <3>2
    <3>4. \A i, j \in 1 .. n : waiters[i] = waiters[j] => i = j
      BY DEF Watch, QueueSound, Queue
    <3> HIDE DEF n
    <3>5. \A i \in 1 .. Len(waiters') : i \in 1 .. n \/ i = n + 1
      BY <3>1
    <3>6. \A i, j \in 1 .. Len(waiters') : waiters'[i] = waiters'[j] => i = j
      BY <3>1, <3>3, <3>4, <3>5
    <3>7. \A s \in Request \ {r} : pc'[s] = "waiting" <=> \E i \in 1 .. n : waiters[i] = s
      BY <2>1 DEF TypeOK, Watch, QueueSound, Queue, n
    <3>8. \A s \in Request \ {r} :
            pc'[s] = "waiting" <=> \E i \in 1 .. Len(waiters') : waiters'[i] = s
      BY <3>1, <3>5, <3>7
    <3>9. pc'[r] = "waiting" /\ \E i \in 1 .. Len(waiters') : waiters'[i] = r
      BY <2>1, <3>1 DEF TypeOK
    <3> QED BY <3>6, <3>8, <3>9 DEF QueueSound, Queue
  <2>4. StarterLeft'
    BY <1>1, <2>1, StarterStays DEF Watch, TypeOK, Starting
  <2>5. StopperLeft' /\ ReaperLeft'
    BY <2>1, TasksAlone DEF Watch
  <2> QED BY <2>2, <2>3, <2>4, <2>5 DEF Watch
<1> QED BY <1>2, <1>3, <1>4 DEF EnterStep

(* A request moves on alone, and it is not asleep. *)
LEMMA WatchGoto ==
  ASSUME TypeOK, Watch, NEW r \in Request, NEW label \in PC \ {"waiting"},
         Goto(r, label), pc[r] \notin {"enter", "waiting"},
         pc[r] \in Starting => label \in Starting,
         UNCHANGED <<teapot, swState, waiters, user, task, victim>>
  PROVE  Watch'
<1>1. pc' = [pc EXCEPT ![r] = label]
  BY DEF Goto
<1>2. Steady
  BY <1>1 DEF Steady, TypeOK
<1>3. StarterLeft'
  BY <1>1, StarterStays DEF Watch, TypeOK
<1>4. StopperLeft' /\ ReaperLeft'
  BY TasksAlone DEF Watch
<1> QED BY <1>2, <1>3, <1>4, SteadyQueue DEF Watch

(* The end of a start wakes whoever sleeps. *)
LEMMA WatchStartEnds ==
  ASSUME TypeOK, ActorsKnown, SoleStarter, Watch, NEW r \in Request,
         StartFailed(r) \/ StartSucceeded(r)
  PROVE  Watch'
<1> USE DEF teapotVars, localVars, taskVars
<1>1. pc[r] \in Starting /\ pc[r] # "waiting" /\ user[r] \in User
  BY DEF StartFailed, StartSucceeded, Starting, ActorsKnown
<1>2. swState[user[r]] = "STARTING"
  BY <1>1 DEF SoleStarter
<1>3. /\ NotifyAndGoto(r, "error") \/ NotifyAndGoto(r, "count")
      /\ UNCHANGED <<teapot, user, task, victim>>
  BY <1>2 DEF StartFailed, StartSucceeded
<1>4. \E s \in {"NOT RUNNING", "RUNNING"} : swState' = [swState EXCEPT ![user[r]] = s]
  BY <1>2 DEF StartFailed, StartSucceeded, GiveUp, LeaveState
<1>5. /\ \A s \in Request \ {r} : pc'[s] = pc[s] \/ (pc'[s] = "enter" /\ pc[s] = "waiting")
      /\ SomeoneUp(pc') /\ QueueSound'
  BY <1>1, <1>3, NotifyGotoQueue DEF Watch, PC, Ended
<1>6. StarterLeft'
  <2>1. swState'[user[r]] # "STARTING" /\ \A u \in User \ {user[r]} : swState'[u] = swState[u]
    BY <1>1, <1>4 DEF TypeOK
  <2>2. \A s \in Request : pc[s] \in Starting /\ swState'[user[s]] = "STARTING" =>
          pc'[s] \in Starting /\ user'[s] = user[s]
    BY <1>3, <1>5, <2>1 DEF Starting
  <2> QED BY <2>1, <2>2, StarterStays DEF Watch
<1>7. StopperLeft' /\ ReaperLeft'
  BY <1>1, <1>3, <1>4, TasksAlone DEF TypeOK, Watch
<1> QED BY <1>5, <1>6, <1>7, UpNotForgotten DEF Watch

LEMMA WatchStart ==
  ASSUME TypeOK, ActorsKnown, SoleStarter, Watch, NEW r \in Request, StartStep(r), ~ Silent
  PROVE  Watch'
<1> USE DEF teapotVars, localVars, taskVars, PC, Starting
<1>1. ~ RejectUnmapped(r) /\ ~ GetProcNone(r) /\ ~ StartRaises(r) /\ ~ StartTimedOut(r)
  BY DEF Silent
<1>2. CASE SpawnFail(r)
  BY <1>2, WatchGoto DEF SpawnFail
<1>3. CASE Spawn(r)
  BY <1>3, WatchGoto DEF Spawn
<1>4. CASE GetProc(r)
  BY <1>4, WatchGoto DEF GetProc
<1>5. CASE GetProcBadStatus(r)
  BY <1>5, WatchGoto DEF GetProcBadStatus
<1>6. CASE ProbeAnswered(r)
  BY <1>6, WatchGoto DEF ProbeAnswered
<1>7. CASE ProbeMissed(r)
  <2>1. UNCHANGED <<teapot, swState, waiters, user, task, victim, pc>>
    BY <1>7 DEF ProbeMissed
  <2>2. Steady
    BY <2>1 DEF Steady
  <2>3. StarterLeft'
    BY <2>1, StarterStays DEF Watch
  <2>4. StopperLeft' /\ ReaperLeft'
    BY <2>1, TasksAlone DEF Watch
  <2> QED BY <2>2, <2>3, <2>4, SteadyQueue DEF Watch
<1> QED BY <1>1, <1>2, <1>3, <1>4, <1>5, <1>6, <1>7, WatchStartEnds DEF StartStep

LEMMA WatchProxy ==
  ASSUME TypeOK, Watch, NEW r \in Request, ProxyStep(r)
  PROVE  Watch'
<1> USE DEF teapotVars, localVars, taskVars, PC, Starting, InFlight, Ended
<1>1. CASE Lookup(r)
  BY <1>1, WatchGoto DEF Lookup
<1>2. CASE LookupFails(r)
  BY <1>2, WatchGoto DEF LookupFails
<1>3. CASE Count(r)
  BY <1>3, WatchGoto DEF Count
<1>4. CASE Send(r)
  BY <1>4, WatchGoto DEF Send
<1>5. CASE SendFails(r)
  BY <1>5, WatchGoto DEF SendFails
<1>6. CASE Respond(r)
  BY <1>6, WatchGoto DEF Respond
<1>7. CASE ReadFails(r)
  BY <1>7, WatchGoto DEF ReadFails
<1> QED BY <1>1, <1>2, <1>3, <1>4, <1>5, <1>6, <1>7 DEF ProxyStep

(* A state left with a notification, or not left: nobody is forgotten, and  *)
(* every starter stays.                                                     *)
LEMMA WatchLeave ==
  ASSUME TypeOK, Watch, NEW u \in User, NEW from, NEW to \in SwState \ {"STARTING"},
         from # "STARTING",
         LeaveState(u, from, to), NotifyIf(swState[u] = from), UNCHANGED user
  PROVE  QueueSound' /\ NotForgotten' /\ StarterLeft'
<1>1. CASE swState[u] = from
  <2>1. Woke(pc') /\ SomeoneUp(pc') /\ QueueSound'
    BY <1>1, NotifyQueue DEF NotifyIf, Watch, QueueSound
  <2>2. swState' = [swState EXCEPT ![u] = to]
    BY <1>1 DEF LeaveState
  <2>3. StarterLeft'
    BY <2>1, <2>2, StarterStays DEF Watch, Woke, TypeOK, Starting
  <2> QED BY <2>1, <2>3, UpNotForgotten
<1>2. CASE swState[u] # from
  <2>1. UNCHANGED <<swState, waiters, pc>>
    BY <1>2 DEF LeaveState, NotifyIf
  <2>2. Steady
    BY <2>1 DEF Steady
  <2>3. StarterLeft'
    BY <2>1, StarterStays DEF Watch
  <2> QED BY <2>2, <2>3, SteadyQueue DEF Watch
<1> QED BY <1>1, <1>2

LEMMA WatchTasks ==
  ASSUME Watch, UNCHANGED <<teapot, swState, waiters, pc, user>>,
         \A t \in Task : task[t] = "killed" =>
           task'[t] = "killed" /\ victim'[t] = victim[t],
         task["reaper"] # "raised" => task'["reaper"] # "raised"
  PROVE  Watch'
<1>1. Steady
  BY DEF Steady
<1>2. StarterLeft' /\ StopperLeft' /\ ReaperLeft'
  BY StarterStays, StopperStays DEF Watch, ReaperLeft
<1> QED BY <1>1, <1>2, SteadyQueue DEF Watch

LEMMA WatchStop ==
  ASSUME TypeOK, ActorsKnown, InstanceRecorded, DownIsBlank, Watch, NEW t \in Task, StopStep(t), ~ Silent
  PROVE  Watch'
<1> DEFINE u == victim[t]
<1>1. /\ u \in User /\ task[t] \in {"stop", "killed"}
      /\ UNCHANGED <<teapot, user, victim>>
      /\ \A o \in Task \ {t} : task'[o] = task[o]
  BY StopMoves DEF localVars
<1>2. CASE StopRaises(t)
  <2>1. t # "reaper"
    BY <1>2 DEF Silent
  <2> QED BY <1>1, <1>2, <2>1, WatchTasks DEF StopRaises, teapotVars, localVars, Task
<1>3. ASSUME ~ StopRaises(t)
      PROVE  task'[t] \in {"sweep", "killed"} /\ ReaperLeft'
  <2>1. task'[t] \in {"sweep", "killed"}
    BY <1>3 DEF StopStep, StopBody, StopNothing, StopDone, TypeOK
  <2> QED BY <1>1, <2>1 DEF Watch, ReaperLeft, Task
<1>4. CASE (StopBody(t) \/ StopNothing(t)) /\ ~ StopRaises(t)
  <2>1. LeaveState(u, "RUNNING", "STOPPING") /\ NotifyIf(swState[u] = "RUNNING") /\ task[t] = "stop"
    BY <1>4 DEF StopBody, StopNothing, Withdraw
  <2>2. QueueSound' /\ NotForgotten' /\ StarterLeft'
    BY <1>1, <2>1, WatchLeave DEF SwState
  <2>3. ASSUME NEW v \in User, swState'[v] = "STOPPING"
        PROVE  \E o \in Task : task'[o] = "killed" /\ victim'[o] = v
    <3>1. CASE swState[v] = "STOPPING"
      <4>1. PICK o \in Task : task[o] = "killed" /\ victim[o] = v
        BY <3>1 DEF Watch, StopperLeft
      <4> QED BY <1>1, <2>1, <4>1
    <3>2. CASE swState[v] # "STOPPING"
      <4>1. v = u /\ swState[u] = "RUNNING"
        BY <1>1, <2>1, <2>3, <3>2 DEF LeaveState, TypeOK
      <4>2. StopBody(t)
        BY <1>1, <1>4, <4>1 DEF StopNothing, InstanceRecorded
      <4>3. task'[t] = "killed"
        BY <1>3, <1>4, <4>1, <4>2 DEF Silent
      <4> QED BY <1>1, <4>1, <4>3
    <3> QED BY <3>1, <3>2
  <2> QED BY <1>3, <1>4, <2>2, <2>3 DEF Watch, StopperLeft
<1>5. CASE StopDone(t) /\ ~ StopRaises(t)
  <2>1. LeaveState(u, "STOPPING", "NOT RUNNING") /\ NotifyIf(swState[u] = "STOPPING")
    BY <1>5 DEF StopDone
  <2>2. QueueSound' /\ NotForgotten' /\ StarterLeft'
    BY <1>1, <2>1, WatchLeave DEF SwState
  <2>3. swState'[u] # "STOPPING" /\ \A v \in User \ {u} : swState'[v] = swState[v]
    BY <1>1, <2>1 DEF LeaveState, TypeOK
  <2>4. StopperLeft'
    BY <1>1, <2>3, StopperStays DEF Watch
  <2> QED BY <1>3, <1>5, <2>2, <2>4 DEF Watch
<1> QED BY <1>2, <1>4, <1>5 DEF StopStep

LEMMA WatchWorld ==
  ASSUME TypeOK, ActorsKnown, DownIsBlank, Watch,
         \/ \E r \in Request, u \in User : Arrive(r, u)
         \/ Sweep \/ SweepEnds \/ \E u \in User : Check(u) \/ ShutdownNext(u)
         \/ ShutdownStarts \/ ShutdownEnds \/ ShutdownFails \/ Crash \/ Boot
         \/ \E u \in User : Age(u)
         \/ \E q \in Pid : ProcStep(q) \/ ProcDies(q)
         \/ UNCHANGED vars
  PROVE  Watch'
<1> USE DEF teapotVars, localVars, taskVars
<1>1. ASSUME NEW r \in Request, NEW u \in User, Arrive(r, u) PROVE Watch'
  <2>1. /\ UNCHANGED <<teapot, swState, waiters, task, victim>>
        /\ pc[r] = "idle" /\ pc' = [pc EXCEPT ![r] = "enter"] /\ user' = [user EXCEPT ![r] = u]
    BY <1>1 DEF Arrive, Goto
  <2>2. Steady
    BY <2>1 DEF Steady, TypeOK
  <2>3. StarterLeft'
    BY <2>1, StarterStays DEF Watch, TypeOK, Starting
  <2>4. StopperLeft' /\ ReaperLeft'
    BY <2>1, TasksAlone DEF Watch
  <2> QED BY <2>2, <2>3, <2>4, SteadyQueue DEF Watch
<1>2. CASE Sweep \/ SweepEnds \/ ShutdownStarts
  BY <1>2, WatchTasks DEF Sweep, SweepEnds, ShutdownStarts, TypeOK, Task
<1>3. ASSUME NEW u \in User, Check(u) \/ ShutdownNext(u) PROVE Watch'
  BY <1>3, WatchTasks DEF Check, ShutdownNext, TakeVictim, TypeOK, Task
<1>4. CASE ShutdownEnds \/ ShutdownFails \/ Crash
  <2>1. /\ teapot' = "down" /\ swState' = [u \in User |-> "ABSENT"] /\ waiters' = <<>>
        /\ \A s \in Request : pc'[s] # "waiting"
    BY <1>4 DEF ShutdownEnds, ShutdownFails, Crash, Forget, Ended
  <2>2. Len(waiters') = 0
    BY <2>1
  <2>3. QueueSound'
    BY <2>1, <2>2 DEF QueueSound, Queue
  <2> QED BY <2>1, <2>3 DEF Watch, NotForgotten, StarterLeft, StopperLeft, ReaperLeft
<1>5. CASE Boot
  <2>1. /\ UNCHANGED <<swState, waiters, pc, user, victim>>
        /\ \A u \in User : swState[u] = "ABSENT"
        /\ task'["reaper"] = "sleep"
    BY <1>5 DEF Boot, DownIsBlank, Task
  <2>2. Steady
    BY <2>1 DEF Steady
  <2>3. StarterLeft' /\ StopperLeft' /\ ReaperLeft'
    BY <2>1 DEF StarterLeft, StopperLeft, ReaperLeft
  <2> QED BY <2>2, <2>3, SteadyQueue DEF Watch
<1>6. CASE \/ \E u \in User : Age(u)
           \/ \E q \in Pid : ProcStep(q) \/ ProcDies(q)
           \/ UNCHANGED vars
  <2>1. UNCHANGED <<teapot, swState, waiters, pc, user, task, victim>>
    BY <1>6 DEF Age, ProcStep, ProcUp, ProcPortTaken, ProcExits, ProcDies, ProcBecomes, vars
  <2> QED BY <2>1, WatchTasks
<1> QED BY <1>1, <1>2, <1>3, <1>4, <1>5, <1>6

LEMMA WatchStep == Inv /\ Watch /\ [Next]_vars /\ [~ Silent]_vars => Watch'
<1> SUFFICES ASSUME Inv, Watch, [Next]_vars, [~ Silent]_vars PROVE Watch'
  OBVIOUS
<1>1. CASE UNCHANGED vars
  BY <1>1, WatchWorld DEF Inv
<1>2. CASE Next /\ ~ Silent
  <2>1. ASSUME NEW r \in Request, RequestStep(r) PROVE Watch'
    BY <1>2, <2>1, WatchEnter, WatchStart, WatchProxy DEF RequestStep, Inv
  <2>2. ASSUME NEW t \in Task, StopStep(t) PROVE Watch'
    BY <1>2, <2>2, WatchStop DEF Inv
  <2> QED BY <1>2, <2>1, <2>2, WatchWorld DEF Next, ReaperStep, LifespanStep, Task, Inv
<1> QED BY <1>1, <1>2

LEMMA WatchInit == Init => Watch
<1> SUFFICES ASSUME Init PROVE Watch
  OBVIOUS
<1>1. waiters = <<>> /\ Len(waiters) = 0 /\ \A r \in Request : pc[r] = "idle"
  BY DEF Init
<1>2. QueueSound
  BY <1>1 DEF QueueSound, Queue
<1> QED BY <1>1, <1>2 DEF Init, Watch, NotForgotten, StarterLeft, StopperLeft, ReaperLeft, Task

LEMMA WatchWakes == Inv /\ Watch => SleepersWoken
<1> SUFFICES ASSUME Inv, Watch, NEW r \in Request, pc[r] = "waiting",
                    \A s \in Request : pc[s] # "enter"
             PROVE  \/ \E s \in Request : pc[s] \in Starting
                    \/ \E t \in Task : task[t] = "killed" /\ swState[victim[t]] = "STOPPING"
                    \/ task["reaper"] # "raised" /\ \E u \in User : swState[u] = "RUNNING"
  BY DEF SleepersWoken
<1>1. PICK u \in User : ~ NotRunning(u)
  BY DEF Watch, NotForgotten
<1>2. swState[u] \in {"STARTING", "RUNNING", "STOPPING"}
  BY <1>1 DEF Inv, TypeOK, SwState, NotRunning
<1>3. task["reaper"] # "raised"
  BY DEF Inv, TypeOK, DownIsBlank, Watch, ReaperLeft, Ended
<1> QED BY <1>2, <1>3 DEF Watch, StarterLeft, StopperLeft

(* A request never sleeps in condition.wait() (teapot.py:924) with nobody   *)
(* left to notify it, as long as no step is taken that leaves a state and   *)
(* notifies nobody: the rejection of a user without an account, an          *)
(* exception or a timeout of a start, a kill that fails after STOPPING was   *)
(* set (teapot.py:592), and the KeyError that ends the reaper               *)
(* (teapot.py:563).  One notify() for one of the waiters of all users is    *)
(* enough for the rest.                                                     *)
THEOREM SleepersWokenCorrect == Spec /\ [][~ Silent]_vars => []SleepersWoken
<1>1. Init => Watch
  BY WatchInit
<1>2. Inv /\ Watch /\ [Next]_vars /\ [~ Silent]_vars => Watch'
  BY WatchStep
<1>3. Inv /\ Watch => SleepersWoken
  BY WatchWakes
<1> QED BY <1>1, <1>2, <1>3, InvCorrect, PTL DEF Spec

----------------------------------------------------------------------------
(* Teapot implements InstanceLifecycle.                                    *)

(* All but one user are left alone. *)
OnlyOf(u) ==
  \A v \in User \ {u} :
    /\ swState'[v] = swState[v]
    /\ swState[v] = "RUNNING" =>
         session'[v].pid = session[v].pid /\ session'[v].port = session[v].port

LEMMA OneMoves ==
  ASSUME NEW u \in User, OnlyOf(u)
  PROVE  /\ phase' = [phase EXCEPT ![u] = phase'[u]]
         /\ published' = [published EXCEPT ![u] = published'[u]]
BY DEF OnlyOf, phase, published

LEMMA NoneMoves ==
  ASSUME UNCHANGED swState,
         \A v \in User : swState[v] = "RUNNING" =>
           session'[v].pid = session[v].pid /\ session'[v].port = session[v].port
  PROVE  UNCHANGED Lifecycle!vars
BY DEF phase, published, Lifecycle!vars

LEMMA LifecycleInit == Init => Lifecycle!Init
BY DEF Init, Lifecycle!Init, phase, published

(* A step that takes the state of one user from one value to another. *)
LEMMA LifecycleMove ==
  ASSUME NEW u \in User, OnlyOf(u), NEW from, NEW to,
         phase[u] = from, phase'[u] = to
  PROVE  Lifecycle!Move(u, from, to, published'[u])
BY OneMoves DEF Lifecycle!Move

LEMMA LifecycleRequest ==
  ASSUME Inv, Inv', NEW r \in Request, RequestStep(r)
  PROVE  [Lifecycle!Next]_Lifecycle!vars
<1> DEFINE u == user[r]
<1> USE DEF teapotVars, localVars, taskVars
<1>1. /\ u \in User
      /\ pc[r] \in Starting => swState[u] = "STARTING"
  BY RequestMoves DEF Inv, SoleStarter
<1>2. CASE EnterAndStart(r)
  <2>1. NotRunning(u) /\ swState' = [swState EXCEPT ![u] = "STARTING"] /\ UNCHANGED session
    BY <1>2 DEF EnterAndStart, SetState
  <2>2. OnlyOf(u) /\ phase[u] = "NOT RUNNING" /\ phase'[u] = "STARTING"
        /\ published'[u] = NoSession
    BY <1>1, <2>1 DEF OnlyOf, phase, published, NotRunning, Inv, TypeOK
  <2>3. Lifecycle!Start(u)
    BY <1>1, <2>2, LifecycleMove DEF Lifecycle!Start
  <2> QED BY <1>1, <2>3 DEF Lifecycle!Next
<1>3. CASE RejectUnmapped(r) \/ StartFailed(r) \/ StartTimedOut(r)
  <2>1. /\ swState[u] = "STARTING"
        /\ swState' = [swState EXCEPT ![u] = "NOT RUNNING"]
    BY <1>1, <1>3
    DEF RejectUnmapped, StartFailed, StartTimedOut, SetState, GiveUp, LeaveState, Starting
  <2>2. \A v \in User \ {u} : session'[v] = session[v]
    BY <1>1, <1>3 DEF RejectUnmapped, StartFailed, StartTimedOut, Save, Inv, TypeOK
  <2>3. OnlyOf(u) /\ phase[u] = "STARTING" /\ phase'[u] = "NOT RUNNING"
        /\ published'[u] = NoSession
    BY <1>1, <2>1, <2>2 DEF OnlyOf, phase, published, Inv, TypeOK
  <2>4. Lifecycle!GiveUp(u)
    BY <1>1, <2>3, LifecycleMove DEF Lifecycle!GiveUp
  <2> QED BY <1>1, <2>4 DEF Lifecycle!Next
<1>4. CASE StartSucceeded(r)
  <2>1. /\ swState[u] = "STARTING"
        /\ swState' = [swState EXCEPT ![u] = "RUNNING"]
    BY <1>1, <1>4 DEF StartSucceeded, LeaveState, Starting
  <2>2. \A v \in User \ {u} : session'[v] = session[v]
    BY <1>1, <1>4 DEF StartSucceeded, Save, Inv, TypeOK
  <2>3. OnlyOf(u) /\ phase[u] = "STARTING" /\ phase'[u] = "RUNNING"
    BY <1>1, <2>1, <2>2 DEF OnlyOf, phase, Inv, TypeOK
  <2>4. published'[u] \in Pid \X Nat
    <3>1. swState'[u] = "RUNNING"
      BY <1>1, <2>1 DEF Inv, TypeOK
    <3>2. session'[u].pid \in Pid /\ session'[u].port \in Nat
      BY <1>1, <3>1, ConstantsAssumption
      DEF Inv, InstanceRecorded, Recorded, TypeOK, Session, FailedPort
    <3> QED BY <1>1, <3>1, <3>2 DEF published
  <2>5. Lifecycle!Publish(u)
    BY <1>1, <2>3, <2>4, LifecycleMove DEF Lifecycle!Publish
  <2> QED BY <1>1, <2>5 DEF Lifecycle!Next
<1>5. CASE ProxyStep(r)
  <2>1. UNCHANGED swState
    BY <1>5 DEF ProxyStep, Lookup, LookupFails, Count, Send, SendFails, Respond, ReadFails
  <2>2. \A v \in User : swState[v] = "RUNNING" =>
          session'[v].pid = session[v].pid /\ session'[v].port = session[v].port
    <3>1. \A v \in User : swState[v] = "RUNNING" => v \in Recorded
      BY DEF Inv, InstanceRecorded
    <3>2. UNCHANGED session \/ (u \in Recorded /\ (AddActive(u) \/ DropActive(u)))
      BY <1>5 DEF ProxyStep, Lookup, LookupFails, Count, Send, SendFails, Respond, ReadFails
    <3> QED BY <3>1, <3>2, ActiveType DEF Inv
  <2> QED BY <2>1, <2>2, NoneMoves
<1>6. CASE \/ EnterRunning(r) \/ EnterAndWait(r) \/ SpawnFail(r) \/ Spawn(r)
           \/ GetProc(r) \/ GetProcBadStatus(r) \/ GetProcNone(r)
           \/ ProbeAnswered(r) \/ ProbeMissed(r) \/ StartRaises(r)
  <2>1. UNCHANGED <<swState, session>>
    BY <1>6 DEF EnterRunning, EnterAndWait, SpawnFail, Spawn, GetProc, GetProcBadStatus,
                GetProcNone, ProbeAnswered, ProbeMissed, StartRaises
  <2> QED BY <2>1, NoneMoves
<1> QED BY <1>2, <1>3, <1>4, <1>5, <1>6 DEF RequestStep, EnterStep, StartStep

LEMMA LifecycleStop ==
  ASSUME Inv, NEW t \in Task, StopStep(t)
  PROVE  [Lifecycle!Next]_Lifecycle!vars
<1> DEFINE u == victim[t]
<1> USE DEF teapotVars, localVars, taskVars
<1>1. u \in User
  BY StopMoves DEF Inv
<1>2. \A v \in User \ {u} : session'[v] = session[v]
  BY <1>1 DEF StopStep, StopBody, StopNothing, StopRaises, StopDone, Save, Inv, TypeOK
<1>3. CASE StopBody(t) \/ StopNothing(t)
  <2>1. LeaveState(u, "RUNNING", "STOPPING")
    BY <1>3 DEF StopBody, StopNothing, Withdraw
  <2>2. CASE swState[u] = "RUNNING"
    <3>1. OnlyOf(u) /\ phase[u] = "RUNNING" /\ phase'[u] = "STOPPING"
          /\ published'[u] = NoSession
      BY <1>1, <1>2, <2>1, <2>2 DEF LeaveState, OnlyOf, phase, published, Inv, TypeOK
    <3>2. Lifecycle!Withdraw(u)
      BY <1>1, <3>1, LifecycleMove DEF Lifecycle!Withdraw
    <3> QED BY <1>1, <3>2 DEF Lifecycle!Next
  <2>3. CASE swState[u] # "RUNNING"
    BY <1>1, <1>2, <2>1, <2>3, NoneMoves DEF LeaveState
  <2> QED BY <2>2, <2>3
<1>4. CASE StopRaises(t)
  BY <1>4, NoneMoves DEF StopRaises
<1>5. CASE StopDone(t)
  <2>1. LeaveState(u, "STOPPING", "NOT RUNNING") /\ UNCHANGED session
    BY <1>5 DEF StopDone
  <2>2. CASE swState[u] = "STOPPING"
    <3>1. OnlyOf(u) /\ phase[u] = "STOPPING" /\ phase'[u] = "NOT RUNNING"
          /\ published'[u] = NoSession
      BY <1>1, <1>2, <2>1, <2>2 DEF LeaveState, OnlyOf, phase, published, Inv, TypeOK
    <3>2. Lifecycle!Stopped(u)
      BY <1>1, <3>1, LifecycleMove DEF Lifecycle!Stopped
    <3> QED BY <1>1, <3>2 DEF Lifecycle!Next
  <2>3. CASE swState[u] # "STOPPING"
    BY <2>1, <2>3, NoneMoves DEF LeaveState
  <2> QED BY <2>2, <2>3
<1> QED BY <1>3, <1>4, <1>5 DEF StopStep

LEMMA LifecycleStep == Inv /\ Inv' /\ [Next]_vars => [Lifecycle!Next]_Lifecycle!vars
<1> SUFFICES ASSUME Inv, Inv', [Next]_vars PROVE [Lifecycle!Next]_Lifecycle!vars
  OBVIOUS
<1> USE DEF teapotVars, localVars, taskVars
<1>1. CASE ShutdownEnds \/ ShutdownFails \/ Crash
  <2>1. swState' = [u \in User |-> "ABSENT"]
    BY <1>1 DEF ShutdownEnds, ShutdownFails, Crash, Forget
  <2>2. Lifecycle!Forget
    BY <2>1 DEF Lifecycle!Forget, phase, published
  <2> QED BY <2>2 DEF Lifecycle!Next
<1>2. CASE Boot
  <2>1. UNCHANGED swState /\ \A u \in User : swState[u] # "RUNNING"
    BY <1>2 DEF Boot, Inv, DownIsBlank
  <2> QED BY <2>1, NoneMoves
<1>3. CASE \/ (\E r \in Request, u \in User : Arrive(r, u))
           \/ Sweep \/ SweepEnds \/ (\E u \in User : Check(u) \/ ShutdownNext(u) \/ Age(u))
           \/ ShutdownStarts
           \/ (\E q \in Pid : ProcStep(q) \/ ProcDies(q))
           \/ UNCHANGED vars
  <2>1. UNCHANGED <<swState, session>>
    BY <1>3 DEF Arrive, Sweep, SweepEnds, Check, ShutdownNext, Age, ShutdownStarts, ProcStep,
                ProcUp, ProcPortTaken, ProcExits, ProcDies, ProcBecomes, vars
  <2> QED BY <2>1, NoneMoves
<1> QED
  BY <1>1, <1>2, <1>3, LifecycleRequest, LifecycleStop
  DEF Next, ReaperStep, LifespanStep, Task

(* The locks, the condition and the error paths of storm_webdav_state and   *)
(* _stop_webdav_instance add up to the lifecycle its docstring names        *)
(* (teapot.py:869-874), over crashes and restarts too.                      *)
THEOREM LifecycleCorrect == Spec => LifecycleSpec
<1>1. Init => Lifecycle!Init
  BY LifecycleInit
<1>2. Inv /\ Inv' /\ [Next]_vars => [Lifecycle!Next]_Lifecycle!vars
  BY LifecycleStep
<1> QED BY <1>1, <1>2, InvCorrect, PTL DEF Spec, LifecycleSpec, Lifecycle!Spec

=============================================================================
