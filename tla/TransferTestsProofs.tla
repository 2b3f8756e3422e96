------------------------- MODULE TransferTestsProofs -------------------------
(***************************************************************************)
(* The verdicts of the transfer tests mean what they say, for any files of *)
(* a rule and any number of retries: what a test has seen of the rule is   *)
(* true of FTS and of the destination, in every order of the daemons, FTS, *)
(* the clock and the pods.                                                 *)
(***************************************************************************)
EXTENDS TransferTests, FiniteSetTheorems, SequenceTheorems, TLAPS

(* What the database and FTS tell of a file of the rule: a file is at the  *)
(* destination when its job, its request or its lock says so, and only a   *)
(* request that is submitted has a job that still runs.                    *)
RuleSound ==
  \A f \in Files :
    /\ f \in sent <=> job[f] # "none"
    /\ job[f] = "finished" \/ req[f].state = "DONE" \/ lock[f] = "OK" => f \in stored
    /\ req[f].state = "SUBMITTED" => job[f] # "none"
    /\ job[f] = "active" => req[f].state = "SUBMITTED"
    /\ req[f].state = "FAILED" \/ req[f].previous => f \in sent
    /\ req[f].state = "FAILED" \/ (req[f].previous /\ req[f].state = "QUEUED") =>
         job[f] \in Unsuccessful
    /\ lock[f] \in {"NONE", "OK", "STUCK"} => req[f].state = "NONE"

(* Where the test is: only a transfer test has more than one file, and a   *)
(* verdict is given once, when the rule is not looked at any more.         *)
PhaseSound ==
  /\ test # "transfer" => \A f, g \in Files : f = g
  /\ verdict # "none" => pc \in {"teardown", "ready", "over"}
  /\ pc \in {"stop", "wait"} => test = "down"
  /\ pc \in {"stop", "wait", "add"} =>
       sent = {} /\ \A f \in Files : lock[f] = "NONE" /\ req[f] = NoRequest
  /\ pc \in {"ban", "run", "loop", "read"} => \A f \in Files : lock[f] # "NONE"

(* The submitter gets the requests of an unavailable source once.  A file  *)
(* that FTS was given then is never STUCK: when it fails it is queued      *)
(* again, for good.                                                        *)
Fresh == sent = {} /\ \A f \in Files : lock[f] # "STUCK" /\ req[f].retries = 0
UnavailableSound ==
  test = "unavailable" =>
    /\ pc = "ban" \/ (pc = "run" /\ Len(todo) > 2) => Fresh
    /\ sent # {} => \A f \in Files :
         /\ lock[f] # "STUCK" /\ req[f].state # "NO_SOURCES"
         /\ req[f].state \in {"SUBMITTED", "FAILED"} => req[f].retries = 0

(* With the source stopped nothing is written, and after the test nothing  *)
(* is left that could be.                                                  *)
DownSound ==
  test = "down" =>
    /\ pc \in {"add", "ban", "run", "loop", "read"} => pod = "down"
    /\ pc \in {"stop", "wait", "add", "ban", "run", "loop", "read"} => stored = {}
    /\ verdict = "passed" => \A f \in Files : job[f] # "active"

(* The daemons run once in the checksum test: the finisher comes last, and *)
(* a request it has queued again is not submitted.                         *)
ChecksumSound ==
  test = "checksum" => \A f \in Files :
    /\ pc \in {"ban", "run"} => ~req[f].previous
    /\ req[f].previous => req[f].state = "QUEUED"

(* The inductive invariant.                                                *)
Inv ==
  /\ TypeOK
  /\ RuleSound /\ PhaseSound /\ DownSound /\ ChecksumSound
  /\ PassMeansStored /\ PassMeansFailed /\ DownNeverOk

----------------------------------------------------------------------------
(* The daemons left to run in a turn. *)
LEMMA Todos ==
  /\ SubSeq(RunDaemons, 1, 4) = RunDaemons
  /\ SubSeq(RunDaemons, 2, 4) = <<"submitter", "poller", "finisher">>
  /\ SubSeq(RunDaemons, 3, 4) = <<"poller", "finisher">>
<1> DEFINE all == <<"evaluator", "submitter", "poller", "finisher">>
<1>0. /\ RunDaemons = all /\ all \in Seq(Daemon) /\ Len(all) = 4
      /\ all[2] = "submitter" /\ all[3] = "poller" /\ all[4] = "finisher"
  BY DEF RunDaemons, Daemon
<1> HIDE DEF all
<1>1. ASSUME NEW i \in 1 .. 4
      PROVE  /\ SubSeq(all, i, 4) \in Seq(Daemon) /\ Len(SubSeq(all, i, 4)) = 5 - i
             /\ \A k \in 1 .. 5 - i : SubSeq(all, i, 4)[k] = all[i + k - 1]
  <2>1. \A k \in i .. 4 : all[k] \in Daemon
    <3>1. \A k \in 1 .. 4 : all[k] \in Daemon
      BY <1>0, ElementOfSeq
    <3> QED BY <3>1
  <2>2. i \in Int /\ 4 \in Int /\ i <= 4 /\ 4 - i + 1 = 5 - i
    OBVIOUS
  <2> QED BY <2>1, <2>2, SubSeqProperties
<1>2. SubSeq(all, 1, 4) = all
  BY <1>0, <1>1, SeqEqual
<1>3. SubSeq(all, 2, 4) = <<"submitter", "poller", "finisher">>
  <2> DEFINE rest == <<"submitter", "poller", "finisher">>
  <2>1. rest \in Seq(Daemon) /\ Len(rest) = 3 /\ \A k \in 1 .. 3 : rest[k] = all[k + 1]
    <3>1. rest \in Seq(Daemon) /\ Len(rest) = 3
      BY DEF Daemon
    <3>2. \A k \in 1 .. 3 : k = 1 \/ k = 2 \/ k = 3
      OBVIOUS
    <3> QED BY <1>0, <3>1, <3>2
  <2> HIDE DEF rest
  <2>2. SubSeq(all, 2, 4) = rest
    BY <1>1, <2>1, SeqEqual
  <2> QED BY <2>2 DEF rest
<1>4. SubSeq(all, 3, 4) = <<"poller", "finisher">>
  <2> DEFINE rest == <<"poller", "finisher">>
  <2>1. rest \in Seq(Daemon) /\ Len(rest) = 2 /\ \A k \in 1 .. 2 : rest[k] = all[k + 2]
    <3>1. rest \in Seq(Daemon) /\ Len(rest) = 2
      BY DEF Daemon
    <3>2. \A k \in 1 .. 2 : k = 1 \/ k = 2
      OBVIOUS
    <3> QED BY <1>0, <3>1, <3>2
  <2> HIDE DEF rest
  <2>2. SubSeq(all, 3, 4) = rest
    BY <1>1, <2>1, SeqEqual
  <2> QED BY <2>2 DEF rest
<1> QED BY <1>0, <1>2, <1>3, <1>4

(* The daemons left to run, as literal sequences.                          *)
Turns == {<<>>, <<"finisher">>, <<"poller", "finisher">>,
          <<"submitter", "poller", "finisher">>, RunDaemons}

(* These are the values that TypeOK allows.                                *)
LEMMA TurnsAre == {<<>>, <<"finisher">>} \cup {SubSeq(RunDaemons, i, 4) : i \in 1 .. 3} = Turns
<1>1. 1 .. 3 = {1, 2, 3}
  OBVIOUS
<1>2. {SubSeq(RunDaemons, i, 4) : i \in 1 .. 3}
        = {<<"poller", "finisher">>, <<"submitter", "poller", "finisher">>, RunDaemons}
  BY <1>1, Todos
<1> QED BY <1>2 DEF Turns

(* What a turn does to the test: the submitter runs in a turn of all the   *)
(* daemons only.                                                           *)
LEMMA TurnMoves ==
  ASSUME TypeOK, NEW daemon, Turn(daemon)
  PROVE  /\ pc = "run" /\ todo \in Turns /\ todo' \in Turns /\ verdict' = verdict
         /\ pc' = IF todo' # <<>> THEN "run"
                  ELSE IF test \in {"down", "checksum"} THEN "read" ELSE "loop"
         /\ Len(todo') > 2 => Len(todo) > 2 /\ daemon = "evaluator"
         /\ daemon = "submitter" => Len(todo) > 2
         /\ UNCHANGED <<test, runtime, late, verdict, logged, source>>
<1>1. todo \in Turns
  BY TurnsAre DEF TypeOK
<1>2. /\ pc = "run" /\ todo # <<>> /\ Head(todo) = daemon /\ todo' = Tail(todo)
      /\ pc' = IF todo' # <<>> THEN "run"
               ELSE IF test \in {"down", "checksum"} THEN "read" ELSE "loop"
      /\ UNCHANGED <<test, runtime, late, verdict, logged, source>>
  BY DEF Turn
<1>3. CASE todo = <<"finisher">>
  <2>1. todo' = <<>>
    BY <1>2, <1>3
  <2> QED BY <1>1, <1>2, <1>3, <2>1 DEF Turns
<1>4. CASE todo = <<"poller", "finisher">>
  <2>1. todo' = <<"finisher">>
    BY <1>2, <1>4
  <2> QED BY <1>1, <1>2, <1>4, <2>1 DEF Turns
<1>5. CASE todo = <<"submitter", "poller", "finisher">>
  <2>1. todo' = <<"poller", "finisher">>
    BY <1>2, <1>5
  <2> QED BY <1>1, <1>2, <1>5, <2>1 DEF Turns
<1>6. CASE todo = RunDaemons
  <2>1. todo = <<"evaluator", "submitter", "poller", "finisher">>
    BY <1>6 DEF RunDaemons
  <2>2. todo' = <<"submitter", "poller", "finisher">> /\ Len(todo) = 4 /\ daemon = "evaluator"
    BY <1>2, <2>1
  <2> QED BY <1>1, <1>2, <1>6, <2>1, <2>2 DEF Turns
<1> QED BY <1>1, <1>2, <1>3, <1>4, <1>5, <1>6 DEF Turns

(* How many locks have a state, as far as the tests ask. *)
LEMMA LocksCount ==
  ASSUME TypeOK, NEW s
  PROVE  /\ Locks(s) \in Nat
         /\ Locks(s) = 0 <=> \A f \in Files : lock[f] # s
         /\ (Locks(s) > 0 \/ Locks(s) >= 1) => \E f \in Files : lock[f] = s
<1> DEFINE S == {f \in Files : lock[f] = s}
<1>1. IsFiniteSet(Files)
  BY TransferTestsAssumption, FS_Subset DEF TypeOK
<1>2. IsFiniteSet(S)
  BY <1>1, FS_Subset
<1>3. Cardinality(S) \in Nat /\ (Cardinality(S) = 0 <=> S = {})
  BY <1>2, FS_CardinalityType, FS_EmptySet
<1>4. Locks(s) = Cardinality(S)
  BY DEF Locks
<1> QED BY <1>3, <1>4

(* Which steps change the requests, the rule or the jobs. *)
LEMMA RuleChanges ==
  ASSUME [Next]_vars
  PROVE  \/ UNCHANGED <<rucio, fts>>
         \/ AddRule \/ Submits \/ Polls \/ Finishes
         \/ \E f \in Files : JobEnds(f)
BY DEF Next, vars, Driver, Clock, PodGone, PodReady, FtsStep, Daemons, Stop, Waited, StopFails,
       Ban, ExecFails, ClientFails, RuleMissing, TimesOut, Goes, ReadRule, NoFixture,
       Restore, Start, Ready, FixtureFails, Evaluates, Idles, rucio, fts

----------------------------------------------------------------------------
(* The invariant holds at the start.                                       *)
LEMMA InvInit == Init => Inv
<1> SUFFICES ASSUME Init PROVE Inv
  OBVIOUS
<1>1. PICK fs \in SUBSET File \ {{}} :
        /\ test = "transfer" \/ Cardinality(fs) = 1
        /\ lock = [f \in fs |-> "NONE"]
        /\ req = [f \in fs |-> NoRequest]
        /\ job = [f \in fs |-> "none"]
  BY DEF Init
<1>2. Files = fs
  BY <1>1 DEF Files
<1>3. NoRequest \in Request
  BY TransferTestsAssumption DEF NoRequest, Request
<1>4. TypeOK
  <2>1. pc \in Pc /\ todo = <<>> /\ test \in Test
    BY DEF Init, Pc
  <2>2. job \in [Files -> JobState]
    BY <1>1, <1>2 DEF JobState
  <2>3. lock \in [Files -> {"NONE", "REPLICATING", "OK", "STUCK"}] /\ req \in [Files -> Request]
    BY <1>1, <1>2, <1>3
  <2>4. Files \in SUBSET File \ {{}}
    BY <1>2
  <2> QED BY <2>1, <2>2, <2>3, <2>4 DEF Init, TypeOK
<1>5. RuleSound
  BY <1>1, <1>2 DEF Init, RuleSound, NoRequest
<1>6. test # "transfer" => \A f, g \in Files : f = g
  <2> SUFFICES ASSUME test # "transfer", NEW f \in fs, NEW g \in fs PROVE f = g
    BY <1>2
  <2>1. IsFiniteSet(fs) /\ Cardinality(fs) = 1
    BY <1>1, TransferTestsAssumption, FS_Subset
  <2>2. PICK x : fs = {x}
    BY <2>1, FS_Singleton
  <2> QED BY <2>2
<1>7. PhaseSound
  BY <1>1, <1>2, <1>6 DEF Init, PhaseSound
<1>8. ChecksumSound
  BY <1>1, <1>2 DEF ChecksumSound, NoRequest
<1> QED
  BY <1>4, <1>5, <1>7, <1>8
  DEF Init, Inv, DownSound, PassMeansStored, PassMeansFailed, DownNeverOk

(* What a test makes of the rule: it ends, runs daemons, or looks again. *)
LEMMA ReadMoves ==
  ASSUME TypeOK, ReadRule
  PROVE  /\ UNCHANGED <<test, runtime, late, source, rucio, fts>>
         /\ \/ pc' = "teardown" /\ verdict' \in Verdict /\ UNCHANGED <<todo, logged>>
            \/ /\ pc' = "run" /\ todo' \in Turns /\ UNCHANGED <<verdict, logged>>
               /\ test # "checksum"
               /\ test = "unavailable" => todo' = <<"poller", "finisher">>
            \/ pc' = "loop" /\ test = "down" /\ UNCHANGED <<todo, verdict, logged>>
<1>1. CASE test = "transfer"
  BY <1>1 DEF ReadRule, ValidateRule, Ends, End, Another, AdvanceTransfer, Verdict, Turns
<1>2. CASE test = "expiry"
  BY <1>2 DEF ReadRule, ExpiryTest, Ends, End, Another, Verdict, Turns
<1>3. CASE test = "checksum"
  <2>1. \E v \in Verdict : Ends(v)
    BY <1>3 DEF ReadRule, ChecksumTest, Verdict
  <2> QED BY <1>3, <2>1 DEF ReadRule, Ends, End
<1>4. CASE test = "unavailable"
  <2>1. (\E v \in Verdict : Ends(v)) \/ Another(AdvanceTransfer)
    BY <1>4 DEF ReadRule, UnavailableTest, Verdict
  <2> QED BY <1>4, <2>1 DEF ReadRule, Ends, End, Another, AdvanceTransfer, Turns
<1>5. CASE test = "down"
  <2>1. \/ \E v \in Verdict : Ends(v)
        \/ pc' = "loop" /\ UNCHANGED <<todo, verdict, logged>>
    BY <1>5 DEF ReadRule, DownTest, Verdict
  <2> QED BY <1>5, <2>1 DEF ReadRule, Ends, End
<1> QED BY <1>1, <1>2, <1>3, <1>4, <1>5 DEF TypeOK, Test

(* A rule that is not found ends a test, or sends it back to the clock.    *)
LEMMA MissingMoves ==
  ASSUME RuleMissing
  PROVE  /\ pc = "read" /\ UNCHANGED <<test, runtime, late, todo, logged, source, rucio, fts>>
         /\ \/ pc' = "loop" /\ verdict' = verdict
            \/ pc' = "teardown" /\ verdict' = "error"
BY DEF RuleMissing, Ends, End

(* The types are kept. *)
LEMMA TypeStep == TypeOK /\ RuleSound /\ [Next]_vars => TypeOK'
<1> SUFFICES ASSUME TypeOK, RuleSound, [Next]_vars PROVE TypeOK'
  OBVIOUS
<1> DEFINE RuleType == /\ Files \in SUBSET File \ {{}}
                       /\ lock \in [Files -> {"NONE", "REPLICATING", "OK", "STUCK"}]
                       /\ req \in [Files -> Request]
                       /\ job \in [Files -> JobState]
                       /\ stored \subseteq sent /\ sent \subseteq Files
           TestType == /\ test \in Test /\ runtime \in {"compose", "k8s"} /\ pc \in Pc
                       /\ todo \in Turns
                       /\ late \in BOOLEAN /\ logged \in BOOLEAN
                       /\ verdict \in Verdict \cup {"none"}
                       /\ readable \in BOOLEAN /\ service \in BOOLEAN
                       /\ pod \in {"up", "terminating", "down", "starting"}
<1>t. TypeOK <=> RuleType /\ TestType
  BY TurnsAre DEF TypeOK
<1>u. TypeOK' <=> RuleType' /\ TestType'
  BY TurnsAre DEF TypeOK
<1>n. NoRequest \in Request /\ [NoRequest EXCEPT !.state = "QUEUED"] \in Request
  <2>1. 0 \in 0 .. MaxRetry
    BY TransferTestsAssumption
  <2>2. NoRequest \in Request
    BY <2>1 DEF NoRequest, Request
  <2>3. \A q \in Request : [q EXCEPT !.state = "QUEUED"] \in Request
    BY DEF Request
  <2> QED BY <2>2, <2>3
<1>1. RuleType'
  <2>1. CASE UNCHANGED <<rucio, fts>>
    BY <1>t, <2>1 DEF rucio, fts, Files
  <2>2. CASE AddRule
    <3>1. Files' = Files
      BY <2>2 DEF AddRule, Files
    <3>2. /\ lock' = [f \in Files |-> "REPLICATING"]
          /\ req' = [f \in Files |-> [NoRequest EXCEPT !.state = "QUEUED"]]
          /\ UNCHANGED <<job, sent, stored>>
      BY <2>2 DEF AddRule, fts
    <3> QED BY <1>t, <1>n, <3>1, <3>2
  <2>3. CASE Submits
    <3>1. Files' = Files /\ lock' = lock /\ stored' = stored
      BY <2>3 DEF Submits, Files
    <3>2. PICK given \in SUBSET Files :
            /\ req' = [f \in Files |-> IF req[f].state # "QUEUED" THEN req[f]
                 ELSE [req[f] EXCEPT !.state = IF f \in given THEN "SUBMITTED" ELSE "NO_SOURCES"]]
            /\ job' = [f \in Files |-> IF f \in given THEN "active" ELSE job[f]]
            /\ sent' = sent \cup given
      BY <2>3 DEF Submits
    <3>3. ASSUME NEW f \in Files PROVE req'[f] \in Request
      <4>1. req[f] \in Request
        BY <1>t
      <4> QED BY <3>2, <4>1 DEF Request
    <3> QED BY <1>t, <3>1, <3>2, <3>3 DEF JobState
  <2>4. CASE Polls
    <3>1. Files' = Files /\ lock' = lock /\ UNCHANGED <<job, sent, stored>>
      BY <2>4 DEF Polls, Files, fts
    <3>2. req' = [f \in Files |->
              IF req[f].state = "SUBMITTED" /\ job[f] \in {"finished"} \cup Unsuccessful
              THEN [req[f] EXCEPT !.state = IF job[f] = "finished" THEN "DONE" ELSE "FAILED"]
              ELSE req[f]]
      BY <2>4 DEF Polls
    <3>3. ASSUME NEW f \in Files PROVE req'[f] \in Request
      <4>1. req[f] \in Request
        BY <1>t
      <4> QED BY <3>2, <4>1 DEF Request
    <3> QED BY <1>t, <3>1, <3>2, <3>3
  <2>5. CASE Finishes
    <3>1. Files' = Files /\ UNCHANGED <<job, sent, stored>>
      BY <2>5 DEF Finishes, Files, fts
    <3>2. lock' \in [Files -> {"NONE", "REPLICATING", "OK", "STUCK"}]
      BY <1>t, <2>5 DEF Finishes
    <3>3. req' = [f \in Files |->
             IF Retries(f)
             THEN [state |-> "QUEUED", previous |-> TRUE, retries |-> req[f].retries + 1]
             ELSE IF req[f].state \in {"DONE", "FAILED", "NO_SOURCES"} THEN NoRequest
             ELSE req[f]]
      BY <2>5 DEF Finishes
    <3>4. ASSUME NEW f \in Files PROVE req'[f] \in Request
      <4>1. req[f] \in Request
        BY <1>t
      <4>2. Retries(f) => req[f].retries + 1 \in 0 .. MaxRetry
        BY <4>1, TransferTestsAssumption DEF Retries, Request
      <4> QED BY <1>n, <3>3, <4>1, <4>2 DEF Request
    <3> QED BY <1>t, <3>1, <3>2, <3>3, <3>4
  <2>6. ASSUME NEW f \in Files, JobEnds(f) PROVE RuleType'
    <3>1. f \in sent
      BY <2>6 DEF RuleSound, JobEnds, JobFinishes, JobRefused, JobFails
    <3>2. Files' = Files /\ UNCHANGED <<lock, req, sent>> /\ stored' \subseteq stored \cup {f}
      BY <2>6 DEF JobEnds, JobFinishes, JobRefused, JobFails, rucio, Files
    <3>3. job' \in [Files -> JobState]
      BY <1>t, <2>6 DEF JobEnds, JobFinishes, JobRefused, JobFails, JobState
    <3> QED BY <1>t, <3>1, <3>2, <3>3
  <2> QED BY <2>1, <2>2, <2>3, <2>4, <2>5, <2>6, RuleChanges
<1> HIDE DEF RuleType
<1>2. TestType'
  <2>1. ASSUME NEW daemon, Turn(daemon) PROVE TestType'
    BY <1>t, <2>1, TurnMoves DEF source, Pc
  <2>2. CASE ReadRule
    BY <1>t, <2>2, ReadMoves DEF source, Pc
  <2>3. CASE Evaluates \/ Submits \/ Polls \/ Idles \/ Finishes
    BY <2>1, <2>3 DEF Evaluates, Submits, Polls, Idles, Finishes
  <2>4. CASE Stop \/ Waited \/ Ban \/ AddRule
    BY <1>t, <2>4 DEF Stop, Waited, Ban, AddRule, source, Pc, Turns
  <2>5. CASE StopFails \/ ExecFails \/ ClientFails \/ TimesOut \/ Goes
    BY <1>t, <2>5
    DEF StopFails, ExecFails, ClientFails, TimesOut, Goes, End, source, Pc, Turns, Verdict
  <2>9. CASE RuleMissing
    BY <1>t, <2>9, MissingMoves DEF source, Pc, Verdict
  <2>6. CASE NoFixture \/ Restore \/ Start \/ Ready \/ FixtureFails
    BY <1>t, <2>6 DEF NoFixture, Restore, Start, Ready, FixtureFails, source, Pc
  <2>7. CASE Clock \/ PodGone \/ PodReady \/ FtsStep
    BY <1>t, <2>7 DEF Clock, PodGone, PodReady, FtsStep, JobEnds, JobFinishes, JobRefused,
                    JobFails, driver, source
  <2>8. CASE UNCHANGED vars
    BY <1>t, <2>8 DEF vars, driver, source
  <2> QED
    BY <2>2, <2>3, <2>4, <2>5, <2>6, <2>7, <2>8, <2>9 DEF Next, Driver, Daemons
<1> QED BY <1>u, <1>1, <1>2

(* The daemons and FTS keep what the database tells.                       *)
LEMMA RuleStep ==
  ASSUME TypeOK, RuleSound, PhaseSound, [Next]_vars
  PROVE  RuleSound'
<1>f. ASSUME Files' = Files,
             \A f \in Files :
               /\ f \in sent' <=> job'[f] # "none"
               /\ job'[f] = "finished" \/ req'[f].state = "DONE" \/ lock'[f] = "OK" => f \in stored'
               /\ req'[f].state = "SUBMITTED" => job'[f] # "none"
               /\ job'[f] = "active" => req'[f].state = "SUBMITTED"
               /\ req'[f].state = "FAILED" \/ req'[f].previous => f \in sent'
               /\ req'[f].state = "FAILED" \/ (req'[f].previous /\ req'[f].state = "QUEUED") =>
                    job'[f] \in Unsuccessful
               /\ lock'[f] \in {"NONE", "OK", "STUCK"} => req'[f].state = "NONE"
      PROVE  RuleSound'
  BY <1>f DEF RuleSound
<1>r. \A f \in Files :
        /\ f \in sent <=> job[f] # "none"
        /\ job[f] = "finished" \/ req[f].state = "DONE" \/ lock[f] = "OK" => f \in stored
        /\ req[f].state = "SUBMITTED" => job[f] # "none"
        /\ job[f] = "active" => req[f].state = "SUBMITTED"
        /\ req[f].state = "FAILED" \/ req[f].previous => f \in sent
        /\ req[f].state = "FAILED" \/ (req[f].previous /\ req[f].state = "QUEUED") =>
             job[f] \in Unsuccessful
        /\ lock[f] \in {"NONE", "OK", "STUCK"} => req[f].state = "NONE"
        /\ req[f] \in Request
        /\ job[f] \in JobState
        /\ lock[f] \in {"NONE", "REPLICATING", "OK", "STUCK"}
  BY DEF RuleSound, TypeOK
<1>q. \A q \in Request : \A s :
        /\ [q EXCEPT !.state = s].state = s
        /\ [q EXCEPT !.state = s].previous = q.previous
        /\ [q EXCEPT !.state = s].retries = q.retries
  BY DEF Request
<1>1. CASE UNCHANGED <<rucio, fts>>
  BY <1>1 DEF RuleSound, rucio, fts, Files
<1>2. CASE AddRule
  <2>1. /\ Files' = Files /\ UNCHANGED <<job, sent, stored>>
        /\ \A f \in Files : /\ lock'[f] = "REPLICATING"
                           /\ req'[f] = [NoRequest EXCEPT !.state = "QUEUED"]
    BY <1>2 DEF AddRule, Files, fts
  <2>2. \A f \in Files : req'[f].state = "QUEUED" /\ req'[f].previous = FALSE
    BY <2>1 DEF NoRequest
  <2>3. \A f \in Files : req[f].state = "NONE"
    BY <1>2 DEF AddRule, PhaseSound, NoRequest
  <2> QED BY <1>f, <1>r, <2>1, <2>2, <2>3
<1>3. CASE Submits
  <2>1. Files' = Files /\ lock' = lock /\ stored' = stored
    BY <1>3 DEF Submits, Files
  <2>2. PICK given \in SUBSET {f \in Files : req[f].state = "QUEUED"} :
          /\ req' = [f \in Files |-> IF req[f].state # "QUEUED" THEN req[f]
               ELSE [req[f] EXCEPT !.state = IF f \in given THEN "SUBMITTED" ELSE "NO_SOURCES"]]
          /\ job' = [f \in Files |-> IF f \in given THEN "active" ELSE job[f]]
          /\ sent' = sent \cup given
    BY <1>3 DEF Submits
  <2>3. ASSUME NEW f \in Files
        PROVE  /\ f \in sent' <=> job'[f] # "none"
               /\ job'[f] = "finished" \/ req'[f].state = "DONE" \/ lock'[f] = "OK" => f \in stored'
               /\ req'[f].state = "SUBMITTED" => job'[f] # "none"
               /\ job'[f] = "active" => req'[f].state = "SUBMITTED"
               /\ req'[f].state = "FAILED" \/ req'[f].previous => f \in sent'
               /\ req'[f].state = "FAILED" \/ (req'[f].previous /\ req'[f].state = "QUEUED") =>
                    job'[f] \in Unsuccessful
               /\ lock'[f] \in {"NONE", "OK", "STUCK"} => req'[f].state = "NONE"
    <3>1. CASE req[f].state # "QUEUED"
      BY <1>r, <2>1, <2>2, <3>1
    <3>2. CASE req[f].state = "QUEUED" /\ f \in given
      <4>1. req'[f].state = "SUBMITTED" /\ req'[f].previous = req[f].previous
        BY <1>q, <1>r, <2>2, <3>2
      <4> QED BY <1>r, <2>1, <2>2, <3>2, <4>1
    <3>3. CASE req[f].state = "QUEUED" /\ f \notin given
      <4>1. req'[f].state = "NO_SOURCES" /\ req'[f].previous = req[f].previous
        BY <1>q, <1>r, <2>2, <3>3
      <4> QED BY <1>r, <2>1, <2>2, <3>3, <4>1
    <3> QED BY <3>1, <3>2, <3>3
  <2> QED BY <1>f, <2>1, <2>3
<1>4. CASE Polls
  <2>1. Files' = Files /\ UNCHANGED <<lock, job, sent, stored>>
    BY <1>4 DEF Polls, Files, fts
  <2>2. ASSUME NEW f \in Files
        PROVE  \/ req'[f] = req[f]
               \/ /\ req[f].state = "SUBMITTED" /\ job[f] \in {"finished"} \cup Unsuccessful
                  /\ req'[f].state = IF job[f] = "finished" THEN "DONE" ELSE "FAILED"
                  /\ req'[f].previous = req[f].previous
    BY <1>4, <1>q, <1>r DEF Polls
  <2> QED BY <1>f, <1>r, <2>1, <2>2 DEF Unsuccessful
<1>5. CASE Finishes
  <2>1. Files' = Files /\ UNCHANGED <<job, sent, stored>>
    BY <1>5 DEF Finishes, Files, fts
  <2>2. ASSUME NEW f \in Files
        PROVE  \/ lock'[f] = lock[f] /\ req'[f] = req[f]
                  /\ req[f].state \notin {"DONE", "FAILED", "NO_SOURCES"}
               \/ /\ req[f].state = "DONE" /\ lock'[f] = "OK" /\ req'[f] = NoRequest
               \/ /\ req[f].state \in {"FAILED", "NO_SOURCES"} /\ lock'[f] = "STUCK"
                  /\ req'[f] = NoRequest
               \/ /\ Retries(f) /\ lock'[f] = lock[f]
                  /\ req'[f] = [state |-> "QUEUED", previous |-> TRUE,
                                retries |-> req[f].retries + 1]
    BY <1>5 DEF Finishes, Retries
  <2>3. ASSUME NEW f \in Files, Retries(f), lock'[f] = lock[f],
               req'[f] = [state |-> "QUEUED", previous |-> TRUE, retries |-> req[f].retries + 1]
        PROVE  /\ req'[f].state = "QUEUED" /\ f \in sent /\ lock[f] = "REPLICATING"
               /\ job[f] # "active" /\ job[f] \in Unsuccessful
    BY <1>r, <2>3 DEF Retries
  <2>4. NoRequest.state = "NONE" /\ NoRequest.previous = FALSE
    BY DEF NoRequest
  <2>5. ASSUME NEW f \in Files
        PROVE  /\ f \in sent' <=> job'[f] # "none"
               /\ job'[f] = "finished" \/ req'[f].state = "DONE" \/ lock'[f] = "OK" => f \in stored'
               /\ req'[f].state = "SUBMITTED" => job'[f] # "none"
               /\ job'[f] = "active" => req'[f].state = "SUBMITTED"
               /\ req'[f].state = "FAILED" \/ req'[f].previous => f \in sent'
               /\ req'[f].state = "FAILED" \/ (req'[f].previous /\ req'[f].state = "QUEUED") =>
                    job'[f] \in Unsuccessful
               /\ lock'[f] \in {"NONE", "OK", "STUCK"} => req'[f].state = "NONE"
    BY <1>r, <2>1, <2>2, <2>3, <2>4
  <2> QED BY <1>f, <2>1, <2>5
<1>6. ASSUME NEW g \in Files, JobEnds(g) PROVE RuleSound'
  <2>1. /\ Files' = Files /\ UNCHANGED <<lock, req, sent>> /\ stored \subseteq stored'
        /\ job[g] = "active"
        /\ \A f \in Files : f # g => job'[f] = job[f]
        /\ job'[g] \in {"finished"} \cup Unsuccessful /\ (job'[g] = "finished" => g \in stored')
    BY <1>6 DEF JobEnds, JobFinishes, JobRefused, JobFails, Unsuccessful, rucio, Files, TypeOK
  <2> QED BY <1>f, <1>r, <2>1 DEF Unsuccessful
<1> QED BY <1>1, <1>2, <1>3, <1>4, <1>5, <1>6, RuleChanges

(* The daemons that settle locks do not take one back. *)
LEMMA LocksKeep ==
  ASSUME TypeOK, [Next]_vars
  PROVE  /\ Files' = Files
         /\ \A f \in Files : lock[f] # "NONE" => lock'[f] # "NONE"
<1>1. CASE UNCHANGED <<rucio, fts>>
  BY <1>1 DEF rucio, Files
<1>2. CASE AddRule \/ Submits \/ Polls \/ Finishes
  BY <1>2 DEF AddRule, Submits, Polls, Finishes, Files
<1>3. ASSUME NEW g \in Files, JobEnds(g)
      PROVE  Files' = Files /\ lock' = lock
  BY <1>3 DEF JobEnds, JobFinishes, JobRefused, JobFails, rucio, Files
<1> QED BY <1>1, <1>2, <1>3, RuleChanges

(* The test keeps to its phases.                                           *)
LEMMA PhaseStep ==
  ASSUME TypeOK, PhaseSound, [Next]_vars
  PROVE  PhaseSound'
<1> DEFINE Begun == pc \in {"ban", "run", "loop", "read"}
           Blank == sent = {} /\ \A f \in Files : lock[f] = "NONE" /\ req[f] = NoRequest
<1>k. Files' = Files /\ \A f \in Files : lock[f] # "NONE" => lock'[f] # "NONE"
  BY LocksKeep
<1>p. /\ test # "transfer" => \A f, g \in Files : f = g
      /\ verdict # "none" => pc \in {"teardown", "ready", "over"}
      /\ pc \in {"stop", "wait"} => test = "down"
      /\ pc \in {"stop", "wait", "add"} => Blank
      /\ Begun => \A f \in Files : lock[f] # "NONE"
  BY DEF PhaseSound
<1>g. ASSUME test' = test, verdict' # "none" => pc' \in {"teardown", "ready", "over"},
             pc' \in {"stop", "wait"} => test = "down",
             pc' \in {"stop", "wait", "add"} => Blank',
             Begun' => \A f \in Files : lock'[f] # "NONE"
      PROVE  PhaseSound'
  BY <1>g, <1>k, <1>p DEF PhaseSound
<1>b. ASSUME UNCHANGED <<rucio, fts>>, Blank PROVE Blank'
  BY <1>b DEF rucio, fts, Files
<1> HIDE DEF Blank
<1>1. ASSUME NEW daemon, Turn(daemon) PROVE PhaseSound'
  <2>1. /\ pc = "run" /\ pc' \in {"run", "read", "loop"} /\ UNCHANGED <<test, verdict>>
    BY <1>1, TurnMoves
  <2> QED BY <1>g, <1>k, <1>p, <2>1
<1>2. CASE ReadRule
  <2>1. /\ pc = "read" /\ test' = test
        /\ pc' = "teardown" \/ (pc' \in {"run", "loop"} /\ verdict' = verdict)
    BY <1>2, ReadMoves DEF ReadRule
  <2> QED BY <1>g, <1>k, <1>p, <2>1
<1>3. CASE Evaluates \/ Submits \/ Polls \/ Idles \/ Finishes
  BY <1>1, <1>3 DEF Evaluates, Submits, Polls, Idles, Finishes
<1>4. CASE Stop \/ Waited
  <2>1. /\ pc \in {"stop", "wait"} /\ pc' \in {"add", "wait"}
        /\ UNCHANGED <<test, verdict, rucio, fts>>
    BY <1>4 DEF Stop, Waited
  <2> QED BY <1>b, <1>g, <1>p, <2>1
<1>5. CASE AddRule
  <2>1. /\ pc = "add" /\ pc' \in {"ban", "run", "loop"} /\ UNCHANGED <<test, verdict>>
        /\ \A f \in Files : lock'[f] = "REPLICATING"
    BY <1>5 DEF AddRule
  <2> QED BY <1>g, <1>p, <2>1
<1>6. CASE Ban \/ Goes
  <2>1. /\ pc \in {"ban", "loop"} /\ pc' \in {"run", "read"} /\ UNCHANGED <<test, verdict>>
    BY <1>6 DEF Ban, Goes
  <2> QED BY <1>g, <1>k, <1>p, <2>1
<1>7. CASE StopFails \/ ExecFails \/ ClientFails \/ TimesOut
  <2>1. pc' = "teardown" /\ test' = test
    BY <1>7 DEF StopFails, ExecFails, ClientFails, TimesOut, End
  <2> QED BY <1>g, <2>1
<1>12. CASE RuleMissing
  <2>1. /\ pc = "read" /\ test' = test
        /\ pc' = "teardown" \/ (pc' = "loop" /\ verdict' = verdict)
    BY <1>12, MissingMoves
  <2> QED BY <1>g, <1>k, <1>p, <2>1
<1>8. CASE NoFixture \/ Restore \/ Start \/ Ready \/ FixtureFails
  <2>1. pc' \in {"ready", "over"} /\ test' = test
    BY <1>8 DEF NoFixture, Restore, Start, Ready, FixtureFails
  <2> QED BY <1>g, <2>1
<1>9. CASE Clock \/ PodGone \/ PodReady
  <2>1. UNCHANGED <<test, pc, verdict, rucio, fts>>
    BY <1>9 DEF Clock, PodGone, PodReady, driver
  <2> QED BY <1>b, <1>g, <1>k, <1>p, <2>1
<1>10. CASE FtsStep
  <2>1. UNCHANGED <<test, pc, verdict, rucio, sent>>
    BY <1>10 DEF FtsStep, JobEnds, JobFinishes, JobRefused, JobFails, driver
  <2>2. Blank => Blank'
    BY <2>1 DEF rucio, Files, Blank
  <2> QED BY <1>g, <1>k, <1>p, <2>1, <2>2
<1>11. CASE UNCHANGED vars
  <2>1. UNCHANGED <<test, pc, verdict, rucio, fts>>
    BY <1>11 DEF vars, driver
  <2> QED BY <1>b, <1>g, <1>k, <1>p, <2>1
<1> QED
  BY <1>2, <1>3, <1>4, <1>5, <1>6, <1>7, <1>8, <1>9, <1>10, <1>11, <1>12 DEF Next, Driver, Daemons

(* With a retry left, a file that FTS was given when its source was not    *)
(* available is queued again when it fails, and never submitted: the loop  *)
(* runs the poller and the finisher only.                                  *)
LEMMA UnavailableStep ==
  ASSUME MaxRetry # 0, TypeOK, RuleSound, PhaseSound, UnavailableSound, [Next]_vars
  PROVE  UnavailableSound'
<1> DEFINE Sole(f) == /\ lock[f] # "STUCK" /\ req[f].state # "NO_SOURCES"
                      /\ req[f].state \in {"SUBMITTED", "FAILED"} => req[f].retries = 0
<1>t. test' = test /\ Files' = Files
  BY LocksKeep
     DEF Next, vars, Driver, Clock, PodGone, PodReady, FtsStep, JobEnds, JobFinishes, JobRefused,
         JobFails, Daemons, Stop, Waited, StopFails, AddRule, Submits, Polls, Finishes, Turn,
         Ban, ExecFails, ClientFails, RuleMissing, TimesOut, Goes, ReadRule, NoFixture,
         Restore, Start, Ready, FixtureFails, Evaluates, Idles
<1> SUFFICES ASSUME test = "unavailable"
             PROVE  /\ pc' = "ban" \/ (pc' = "run" /\ Len(todo') > 2) => Fresh'
                    /\ sent' # {} => \A f \in Files : Sole(f)'
  BY <1>t DEF UnavailableSound
<1>p. /\ pc = "ban" \/ (pc = "run" /\ Len(todo) > 2) => Fresh
      /\ sent # {} => \A f \in Files : Sole(f)
  BY DEF UnavailableSound
<1>s. \A f, g \in Files : f = g
  BY DEF PhaseSound
<1>r. \A f \in Files : req[f] \in Request
  BY DEF TypeOK
<1>u. ASSUME UNCHANGED <<rucio, sent>>
      PROVE  (Fresh => Fresh') /\ \A f \in Files : Sole(f) => Sole(f)'
  BY <1>u DEF rucio, Fresh, Files
<1> HIDE DEF Sole
<1>1. CASE Evaluates \/ Idles
  <2>1. /\ UNCHANGED <<rucio, sent>> /\ pc = "run" /\ pc' # "ban"
        /\ pc' = "run" /\ Len(todo') > 2 => Len(todo) > 2
    BY <1>1, TurnMoves DEF Evaluates, Idles, fts
  <2> QED BY <1>p, <1>u, <2>1
<1>2. CASE Submits
  <2>1. /\ Turn("submitter") /\ pc = "run" /\ Len(todo) > 2 /\ ~(Len(todo') > 2) /\ pc' # "ban"
    BY <1>2, TurnMoves DEF Submits
  <2>2. Fresh
    BY <1>p, <2>1
  <2>3. PICK given \in SUBSET {f \in Files : req[f].state = "QUEUED"} :
          /\ req' = [f \in Files |-> IF req[f].state # "QUEUED" THEN req[f]
               ELSE [req[f] EXCEPT !.state = IF f \in given THEN "SUBMITTED" ELSE "NO_SOURCES"]]
          /\ sent' = sent \cup given /\ lock' = lock
    BY <1>2 DEF Submits
  <2>4. ASSUME sent' # {}, NEW f \in Files PROVE Sole(f)'
    <3>1. f \in given /\ req[f].state = "QUEUED"
      BY <1>s, <2>2, <2>3, <2>4 DEF Fresh
    <3>2. req'[f].state = "SUBMITTED" /\ req'[f].retries = req[f].retries
      BY <1>r, <2>3, <3>1 DEF Request
    <3> QED BY <2>2, <2>3, <3>2 DEF Fresh, Sole
  <2> QED BY <2>1, <2>4
<1>3. CASE Polls
  <2>1. ~(Len(todo') > 2) /\ pc' # "ban" /\ sent' = sent /\ lock' = lock
    BY <1>3, TurnMoves DEF Polls, fts
  <2>2. ASSUME NEW f \in Files, Sole(f) PROVE Sole(f)'
    <3>1. \/ req'[f] = req[f]
          \/ /\ req[f].state = "SUBMITTED" /\ req'[f].state \in {"DONE", "FAILED"}
             /\ req'[f].retries = req[f].retries
      BY <1>3, <1>r DEF Polls, Request
    <3> QED BY <2>1, <2>2, <3>1 DEF Sole
  <2> QED BY <1>p, <2>1, <2>2
<1>4. CASE Finishes
  <2>1. ~(Len(todo') > 2) /\ pc' # "ban" /\ sent' = sent
    BY <1>4, TurnMoves DEF Finishes, fts
  <2>2. ASSUME NEW f \in Files, Sole(f) PROVE Sole(f)'
    <3>1. req[f].state = "FAILED" => Retries(f)
      BY <2>2, TransferTestsAssumption DEF Sole, Retries
    <3>2. lock'[f] # "STUCK"
      BY <1>4, <2>2, <3>1 DEF Finishes, Sole
    <3>3. \/ req'[f] = req[f]
          \/ req'[f] = NoRequest
          \/ req'[f] = [state |-> "QUEUED", previous |-> TRUE, retries |-> req[f].retries + 1]
      BY <1>4 DEF Finishes
    <3>4. \/ req'[f].state = req[f].state /\ req'[f].retries = req[f].retries
          \/ req'[f].state \in {"NONE", "QUEUED"}
      BY <3>3 DEF NoRequest
    <3> QED BY <2>2, <3>2, <3>4 DEF Sole
  <2> QED BY <1>p, <2>1, <2>2
<1>5. CASE AddRule
  <2>1. /\ pc = "add" /\ sent' = sent
        /\ \A f \in Files : /\ lock'[f] = "REPLICATING"
                           /\ req'[f] = [NoRequest EXCEPT !.state = "QUEUED"]
    BY <1>5 DEF AddRule, fts
  <2>2. sent = {}
    BY <2>1 DEF PhaseSound
  <2>3. \A f \in Files : req'[f].retries = 0
    BY <2>1 DEF NoRequest
  <2> QED BY <1>t, <2>1, <2>2, <2>3 DEF Fresh
<1>6. CASE ReadRule
  <2>1. /\ UNCHANGED <<rucio, sent>>
        /\ pc' # "ban" /\ (pc' = "run" => todo' = <<"poller", "finisher">>)
    BY <1>6, ReadMoves DEF fts
  <2>2. ASSUME pc' = "run" PROVE ~(Len(todo') > 2)
    <3>1. todo' = <<"poller", "finisher">>
      BY <2>1, <2>2
    <3> QED BY <3>1
  <2>3. \A f \in Files : Sole(f) => Sole(f)'
    BY <1>u, <2>1
  <2>4. sent' = sent
    BY <2>1
  <2> QED BY <1>p, <2>1, <2>2, <2>3, <2>4
<1>7. CASE Ban
  <2>1. UNCHANGED <<rucio, sent>> /\ pc = "ban"
    BY <1>7 DEF Ban, fts
  <2> QED BY <1>p, <1>u, <2>1
<1>8. CASE \/ Stop \/ Waited \/ StopFails \/ ExecFails \/ ClientFails \/ TimesOut \/ Goes
           \/ NoFixture \/ Restore \/ Start \/ Ready \/ FixtureFails
  <2>1. UNCHANGED <<rucio, sent>> /\ pc' \notin {"ban", "run"}
    BY <1>8 DEF Stop, Waited, StopFails, ExecFails, ClientFails, TimesOut, Goes, End, NoFixture,
                Restore, Start, Ready, FixtureFails, fts
  <2> QED BY <1>p, <1>u, <2>1
<1>10. CASE RuleMissing
  <2>1. UNCHANGED <<rucio, sent>> /\ pc' \notin {"ban", "run"}
    BY <1>10, MissingMoves DEF fts
  <2> QED BY <1>p, <1>u, <2>1
<1>9. CASE Clock \/ PodGone \/ PodReady \/ FtsStep \/ UNCHANGED vars
  <2>1. UNCHANGED <<rucio, sent, pc, todo>>
    BY <1>9 DEF Clock, PodGone, PodReady, FtsStep, JobEnds, JobFinishes, JobRefused, JobFails,
                vars, driver, fts
  <2> QED BY <1>p, <1>u, <2>1
<1> QED
  BY <1>1, <1>2, <1>3, <1>4, <1>5, <1>6, <1>7, <1>8, <1>9, <1>10 DEF Next, Driver, Daemons

(* A test does not become another one.                                     *)
LEMMA TestKeeps == [Next]_vars => test' = test
BY DEF Next, vars, Driver, Clock, PodGone, PodReady, FtsStep, JobEnds, JobFinishes, JobRefused,
       JobFails, Daemons, Stop, Waited, StopFails, AddRule, Submits, Polls, Finishes, Turn,
       Ban, ExecFails, ClientFails, RuleMissing, TimesOut, Goes, ReadRule, NoFixture,
       Restore, Start, Ready, FixtureFails, Evaluates, Idles

(* In the checksum test only the finisher, the last of its daemons, makes  *)
(* a request with a predecessor, and the request stays queued.             *)
LEMMA ChecksumStep ==
  ASSUME TypeOK, ChecksumSound, [Next]_vars
  PROVE  ChecksumSound'
<1> DEFINE Sound(f) == /\ pc \in {"ban", "run"} => ~req[f].previous
                       /\ req[f].previous => req[f].state = "QUEUED"
<1>t. test' = test /\ Files' = Files
  BY TestKeeps, LocksKeep
<1> SUFFICES ASSUME test = "checksum", NEW f \in Files PROVE Sound(f)'
  BY <1>t DEF ChecksumSound
<1>p. Sound(f)
  BY DEF ChecksumSound
<1>r. req[f] \in Request
  BY DEF TypeOK
<1>1. ASSUME NEW daemon, Turn(daemon) PROVE pc = "run" /\ ~req[f].previous
  BY <1>1, <1>p, TurnMoves
<1>2. CASE Evaluates \/ Idles
  BY <1>1, <1>2 DEF Evaluates, Idles, rucio
<1>3. CASE Submits \/ Polls
  <2>1. ~req[f].previous
    BY <1>1, <1>3 DEF Submits, Polls
  <2>2. req'[f].previous = req[f].previous
    BY <1>3, <1>r DEF Submits, Polls, Request
  <2> QED BY <2>1, <2>2
<1>4. CASE Finishes
  <2>1. Turn("finisher") /\ ~req[f].previous
    BY <1>1, <1>4 DEF Finishes
  <2>2. pc' = "read"
    <3>1. todo = <<"finisher">>
      <4>1. todo \in Turns /\ Head(todo) = "finisher" /\ todo # <<>>
        BY <2>1, TurnMoves, TurnsAre DEF Turn
      <4> QED BY <4>1 DEF Turns, RunDaemons
    <3>2. todo' = <<>>
      BY <2>1, <3>1 DEF Turn
    <3> QED BY <2>1, <3>2, TurnMoves
  <2>3. req'[f].previous => req'[f].state = "QUEUED"
    BY <1>4, <2>1 DEF Finishes, NoRequest
  <2> QED BY <2>2, <2>3
<1>5. CASE AddRule
  <2>1. req'[f] = [NoRequest EXCEPT !.state = "QUEUED"]
    BY <1>5 DEF AddRule
  <2>2. req'[f].previous = FALSE
    BY <2>1 DEF NoRequest
  <2> QED BY <2>2
<1>6. CASE ReadRule
  BY <1>6, <1>p, ReadMoves DEF rucio
<1>7. CASE RuleMissing
  BY <1>7, <1>p, MissingMoves DEF rucio
<1>8. CASE Ban
  BY <1>8, <1>p DEF Ban, rucio
<1>9. CASE \/ Stop \/ Waited \/ StopFails \/ ExecFails \/ ClientFails \/ TimesOut \/ Goes
           \/ NoFixture \/ Restore \/ Start \/ Ready \/ FixtureFails
  <2>1. req' = req /\ pc' \notin {"ban", "run"}
    BY <1>9 DEF Stop, Waited, StopFails, ExecFails, ClientFails, TimesOut, Goes, End, NoFixture,
                Restore, Start, Ready, FixtureFails, rucio
  <2> QED BY <1>p, <2>1
<1>10. CASE Clock \/ PodGone \/ PodReady \/ FtsStep \/ UNCHANGED vars
  <2>1. req' = req /\ pc' = pc
    BY <1>10 DEF Clock, PodGone, PodReady, FtsStep, JobEnds, JobFinishes, JobRefused, JobFails,
                 vars, driver, rucio
  <2> QED BY <1>p, <2>1
<1> QED
  BY <1>2, <1>3, <1>4, <1>5, <1>6, <1>7, <1>8, <1>9, <1>10 DEF Next, Driver, Daemons

(* A verdict is final: the fixtures run no daemon.                         *)
LEMMA AfterVerdict ==
  ASSUME TypeOK, PhaseSound, [Next]_vars, verdict # "none"
  PROVE  /\ verdict' = verdict /\ sent' = sent
         /\ pc' \notin {"stop", "wait", "add", "run", "loop", "read"}
         /\ UNCHANGED <<job, stored>> \/ \E f \in Files : JobEnds(f)
<1>p. pc \in {"teardown", "ready", "over"}
  BY DEF PhaseSound
<1>1. ~(Daemons \/ Stop \/ Waited \/ StopFails \/ AddRule \/ Ban \/ ExecFails \/ ClientFails
        \/ TimesOut \/ Goes \/ ReadRule \/ RuleMissing)
  BY <1>p DEF Daemons, Evaluates, Submits, Polls, Idles, Finishes, Turn, Stop, Waited, StopFails,
              AddRule, Ban, ExecFails, ClientFails, RuleMissing, TimesOut, Goes, ReadRule
<1>2. CASE NoFixture \/ Restore \/ Start \/ Ready \/ FixtureFails
  BY <1>2 DEF NoFixture, Restore, Start, Ready, FixtureFails, fts
<1>3. CASE Clock \/ PodGone \/ PodReady \/ UNCHANGED vars
  BY <1>p, <1>3 DEF Clock, PodGone, PodReady, vars, driver, fts
<1>4. CASE FtsStep
  BY <1>p, <1>4 DEF FtsStep, JobEnds, JobFinishes, JobRefused, JobFails, driver
<1> QED BY <1>1, <1>2, <1>3, <1>4 DEF Next, Driver

(* Only a look at the rule gives a verdict that is not a failure of the    *)
(* test.                                                                   *)
LEMMA Verdicts ==
  ASSUME TypeOK, [Next]_vars, verdict = "none", verdict' # "none"
  PROVE  \/ verdict' \in {"error", "timeout"} /\ UNCHANGED <<job, stored>>
         \/ ReadRule
<1>1. ASSUME NEW daemon, Turn(daemon) PROVE FALSE
  BY <1>1, TurnMoves
<1>2. ~Daemons
  BY <1>1 DEF Daemons, Evaluates, Submits, Polls, Idles, Finishes
<1>3. ~(Stop \/ Waited \/ AddRule \/ Ban \/ Goes \/ NoFixture \/ Restore \/ Start \/ Ready
        \/ FixtureFails \/ Clock \/ PodGone \/ PodReady \/ FtsStep \/ UNCHANGED vars)
  BY DEF Stop, Waited, AddRule, Ban, Goes, NoFixture, Restore, Start, Ready, FixtureFails, Clock,
         PodGone, PodReady, FtsStep, JobEnds, JobFinishes, JobRefused, JobFails, vars, driver
<1>4. CASE StopFails \/ ExecFails \/ ClientFails \/ TimesOut
  BY <1>4 DEF StopFails, ExecFails, ClientFails, TimesOut, End, fts
<1>5. CASE RuleMissing
  BY <1>5, MissingMoves DEF fts
<1> QED BY <1>2, <1>3, <1>4, <1>5 DEF Next, Driver

(* What a test has seen when it passes.                                    *)
LEMMA Passes ==
  ASSUME TypeOK, RuleSound, PhaseSound, ReadRule, verdict = "none"
  PROVE  /\ UNCHANGED <<test, job, sent, stored, lock>>
         /\ verdict' = "passed" /\ test \in {"transfer", "expiry"} =>
              \A f \in Files : lock[f] = "OK"
         /\ verdict' = "passed" /\ test = "checksum" => \E f \in Files : req[f].previous
         /\ verdict' = "passed" /\ test \in {"unavailable", "down"} =>
              \E f \in Files : lock[f] = "STUCK"
         /\ verdict' = "ok" => \E f \in Files : lock[f] = "OK"
<1>1. UNCHANGED <<test, job, sent, stored, lock>> /\ pc = "read"
  BY DEF ReadRule, rucio, fts
<1>2. \A f \in Files : lock[f] \in {"REPLICATING", "OK", "STUCK"}
  BY <1>1 DEF TypeOK, PhaseSound
<1>3. Locks("STUCK") = 0 /\ Settled => \A f \in Files : lock[f] = "OK"
  BY <1>2, LocksCount DEF Settled
<1>4. CASE test = "transfer"
  <2>1. verdict' = "passed" => Locks("STUCK") = 0 /\ Settled
    BY <1>4 DEF ReadRule, ValidateRule, Ends, End, Another
  <2>2. verdict' # "ok"
    BY <1>4 DEF ReadRule, ValidateRule, Ends, End, Another
  <2> QED BY <1>1, <1>3, <1>4, <2>1, <2>2
<1>5. CASE test = "expiry"
  <2>1. verdict' = "passed" => Locks("STUCK") = 0 /\ Settled
    BY <1>5 DEF ReadRule, ExpiryTest, Ends, End, Another
  <2>2. verdict' # "ok"
    BY <1>5 DEF ReadRule, ExpiryTest, Ends, End, Another
  <2> QED BY <1>1, <1>3, <1>5, <2>1, <2>2
<1>6. CASE test = "checksum"
  <2>1. /\ verdict' = "passed" => \E f \in Files : req[f].previous
        /\ verdict' = "ok" => Locks("OK") > 0
    BY <1>6 DEF ReadRule, ChecksumTest, GetRequest, NoRequest, Ends, End
  <2> QED BY <1>1, <1>6, <2>1, LocksCount
<1>7. CASE test = "unavailable"
  <2>1. /\ verdict' = "passed" => Locks("STUCK") > 0
        /\ verdict' = "ok" => Locks("OK") > 0
    BY <1>7 DEF ReadRule, UnavailableTest, Ends, End, Another
  <2> QED BY <1>1, <1>7, <2>1, LocksCount
<1>8. CASE test = "down"
  <2>1. /\ verdict' = "passed" => Locks("STUCK") > 0
        /\ verdict' = "ok" => Locks("OK") > 0
    BY <1>8 DEF ReadRule, DownTest, Ends, End
  <2> QED BY <1>1, <1>8, <2>1, LocksCount
<1> QED BY <1>4, <1>5, <1>6, <1>7, <1>8 DEF TypeOK, Test

(* A test that passes has seen all locks OK, each of them a stored file.   *)
LEMMA StoredStep ==
  ASSUME Inv, [Next]_vars
  PROVE  PassMeansStored'
<1>t. test' = test /\ Files' = Files
  BY TestKeeps, LocksKeep DEF Inv
<1> SUFFICES ASSUME verdict' = "passed", test \in {"transfer", "expiry"}
             PROVE  stored' = Files
  BY <1>t DEF PassMeansStored
<1>k. stored' \subseteq Files
  BY <1>t, TypeStep DEF Inv, TypeOK
<1>1. CASE verdict # "none"
  <2>1. verdict = "passed"
    BY <1>1, AfterVerdict DEF Inv
  <2>2. stored = Files
    BY <2>1 DEF Inv, PassMeansStored
  <2>3. stored \subseteq stored'
    BY <1>1, AfterVerdict DEF Inv, JobEnds, JobFinishes, JobRefused, JobFails
  <2> QED BY <1>k, <2>2, <2>3
<1>2. CASE verdict = "none"
  <2>1. ReadRule
    BY <1>2, Verdicts DEF Inv
  <2>2. stored' = stored /\ \A f \in Files : lock[f] = "OK"
    BY <1>2, <2>1, Passes DEF Inv
  <2>3. Files \subseteq stored
    BY <2>2 DEF Inv, RuleSound
  <2> QED BY <1>k, <2>2, <2>3
<1> QED BY <1>1, <1>2

(* A queued request with a predecessor is of a file whose job has ended    *)
(* without success.                                                        *)
LEMMA FailedStep ==
  ASSUME Inv, [Next]_vars
  PROVE  PassMeansFailed'
<1>t. test' = test /\ Files' = Files
  BY TestKeeps, LocksKeep DEF Inv
<1> SUFFICES ASSUME verdict' = "passed", test = "checksum", NEW f \in Files
             PROVE  job'[f] \in Unsuccessful
  BY <1>t DEF PassMeansFailed
<1>1. CASE verdict # "none"
  <2>1. job[f] \in Unsuccessful
    BY <1>1, AfterVerdict DEF Inv, PassMeansFailed
  <2>2. \A g \in Files : g = f
    BY DEF Inv, PhaseSound
  <2>3. ASSUME NEW g \in Files, JobEnds(g) PROVE FALSE
    BY <2>1, <2>2, <2>3 DEF JobEnds, JobFinishes, JobRefused, JobFails, Unsuccessful
  <2>4. job' = job
    BY <1>1, <2>3, AfterVerdict DEF Inv
  <2> QED BY <2>1, <2>4
<1>2. CASE verdict = "none"
  <2>1. ReadRule
    BY <1>2, Verdicts DEF Inv
  <2>2. PICK g \in Files : req[g].previous
    BY <1>2, <2>1, Passes DEF Inv
  <2>3. job' = job
    BY <1>2, <2>1, Passes DEF Inv
  <2>4. req[g].state = "QUEUED"
    BY <2>2 DEF Inv, ChecksumSound
  <2>5. job[g] \in Unsuccessful
    BY <2>2, <2>4 DEF Inv, RuleSound
  <2>6. f = g
    BY DEF Inv, PhaseSound
  <2> QED BY <2>3, <2>5, <2>6
<1> QED BY <1>1, <1>2

(* A lock that is STUCK is of a file that FTS was not given.               *)
LEMMA NotSentStep ==
  ASSUME Inv, UnavailableSound, PassMeansNotSent, [Next]_vars
  PROVE  PassMeansNotSent'
<1> SUFFICES ASSUME verdict' = "passed", test = "unavailable"
             PROVE  sent' = {}
  BY TestKeeps DEF PassMeansNotSent
<1>1. CASE verdict # "none"
  BY <1>1, AfterVerdict DEF Inv, PassMeansNotSent
<1>2. CASE verdict = "none"
  <2>1. ReadRule
    BY <1>2, Verdicts DEF Inv
  <2>2. sent' = sent /\ \E f \in Files : lock[f] = "STUCK"
    BY <1>2, <2>1, Passes DEF Inv
  <2> QED BY <2>2 DEF UnavailableSound
<1> QED BY <1>1, <1>2

(* FTS writes nothing while the test of a stopped source runs: it has no   *)
(* job before the pod is gone.                                             *)
LEMMA NoTransfer ==
  ASSUME Inv, [Next]_vars, test = "down",
         pc \in {"stop", "wait", "add", "ban", "run", "loop", "read"}
  PROVE  stored' = {}
<1>1. stored = {}
  BY DEF Inv, DownSound
<1>2. ASSUME NEW f \in Files, JobFinishes(f) PROVE FALSE
  <2>1. job[f] = "active" /\ pod # "down"
    BY <1>2 DEF JobFinishes, Reachable
  <2>2. f \in sent
    BY <2>1 DEF Inv, RuleSound
  <2>3. sent = {} \/ pod = "down"
    BY DEF Inv, PhaseSound, DownSound
  <2> QED BY <2>1, <2>2, <2>3
<1>3. stored' = stored \/ \E f \in Files : JobFinishes(f)
  BY RuleChanges DEF AddRule, Submits, Polls, Finishes, JobEnds, JobRefused, JobFails, fts
<1> QED BY <1>1, <1>2, <1>3

(* The pod is gone when the rule is added, and comes back after the test.  *)
LEMMA DownMoves ==
  ASSUME Inv, [Next]_vars, test = "down"
  PROVE  /\ pc' \in {"add", "ban", "run", "loop", "read"} => pod' = "down"
         /\ pc' \in {"stop", "wait", "add", "ban", "run", "loop", "read"} =>
              pc \in {"stop", "wait", "add", "ban", "run", "loop", "read"}
<1> DEFINE Started == {"add", "ban", "run", "loop", "read"}
           Moves == /\ pc' \in Started => pod' = "down"
                    /\ pc' \in Started \cup {"stop", "wait"} => pc \in Started \cup {"stop", "wait"}
<1>p. pc \in Started => pod = "down"
  BY DEF Inv, DownSound
<1>1. ASSUME NEW daemon, Turn(daemon) PROVE Moves
  BY <1>p, <1>1, TurnMoves DEF Inv, source
<1>2. CASE Evaluates \/ Submits \/ Polls \/ Idles \/ Finishes
  BY <1>1, <1>2 DEF Evaluates, Submits, Polls, Idles, Finishes
<1>3. CASE ReadRule
  BY <1>p, <1>3, ReadMoves DEF Inv, source, ReadRule
<1>4. CASE Stop \/ Waited \/ AddRule \/ Ban \/ Goes
  BY <1>p, <1>4 DEF Stop, Waited, AddRule, Ban, Goes, source
<1>5. CASE StopFails \/ ExecFails \/ ClientFails \/ TimesOut
  BY <1>5 DEF StopFails, ExecFails, ClientFails, TimesOut, End
<1>8. CASE RuleMissing
  BY <1>p, <1>8, MissingMoves DEF Inv, source
<1>6. CASE NoFixture \/ Restore \/ Start \/ Ready \/ FixtureFails
  BY <1>6 DEF NoFixture, Restore, Start, Ready, FixtureFails
<1>7. CASE Clock \/ PodGone \/ PodReady \/ FtsStep \/ UNCHANGED vars
  BY <1>p, <1>7 DEF Clock, PodGone, PodReady, FtsStep, JobEnds, JobFinishes, JobRefused, JobFails,
              vars, driver, source
<1> QED
  BY <1>2, <1>3, <1>4, <1>5, <1>6, <1>7, <1>8 DEF Next, Driver, Daemons

(* So the test of a stopped source never sees OK, and when it passes no    *)
(* job is left that could write the file later.                            *)
LEMMA DownStep ==
  ASSUME Inv, [Next]_vars
  PROVE  DownSound' /\ DownNeverOk'
<1>t. test' = test /\ Files' = Files
  BY TestKeeps, LocksKeep DEF Inv
<1> SUFFICES ASSUME test = "down"
             PROVE  /\ pc' \in {"add", "ban", "run", "loop", "read"} => pod' = "down"
                    /\ pc' \in {"stop", "wait", "add", "ban", "run", "loop", "read"} => stored' = {}
                    /\ verdict' = "passed" => \A f \in Files : job'[f] # "active"
                    /\ verdict' # "ok" /\ (verdict' = "passed" => stored' = {})
  BY <1>t DEF DownSound, DownNeverOk
<1>m. /\ pc' \in {"add", "ban", "run", "loop", "read"} => pod' = "down"
      /\ pc' \in {"stop", "wait", "add", "ban", "run", "loop", "read"} =>
           pc \in {"stop", "wait", "add", "ban", "run", "loop", "read"}
  BY DownMoves
<1>n. pc' \in {"stop", "wait", "add", "ban", "run", "loop", "read"} => stored' = {}
  BY <1>m, NoTransfer
<1>1. CASE verdict # "none"
  <2>1. verdict' = verdict
    BY <1>1, AfterVerdict DEF Inv
  <2>2. ASSUME verdict = "passed"
        PROVE  stored' = {} /\ \A f \in Files : job'[f] # "active"
    <3>1. stored = {} /\ \A f \in Files : job[f] # "active"
      BY <2>2 DEF Inv, DownSound, DownNeverOk
    <3>2. UNCHANGED <<job, stored>>
      BY <1>1, <3>1, AfterVerdict DEF Inv, JobEnds, JobFinishes, JobRefused, JobFails
    <3> QED BY <3>1, <3>2
  <2>3. verdict # "ok"
    BY DEF Inv, DownNeverOk
  <2> QED BY <1>m, <1>n, <2>1, <2>2, <2>3
<1>2. CASE verdict = "none"
  <2>1. CASE verdict' = "none"
    BY <1>m, <1>n, <2>1
  <2>2. CASE verdict' \in {"error", "timeout"}
    BY <1>m, <1>n, <2>2
  <2>3. CASE ReadRule
    <3>1. pc = "read" /\ UNCHANGED <<job, stored>>
      BY <2>3 DEF ReadRule, fts
    <3>2. stored = {}
      BY <3>1 DEF Inv, DownSound
    <3>3. verdict' # "ok"
      BY <1>2, <2>3, <3>2, Passes DEF Inv, RuleSound
    <3>4. ASSUME verdict' = "passed", NEW f \in Files PROVE job[f] # "active"
      <4>1. PICK g \in Files : lock[g] = "STUCK"
        BY <1>2, <2>3, <3>4, Passes DEF Inv
      <4>2. f = g
        BY DEF Inv, PhaseSound
      <4> QED BY <4>1, <4>2 DEF Inv, RuleSound
    <3> QED BY <1>m, <1>n, <3>1, <3>2, <3>3, <3>4
  <2> QED BY <1>2, <2>1, <2>2, <2>3, Verdicts DEF Inv
<1> QED BY <1>1, <1>2

----------------------------------------------------------------------------
(* Every step keeps the invariant,                                         *)
LEMMA InvStep == Inv /\ [Next]_vars => Inv'
BY TypeStep, RuleStep, PhaseStep, ChecksumStep, StoredStep, FailedStep, DownStep DEF Inv

(* so it holds in every reachable state.                                   *)
LEMMA InvCorrect == Spec => []Inv
BY InvInit, InvStep, PTL DEF Spec

(* The state of the tests keeps its types, for any files and retries: what *)
(* is at the destination FTS was given, and that is of the rule.           *)
THEOREM TestsTypeCorrect == Spec => []TypeOK
<1>1. Inv => TypeOK
  BY DEF Inv
<1> QED BY <1>1, InvCorrect, PTL

(* validate_rule, and the loop of the test of an expiring rule: a transfer *)
(* test that passes has all files of its rule at the destination, whatever *)
(* FTS and the daemons did in between.                                     *)
THEOREM StoredCorrect == Spec => []PassMeansStored
<1>1. Inv => PassMeansStored
  BY DEF Inv
<1> QED BY <1>1, InvCorrect, PTL

(* The checksum test passes only when FTS had a job for the file and ended *)
(* it without success.                                                     *)
THEOREM FailedCorrect == Spec => []PassMeansFailed
<1>1. Inv => PassMeansFailed
  BY DEF Inv
<1> QED BY <1>1, InvCorrect, PTL

(* The test of an unreachable source never sees a transfer succeed, and is *)
(* not contradicted after it passed, when svc_start runs the source again. *)
THEOREM DownCorrect == Spec => []DownNeverOk
<1>1. Inv => DownNeverOk
  BY DEF Inv
<1> QED BY <1>1, InvCorrect, PTL

(* The test of an unavailable source passes only when FTS never had a job, *)
(* though the submitter may not have heard of the change.  It needs a      *)
(* retry: without one the finisher would settle a file that was sent and   *)
(* failed, as STUCK, the state the test takes for success.                 *)
THEOREM NotSentCorrect ==
  ASSUME MaxRetry # 0
  PROVE  Spec => []PassMeansNotSent
<1> DEFINE SentInv == Inv /\ UnavailableSound /\ PassMeansNotSent
<1>1. Init => UnavailableSound /\ PassMeansNotSent
  BY DEF Init, UnavailableSound, PassMeansNotSent
<1>2. SentInv /\ [Next]_vars => SentInv'
  <2> SUFFICES ASSUME SentInv, [Next]_vars PROVE SentInv'
    OBVIOUS
  <2>1. Inv'
    BY InvStep
  <2>2. UnavailableSound'
    BY UnavailableStep DEF Inv
  <2>3. PassMeansNotSent'
    BY NotSentStep
  <2> QED BY <2>1, <2>2, <2>3
<1>3. Init => SentInv
  BY <1>1, InvInit
<1>4. SentInv => PassMeansNotSent
  OBVIOUS
<1> QED BY <1>2, <1>3, <1>4, PTL DEF Spec

=============================================================================
