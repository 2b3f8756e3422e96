---------------------------- MODULE TransferTests ----------------------------
(***************************************************************************)
(* The transfer tests (src/shared/tests/test-rucio-*.py) and the helpers   *)
(* of testbed.py: a test prepares a source, adds a replication rule, and   *)
(* runs the Rucio daemons itself, once per turn, until the rule shows what *)
(* the test waits for, or its deadline passes.  No daemon runs otherwise,  *)
(* but FTS and the pods of the storage go on at their own pace.            *)
(*                                                                         *)
(* The code is the tests and testbed.py.  Rucio's daemons, FTS, the        *)
(* container runtime and the rule are external, modelled as far as the     *)
(* tests depend on them: a daemon run once is one step.                    *)
(***************************************************************************)
EXTENDS Naturals, Sequences, FiniteSets

CONSTANTS
  File,     (* the files of a rule: a dataset may have several               *)
  MaxRetry  (* retry_count: how often the finisher queues a request again    *)

ASSUME TransferTestsAssumption ==
  /\ File # {} /\ IsFiniteSet(File)
  /\ MaxRetry \in Nat

VARIABLES
  test,     (* which test runs                                               *)
  runtime,  (* RUNTIME                                                       *)
  pc,       (* where the test is                                             *)
  todo,     (* the daemons left to run in this turn                          *)
  late,     (* the deadline has passed                                       *)
  verdict,  (* how the test ended                                            *)
  logged,   (* its teardown logged an error                                  *)
  readable, (* availability_read of the source                               *)
  pod,      (* the container or pod of the source storage                    *)
  service,  (* its name resolves: on k8s, the Service exists                 *)
  lock,     (* per file of the rule: locks_ok, _replicating, _stuck          *)
  req,      (* per file: its live request, if any                            *)
  job,      (* per file: the FTS job of that request                         *)
  sent,     (* the files FTS was ever given                                  *)
  stored    (* the files that are at the destination                         *)

driver == <<pc, todo, verdict, logged>>
source == <<readable, pod, service>>
rucio == <<lock, req>>
fts == <<job, sent, stored>>
vars == <<test, runtime, late, driver, source, rucio, fts>>

Test == {"transfer", "expiry", "checksum", "unavailable", "down"}
Daemon == {"evaluator", "submitter", "poller", "finisher"}
Pc == {"stop", "wait", "add", "ban", "run", "loop", "read", "teardown", "ready", "over"}
Verdict == {"passed", "stuck", "ok", "undispatched", "dispatched", "timeout", "error"}
Request == [state : {"NONE", "QUEUED", "SUBMITTED", "DONE", "FAILED", "NO_SOURCES"},
            previous : BOOLEAN, retries : 0 .. MaxRetry]
JobState == {"none", "active", "finished", "failed", "refused"}
Unsuccessful == {"failed", "refused"}

Files == DOMAIN lock   \* the files of the rule
NoRequest == [state |-> "NONE", previous |-> FALSE, retries |-> 0]

(* Reading the source works while its server runs: a pod being deleted     *)
(* still serves traffic.                                                    *)
Reachable == pod \in {"up", "terminating"} /\ service

Locks(s) == Cardinality({f \in Files : lock[f] = s})

------------------------------------------------------------------------------
(* run_daemons, and what validate_rule and the test of an unavailable      *)
(* source run between two looks at the rule.                               *)
RunDaemons == <<"evaluator", "submitter", "poller", "finisher">>
(* Mutants: all the daemons; no finisher. *)
AdvanceTransferFull == RunDaemons
AdvanceTransferUnfinished == <<"poller">>
AdvanceTransfer == <<"poller", "finisher">>

(* The test is over, but for its fixtures. *)
End(v) == pc' = "teardown" /\ verdict' = v /\ UNCHANGED logged

Init ==
  /\ test \in Test /\ runtime \in {"compose", "k8s"}
  /\ pc = IF test = "down" THEN "stop" ELSE "add"
  /\ todo = <<>> /\ late = FALSE /\ verdict = "none" /\ logged = FALSE
  /\ readable = TRUE /\ pod = "up" /\ service = TRUE
  /\ \E fs \in SUBSET File \ {{}} :
       /\ test = "transfer" \/ Cardinality(fs) = 1
       /\ lock = [f \in fs |-> "NONE"]
       /\ req = [f \in fs |-> NoRequest]
       /\ job = [f \in fs |-> "none"]
  /\ sent = {} /\ stored = {}

(* svc_stop: docker stop returns when the container is gone; on k8s the    *)
(* deployment is scaled down, and the pod goes later.                      *)
Stop ==
  /\ pc = "stop"
  /\ \/ runtime = "compose" /\ pod' = "down" /\ pc' = "add"
     \/ runtime = "k8s" /\ pod' = "terminating" /\ pc' = "wait"
  /\ UNCHANGED <<test, runtime, todo, late, verdict, logged, readable, service, rucio, fts>>

(* Mutant: scaled down is taken for gone. *)
WaitedNot ==
  /\ pc = "wait"
  /\ service' \in BOOLEAN
  /\ pc' = "add"
  /\ UNCHANGED <<test, runtime, todo, late, verdict, logged, readable, pod, rucio, fts>>

(* _wait_for_pod_deleted, then the Service is deleted, if that is allowed. *)
Waited ==
  /\ pc = "wait" /\ pod = "down"
  /\ service' \in BOOLEAN
  /\ pc' = "add"
  /\ UNCHANGED <<test, runtime, todo, late, verdict, logged, readable, pod, rucio, fts>>

(* kubectl or docker fails, or the pod is still there after all retries.   *)
StopFails ==
  /\ pc = "stop" \/ (pc = "wait" /\ pod # "down")
  /\ End("error")
  /\ UNCHANGED <<test, runtime, todo, late, source, rucio, fts>>

(* add_replication_rule: a lock and a queued request for each file. *)
AddRule ==
  /\ pc = "add"
  /\ lock' = [f \in Files |-> "REPLICATING"]
  /\ req' = [f \in Files |-> [NoRequest EXCEPT !.state = "QUEUED"]]
  /\ pc' = CASE test = "unavailable" -> "ban" [] test = "down" -> "loop" [] OTHER -> "run"
  /\ todo' = IF pc' = "run" THEN RunDaemons ELSE <<>>
  /\ UNCHANGED <<test, runtime, late, verdict, logged, source, fts>>

(* Reading from the source RSE is forbidden. *)
Ban ==
  /\ pc = "ban"
  /\ readable' = FALSE /\ pc' = "run" /\ todo' = RunDaemons
  /\ UNCHANGED <<test, runtime, late, verdict, logged, pod, service, rucio, fts>>

------------------------------------------------------------------------------
(* The daemons.  A turn runs the next one; after the last, the test of an  *)
(* unreachable source and that of a checksum read the rule at once.        *)
Turn(daemon) ==
  /\ pc = "run" /\ todo # <<>> /\ Head(todo) = daemon
  /\ todo' = Tail(todo)
  /\ pc' = IF todo' # <<>> THEN "run" ELSE IF test \in {"down", "checksum"} THEN "read" ELSE "loop"
  /\ UNCHANGED <<test, runtime, late, verdict, logged, source>>

(* The evaluator finds nothing: the rule was evaluated when it was added.  *)
Evaluates == Turn("evaluator") /\ UNCHANGED <<rucio, fts>>

(* A request without a readable source goes nowhere, any other one to FTS. *)
(* Whether the submitter has heard of the change of the RSE is open.       *)
Submits ==
  /\ Turn("submitter")
  /\ \E heard \in BOOLEAN :
       LET queued == {f \in Files : req[f].state = "QUEUED"}
           given == IF readable \/ ~heard THEN queued ELSE {} IN
       /\ req' = [f \in Files |-> IF f \notin queued THEN req[f]
                    ELSE [req[f] EXCEPT !.state = IF f \in given THEN "SUBMITTED" ELSE "NO_SOURCES"]]
       /\ job' = [f \in Files |-> IF f \in given THEN "active" ELSE job[f]]
       /\ sent' = sent \cup given
  /\ UNCHANGED <<lock, stored>>

(* The poller copies the state of every job that is final. *)
Polls ==
  /\ Turn("poller")
  /\ req' = [f \in Files |->
       IF req[f].state = "SUBMITTED" /\ job[f] \in {"finished"} \cup Unsuccessful
       THEN [req[f] EXCEPT !.state = IF job[f] = "finished" THEN "DONE" ELSE "FAILED"]
       ELSE req[f]]
  /\ UNCHANGED <<lock, fts>>

(* FTS does not answer the submitter or the poller. *)
Idles == (Turn("submitter") \/ Turn("poller")) /\ UNCHANGED <<rucio, fts>>

(* The finisher settles the lock and archives the request, or queues a new *)
(* one in its place while retries are left.                                *)
Retries(f) == req[f].state = "FAILED" /\ req[f].retries < MaxRetry
Finishes ==
  /\ Turn("finisher")
  /\ lock' = [f \in Files |->
       IF req[f].state = "DONE" THEN "OK"
       ELSE IF req[f].state \in {"FAILED", "NO_SOURCES"} /\ ~Retries(f) THEN "STUCK"
       ELSE lock[f]]
  /\ req' = [f \in Files |->
       IF Retries(f) THEN [state |-> "QUEUED", previous |-> TRUE, retries |-> req[f].retries + 1]
       ELSE IF req[f].state \in {"DONE", "FAILED", "NO_SOURCES"} THEN NoRequest
       ELSE req[f]]
  /\ UNCHANGED fts

(* svc_exec raises when the command of a daemon fails. *)
ExecFails ==
  /\ pc = "run"
  /\ End("error")
  /\ UNCHANGED <<test, runtime, todo, late, source, rucio, fts>>

(* A call of the Rucio client raises, and the test does not catch it.  What *)
(* it may have done is nobody's business any more: no daemon runs again.   *)
ClientFails ==
  /\ pc \in {"add", "ban", "read"}
  /\ End("error")
  /\ UNCHANGED <<test, runtime, todo, late, source, rucio, fts>>

------------------------------------------------------------------------------
(* The loops: the deadline is looked at before each turn.  The test of an  *)
(* unreachable source runs all the daemons before it reads the rule.       *)
TimesOut ==
  /\ pc = "loop" /\ late
  /\ End("timeout")
  /\ UNCHANGED <<test, runtime, todo, late, source, rucio, fts>>

Goes ==
  /\ pc = "loop" /\ ~late
  /\ pc' = IF test = "down" THEN "run" ELSE "read"
  /\ todo' = IF test = "down" THEN RunDaemons ELSE <<>>
  /\ UNCHANGED <<test, runtime, late, verdict, logged, source, rucio, fts>>

Another(daemons) == pc' = "run" /\ todo' = daemons /\ UNCHANGED <<verdict, logged>>
Ends(v) == End(v) /\ UNCHANGED todo

(* Mutant: one file is enough. *)
SettledOnce == Locks("OK") >= 1
Settled == Locks("OK") >= 1 /\ Locks("REPLICATING") = 0

ValidateRule ==
  \/ Locks("STUCK") > 0 /\ Ends("stuck")
  \/ Locks("STUCK") = 0 /\ Settled /\ Ends("passed")
  \/ Locks("STUCK") = 0 /\ ~Settled /\ Another(AdvanceTransfer)

(* Mutant: the loop of validate_rule. *)
ExpiryTestAdvances ==
  \/ Locks("STUCK") > 0 /\ Ends("stuck")
  \/ Locks("STUCK") = 0 /\ Settled /\ Ends("passed")
  \/ Locks("STUCK") = 0 /\ ~Settled /\ Another(AdvanceTransfer)

(* As validate_rule, but every turn runs all the daemons. *)
ExpiryTest ==
  \/ Locks("STUCK") > 0 /\ Ends("stuck")
  \/ Locks("STUCK") = 0 /\ Settled /\ Ends("passed")
  \/ Locks("STUCK") = 0 /\ ~Settled /\ Another(RunDaemons)

(* Mutant: the negative property alone. *)
ChecksumTestNegative == Ends(IF Locks("OK") > 0 THEN "ok" ELSE "passed")

(* _get_request: live requests only, and none when the server fails.       *)
GetRequest(f) == {req[f], NoRequest}

(* No loop: the rule and the request are read once.  A new request in the  *)
(* place of the first proves that the first one failed, in some way.       *)
ChecksumTest ==
  \/ Locks("OK") > 0 /\ Ends("ok")
  \/ /\ Locks("OK") = 0
     /\ \E f \in Files : \E r \in GetRequest(f) :
          Ends(IF r.previous THEN "passed" ELSE "undispatched")

(* A request that was archived has no external_id to complain about.       *)
UnavailableTest ==
  \/ Locks("OK") > 0 /\ Ends("ok")
  \/ /\ Locks("OK") = 0 /\ Locks("STUCK") > 0
     /\ \E f \in Files : \E r \in GetRequest(f) :
          Ends(IF r.state = "SUBMITTED" THEN "dispatched" ELSE "passed")
  \/ Locks("OK") = 0 /\ Locks("STUCK") = 0 /\ Another(AdvanceTransfer)

(* A rule not settled yet: the loop starts again with a look at the clock. *)
DownTest ==
  \/ Locks("OK") > 0 /\ Ends("ok")
  \/ Locks("OK") = 0 /\ Locks("STUCK") > 0 /\ Ends("passed")
  \/ Locks("OK") = 0 /\ Locks("STUCK") = 0 /\ pc' = "loop" /\ UNCHANGED <<todo, verdict, logged>>

ReadRule ==
  /\ pc = "read"
  /\ CASE test = "transfer"    -> ValidateRule
       [] test = "expiry"      -> ExpiryTest
       [] test = "checksum"    -> ChecksumTest
       [] test = "unavailable" -> UnavailableTest
       [] test = "down"        -> DownTest
  /\ UNCHANGED <<test, runtime, late, source, rucio, fts>>

(* RuleNotFound: the loops that expect it sleep and look at the clock, the  *)
(* other two tests fail.                                                    *)
RuleMissing ==
  /\ pc = "read"
  /\ IF test \in {"transfer", "expiry", "unavailable"}
     THEN pc' = "loop" /\ UNCHANGED <<todo, verdict, logged>>
     ELSE Ends("error")
  /\ UNCHANGED <<test, runtime, late, source, rucio, fts>>

------------------------------------------------------------------------------
(* The fixtures after the test: xrd1_readable, xrd1_running (svc_start).   *)
NoFixture ==
  /\ pc = "teardown" /\ test \notin {"unavailable", "down"}
  /\ pc' = "over"
  /\ UNCHANGED <<test, runtime, todo, late, verdict, logged, source, rucio, fts>>

Restore ==
  /\ pc = "teardown" /\ test = "unavailable"
  /\ readable' = TRUE /\ pc' = "over"
  /\ UNCHANGED <<test, runtime, todo, late, verdict, logged, pod, service, rucio, fts>>

(* Mutant: the Service stays deleted. *)
StartScales ==
  /\ pc = "teardown" /\ test = "down"
  /\ pod' = IF pod = "up" THEN "up" ELSE "starting"
  /\ pc' = IF runtime = "k8s" THEN "ready" ELSE "over"
  /\ UNCHANGED <<test, runtime, todo, late, verdict, logged, readable, service, rucio, fts>>

(* On k8s the Service is made again before the deployment is scaled up.    *)
Start ==
  /\ pc = "teardown" /\ test = "down"
  /\ pod' = IF pod = "up" THEN "up" ELSE "starting"
  /\ service' = TRUE
  /\ pc' = IF runtime = "k8s" THEN "ready" ELSE "over"
  /\ UNCHANGED <<test, runtime, todo, late, verdict, logged, readable, rucio, fts>>

(* _wait_for_replicas *)
Ready ==
  /\ pc = "ready" /\ pod = "up"
  /\ pc' = "over"
  /\ UNCHANGED <<test, runtime, todo, late, verdict, logged, source, rucio, fts>>

(* Whatever fails in a fixture is logged, and forgotten. *)
FixtureFails ==
  /\ \/ pc = "teardown" /\ test \in {"unavailable", "down"}
     \/ pc = "ready" /\ pod # "up"
  /\ pc' = "over" /\ logged' = TRUE
  /\ UNCHANGED <<test, runtime, todo, late, verdict, source, rucio, fts>>

------------------------------------------------------------------------------
(* The world: the clock, the pods, and FTS. *)
Clock == ~late /\ late' = TRUE /\ UNCHANGED <<test, runtime, driver, source, rucio, fts>>

PodGone ==
  /\ pod = "terminating" /\ pod' = "down"
  /\ UNCHANGED <<test, runtime, late, driver, readable, service, rucio, fts>>

PodReady ==
  /\ pod = "starting" /\ pod' = "up"
  /\ UNCHANGED <<test, runtime, late, driver, readable, service, rucio, fts>>

(* FTS compares the checksum of the source with the one of the request: in *)
(* the test of a wrong checksum no job finishes.                           *)
JobFinishes(f) ==
  /\ job[f] = "active" /\ Reachable /\ test # "checksum"
  /\ job' = [job EXCEPT ![f] = "finished"]
  /\ stored' = stored \cup {f}
  /\ UNCHANGED <<test, runtime, late, driver, source, rucio, sent>>

JobRefused(f) ==
  /\ job[f] = "active" /\ Reachable /\ test = "checksum"
  /\ job' = [job EXCEPT ![f] = "refused"]
  /\ UNCHANGED <<test, runtime, late, driver, source, rucio, sent, stored>>

(* Any other failure: of the source, the destination, the network, FTS.    *)
JobFails(f) ==
  /\ job[f] = "active"
  /\ job' = [job EXCEPT ![f] = "failed"]
  /\ UNCHANGED <<test, runtime, late, driver, source, rucio, sent, stored>>

Daemons == Evaluates \/ Submits \/ Polls \/ Idles \/ Finishes
Driver ==
  \/ Stop \/ Waited \/ StopFails \/ AddRule \/ Ban
  \/ Daemons \/ ExecFails \/ ClientFails \/ TimesOut \/ Goes \/ ReadRule \/ RuleMissing
  \/ NoFixture \/ Restore \/ Start \/ Ready \/ FixtureFails
JobEnds(f) == JobFinishes(f) \/ JobRefused(f) \/ JobFails(f)
FtsStep == \E f \in Files : JobEnds(f)

Next == Driver \/ Clock \/ PodGone \/ PodReady \/ FtsStep

Spec == Init /\ [][Next]_vars

(* The test is a process that runs, FTS ends every job, pods do what they  *)
(* are told, FTS does not leave the daemons without answer for ever, nor   *)
(* does Rucio say for ever that a rule it has is not there.                *)
(* Nothing is assumed of the clock: a deadline may be as far as it likes.  *)
FairSpec ==
  /\ Spec
  /\ WF_vars(Driver)
  /\ SF_vars(Submits) /\ SF_vars(Polls) /\ SF_vars(ReadRule)
  /\ WF_vars(PodGone) /\ WF_vars(PodReady)
  /\ \A f \in File : WF_vars(f \in Files /\ JobEnds(f))

------------------------------------------------------------------------------
TypeOK ==
  /\ test \in Test /\ runtime \in {"compose", "k8s"} /\ pc \in Pc
  /\ todo \in {<<>>, <<"finisher">>} \cup {SubSeq(RunDaemons, i, 4) : i \in 1 .. 3}
  /\ late \in BOOLEAN /\ logged \in BOOLEAN /\ verdict \in Verdict \cup {"none"}
  /\ readable \in BOOLEAN /\ service \in BOOLEAN
  /\ pod \in {"up", "terminating", "down", "starting"}
  /\ Files \in SUBSET File \ {{}}
  /\ lock \in [Files -> {"NONE", "REPLICATING", "OK", "STUCK"}]
  /\ req \in [Files -> Request]
  /\ job \in [Files -> JobState]
  /\ stored \subseteq sent /\ sent \subseteq Files

(* A transfer test passes only when every file of its rule, be it a        *)
(* dataset, is at the destination (validate_rule, test_add_dataset).       *)
PassMeansStored ==
  (verdict = "passed" /\ test \in {"transfer", "expiry"}) => stored = Files

(* The checksum test passes only when FTS had a job for the file and ended *)
(* it without success: where dispatch is broken, the test does not pass.   *)
PassMeansFailed ==
  (verdict = "passed" /\ test = "checksum") => \A f \in Files : job[f] \in Unsuccessful

(* The test of an unavailable source passes only when FTS never had a job, *)
(* although its assertion on external_id does not see archived requests,   *)
(* and the submitter may not have heard of the change of the RSE.          *)
PassMeansNotSent ==
  (verdict = "passed" /\ test = "unavailable") => sent = {}

(* With the source stopped no transfer succeeds, even on k8s, where a      *)
(* pod that is being deleted still serves traffic (svc_stop), and a test   *)
(* that passed is not contradicted when the source runs again.             *)
DownNeverOk ==
  test = "down" => verdict # "ok" /\ (verdict = "passed" => stored = {})

(* After the test the source is readable and runs again, however the test  *)
(* ended, unless the teardown logged an error: the next test of the        *)
(* session needs it (the fixtures xrd1_readable and xrd1_running).         *)
SourceRestored ==
  pc = "over" ~> (Reachable /\ readable /\ pod = "up") \/ logged

(* Once all files are at the destination a transfer test passes, unless    *)
(* its deadline passes or a command fails: poller and finisher suffice.    *)
StoredPasses ==
  (test = "transfer" /\ stored = Files) ~> verdict \in {"passed", "timeout", "error"}

(* The tests that run all the daemons in every turn come to an end without *)
(* their deadlines: a request that failed is submitted again, until its    *)
(* retries are used up.                                                    *)
EndsByItself ==
  test \in {"down", "expiry"} ~> pc = "over"

------------------------------------------------------------------------------
(* What the texts of the repository say and the code does not do.          *)

(* The mechanism that the docstring of the checksum test says it asserts   *)
(* (test-rucio-checksum-mismatch.py:135-140): the transfer was rejected on *)
(* checksum.  The code looks for a failed attempt, whatever made it fail.  *)
PassMeansRefused ==
  (verdict = "passed" /\ test = "checksum") => \A f \in Files : job[f] = "refused"

==============================================================================
