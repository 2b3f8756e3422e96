--------------------------- MODULE ConveyorProofs ---------------------------
(***************************************************************************)
(* The invariant of ConveyorInvariant holds, part by part.  With it, what  *)
(* the runs of Conveyor check on small instances holds for any             *)
(* destinations, on disk or tape, for one or more sources, for a path or   *)
(* not, for any number of attempts and jobs, and under every option.       *)
(***************************************************************************)
EXTENDS ConveyorInvariant

(* The files of a job after a step.                                        *)
LEMMA FilesKeep ==
  ASSUME TypeOK, TypeOK', PostSound, [Next]_vars, NEW id \in Id, Accepted(id)
  PROVE  /\ Accepted(id)'
         /\ DOMAIN job[id].files = 1 .. Len(job[id].files)
         /\ DOMAIN job'[id].files = DOMAIN job[id].files
         /\ Len(job'[id].files) = Len(job[id].files)
         /\ \A i \in DOMAIN job[id].files :
              /\ job'[id].files[i].row = job[id].files[i].row
              /\ job[id].files[i].state \in {"FAILED", "CANCELED", "FINISHED"} \/ Over(id) =>
                   job'[id].files[i] = job[id].files[i]
<1>1. Keeps(id)
  BY JobsKeep
<1>2. job'[id] \in [files : Seq(File), overwrite : BOOLEAN]
  BY DEF TypeOK
<1>3. DOMAIN job'[id].files = 1 .. Len(job'[id].files)
  BY <1>2, JobShape
<1> QED BY <1>1, <1>3, FilesType DEF Keeps

(* What a job says of a request it never takes back.                       *)
LEMMA SaysKeeps ==
  ASSUME TypeOK, TypeOK', OneAttempt, PostSound, [Next]_vars,
         NEW id \in Id, NEW r \in Row, NEW verdict \in Verdict,
         Recorded(id), Says(id, r, verdict)
  PROVE  Says(id, r, verdict)'
<1>1. SaysDone(id, r) => SaysDone(id, r)'
  <2> SUFFICES ASSUME SaysDone(id, r) PROVE SaysDone(id, r)'
    OBVIOUS
  <2>1. PICK i \in DOMAIN job[id].files :
          /\ job[id].files[i].row = r
          /\ \/ job[id].files[i].state = "FINISHED"
             \/ /\ job[id].files[i].state = "FAILED" /\ Decides(id, i)
                /\ Recoverable(job[id].files[i].found, Tape(r))
    BY DEF SaysDone
  <2>2. Accepted(id)
    BY <2>1, FilesType DEF Accepted
  <2>3. /\ i \in DOMAIN job'[id].files /\ Len(job'[id].files) = Len(job[id].files)
        /\ job'[id].files[i] = job[id].files[i]
    BY <2>1, <2>2, FilesKeep
  <2> QED BY <2>1, <2>3 DEF SaysDone, Decides
<1>2. SaysFailed(id, r) => SaysFailed(id, r)'
  <2> SUFFICES ASSUME SaysFailed(id, r) PROVE SaysFailed(id, r)'
    OBVIOUS
  <2>1. Accepted(id)
    BY FilesType DEF SaysFailed, Accepted
  <2>2. /\ DOMAIN job'[id].files = DOMAIN job[id].files
        /\ Len(job'[id].files) = Len(job[id].files)
        /\ \A i \in DOMAIN job[id].files :
             /\ job'[id].files[i].row = job[id].files[i].row
             /\ job[id].files[i].state \in {"FAILED", "CANCELED", "FINISHED"} \/ Over(id) =>
                  job'[id].files[i] = job[id].files[i]
    BY <2>1, FilesKeep
  <2>3. \A i \in DOMAIN job[id].files : job[id].files[i].row = r =>
          job'[id].files[i] = job[id].files[i]
    BY <2>2 DEF SaysFailed
  <2>4. Over(id) => Over(id)'
    BY <2>2 DEF Over
  <2>5. ~SaysDone(id, r)'
    BY <2>2, <2>3 DEF SaysFailed, SaysDone, Decides
  <2> QED BY <2>2, <2>3, <2>4, <2>5 DEF SaysFailed
<1>3. ~Accepted(id) => ~Accepted(id)'
  BY LostKeeps
<1>4. CASE verdict = "DONE"
  BY <1>1, <1>4 DEF Says
<1>5. CASE verdict = "FAILED"
  BY <1>2, <1>5 DEF Says
<1>6. CASE verdict = "LOST"
  BY <1>3, <1>6 DEF Says
<1> QED BY <1>4, <1>5, <1>6 DEF Verdict

(* A corrupted file that was found stays found.                            *)
LEMMA FoundKeeps ==
  ASSUME TypeOK, TypeOK', PostSound, JobsSound, [Next]_vars, NEW d, FoundCorrupted(d)
  PROVE  FoundCorrupted(d)'
<1>1. PICK id \in Id : \E i \in DOMAIN job[id].files :
         job[id].files[i].row[1] = d /\ Corrupted(job[id].files[i].found)
  BY DEF FoundCorrupted
<1>2. PICK i \in DOMAIN job[id].files :
         job[id].files[i].row[1] = d /\ Corrupted(job[id].files[i].found)
  BY <1>1
<1>3. Accepted(id)
  BY <1>2, FilesType DEF Accepted
<1>4. job[id].files[i].state = "FAILED"
  BY <1>2 DEF JobsSound, JobSound, Corrupted
<1>5. i \in DOMAIN job'[id].files /\ job'[id].files[i] = job[id].files[i]
  BY <1>2, <1>3, <1>4, FilesKeep
<1> QED BY <1>2, <1>5 DEF FoundCorrupted

----------------------------------------------------------------------------
(* A report says what the job of the request says. *)

(* The verdict the receiver makes of a message is what the job says.       *)
LEMMA MessageSays ==
  ASSUME TypeOK, JobsSound, MailSound, NEW m \in mail,
         MessageVerdict(m, Tape(m.row)) # "none"
  PROVE  /\ Says(m.id, m.row, MessageVerdict(m, Tape(m.row)))
         /\ AsksOverwrite(MessageVerdict(m, Tape(m.row)), m.found) => FoundCorrupted(m.row[1])
<1> DEFINE files == job[m.id].files
           verdict == MessageVerdict(m, Tape(m.row))
<1>0. m.id \in Id /\ m.row \in Row /\ m.final \in {"Ok", "Error"}
  BY DEF TypeOK, Message
<1>1. PICK i \in DOMAIN files :
        /\ files[i].row = m.row
        /\ m.final = "Ok" /\ ~m.archiving => files[i].state = "FINISHED"
        /\ m.final = "Error" =>
             files[i].state = "FAILED" /\ Decides(m.id, i) /\ files[i].found = m.found
  BY DEF MailSound
<1>2. Len(files) \in Nat /\ DOMAIN files = 1 .. Len(files)
  BY <1>0, FilesType
<1>j. \A j, k \in DOMAIN files :
        /\ ~MultiSources /\ files[j].row[1] = files[k].row[1] => j = k
        /\ MultiSources =>
             /\ files[j].row = files[k].row
             /\ j < k /\ files[k].state # "NOT_USED" => files[j].state = "FAILED"
  BY <1>0 DEF JobsSound, JobSound
<1>3. CASE m.final = "Ok"
  <2>1. ~m.archiving /\ verdict = "DONE"
    BY <1>3 DEF MessageVerdict
  <2>2. SaysDone(m.id, m.row)
    BY <1>1, <1>3, <2>1 DEF SaysDone
  <2> QED BY <2>1, <2>2 DEF Says, AsksOverwrite
<1>4. CASE m.final = "Error"
  <2>1. verdict = IF Recoverable(m.found, Tape(m.row)) THEN "DONE" ELSE "FAILED"
    BY <1>4 DEF MessageVerdict, VerdictOfError
  <2>2. CASE Recoverable(m.found, Tape(m.row))
    <3>1. verdict = "DONE"
      BY <2>1, <2>2
    <3>2. SaysDone(m.id, m.row)
      BY <1>1, <1>4, <2>2 DEF SaysDone
    <3> QED BY <3>1, <3>2 DEF Says, AsksOverwrite
  <2>3. CASE ~Recoverable(m.found, Tape(m.row))
    <3>0. verdict = "FAILED"
      BY <2>1, <2>3
    <3>1. \A k \in DOMAIN files : files[k].row = m.row =>
            /\ files[k].state = "FAILED"
            /\ Decides(m.id, k) => k = i
      <4>1. CASE MultiSources
        <5>1. i = Len(files)
          BY <1>1, <1>4, <4>1 DEF Decides
        <5>2. \A k \in DOMAIN files : k = i \/ k < i
          BY <5>1, <1>2
        <5> QED BY <1>1, <1>4, <1>j, <4>1, <5>1, <5>2 DEF Decides
      <4>2. CASE ~MultiSources
        BY <1>1, <1>4, <1>j, <4>2
      <4> QED BY <4>1, <4>2
    <3>2. ~SaysDone(m.id, m.row)
      BY <1>1, <1>4, <2>3, <3>1 DEF SaysDone
    <3>3. SaysFailed(m.id, m.row)
      BY <1>1, <3>1, <3>2 DEF SaysFailed
    <3>4. AsksOverwrite(verdict, m.found) => FoundCorrupted(m.row[1])
      BY <1>0, <1>1, <1>4 DEF AsksOverwrite, FoundCorrupted
    <3> QED BY <3>0, <3>3, <3>4 DEF Says
  <2> QED BY <2>2, <2>3
<1> QED BY <1>0, <1>3, <1>4

(* A job is final when FTS is done with all its files. *)
LEMMA JobStateOver ==
  ASSUME NEW id, NEW multi \in BOOLEAN
  PROVE  /\ JobState(job[id].files, multi) \in FINAL_FTS_JOB_STATES <=> Over(id)
         /\ JobState(job[id].files, multi) = "FINISHED" /\ ~multi =>
              \A i \in DOMAIN job[id].files : job[id].files[i].state = "FINISHED"
<1> DEFINE states == {job[id].files[i].state : i \in DOMAIN job[id].files}
<1>1. states \cap {"SUBMITTED", "ACTIVE", "ARCHIVING"} # {} <=> ~Over(id)
  BY DEF Over, Pending
<1>2. JobState(job[id].files, multi) =
        IF states \cap {"SUBMITTED", "ACTIVE", "ARCHIVING"} # {} THEN "ACTIVE"
        ELSE IF "CANCELED" \in states THEN "CANCELED"
        ELSE IF states = {"FINISHED"} THEN "FINISHED"
        ELSE IF "FINISHED" \notin states THEN "FAILED"
        ELSE IF multi THEN "FINISHED" ELSE "FINISHEDDIRTY"
  BY DEF JobState
<1>3. \A i \in DOMAIN job[id].files : job[id].files[i].state \in states
  OBVIOUS
<1> HIDE DEF states
<1>4. CASE Over(id)
  BY <1>1, <1>2, <1>3, <1>4 DEF FINAL_FTS_JOB_STATES
<1>5. CASE ~Over(id)
  BY <1>1, <1>2, <1>5 DEF FINAL_FTS_JOB_STATES
<1> QED BY <1>4, <1>5

(* So is the verdict the poller makes of an answer for a job FTS has,      *)
LEMMA FileReportsSay ==
  ASSUME TypeOK, JobsSound, NEW r \in Row, NEW id \in Id, NEW report \in FileReports(r, id)
  PROVE  /\ Says(id, r, report.verdict)
         /\ report.overwrite => FoundCorrupted(r[1])
<1> DEFINE files == job[id].files
           js == JobState(files, MultiSources)
<1>0. Len(files) \in Nat /\ DOMAIN files = 1 .. Len(files)
      /\ \A k \in 1 .. Len(files) : files[k].state \in FileState
  BY FilesType
<1>1. PICK i \in Responses(files, MultiSources) :
        /\ files[i].row = r
        /\ ApiVerdict(files[i], js, MultiSources, Tape(r)) # "none"
        /\ report = ReportOf(r, id, ApiVerdict(files[i], js, MultiSources, Tape(r)), files[i].found)
  BY DEF FileReports
<1> DEFINE verdict == ApiVerdict(files[i], js, MultiSources, Tape(r))
<1>2. /\ report.verdict = verdict
      /\ report.overwrite => verdict = "FAILED" /\ Corrupted(files[i].found)
  BY <1>1 DEF ReportOf, AsksOverwrite
<1>3. i \in DOMAIN files
  BY <1>1 DEF Responses, Reported
<1>j. \A j, k \in DOMAIN files :
        /\ ~MultiSources /\ files[j].row[1] = files[k].row[1] => j = k
        /\ MultiSources =>
             /\ files[j].row = files[k].row
             /\ j < k /\ files[k].state # "NOT_USED" => files[j].state = "FAILED"
             /\ k = j + 1 /\ files[j].state = "FAILED" => files[k].state # "NOT_USED"
  BY DEF JobsSound, JobSound
<1>4. js \in FINAL_FTS_JOB_STATES <=> Over(id)
  BY JobStateOver, Constants
<1>5. MultiSources =>
        /\ Over(id) /\ files[i].state # "NOT_USED"
        /\ \A k \in DOMAIN files : k > i => files[k].state = "NOT_USED"
        /\ \A k \in DOMAIN files : k < i => files[k].state = "FAILED"
        /\ files[i].state = "FAILED" => i = Len(files)
  <2> SUFFICES ASSUME MultiSources
               PROVE  /\ Over(id) /\ files[i].state # "NOT_USED"
                      /\ \A k \in DOMAIN files : k > i => files[k].state = "NOT_USED"
                      /\ \A k \in DOMAIN files : k < i => files[k].state = "FAILED"
                      /\ files[i].state = "FAILED" => i = Len(files)
    OBVIOUS
  <2>1. MultiSources = TRUE
    BY Constants
  <2>2. /\ JobState(files, TRUE) \in FINAL_FTS_JOB_STATES /\ files[i].state # "NOT_USED"
        /\ \A k \in 1 .. i - 1 : files[k].state # "FINISHED"
    BY <1>1, <2>1 DEF Responses, Reported
  <2>3. Over(id)
    BY <1>4, <2>1, <2>2
  <2>4. \A k \in DOMAIN files : k < i => files[k].state = "FAILED"
    BY <1>3, <1>j, <2>2
  <2>5. \A k \in DOMAIN files : k > i => files[k].state = "NOT_USED"
    <3> SUFFICES ASSUME NEW k \in DOMAIN files, k > i, files[k].state # "NOT_USED" PROVE FALSE
      OBVIOUS
    <3>1. \A j \in 1 .. k - 1 : j \in DOMAIN files /\ files[j].state = "FAILED"
      BY <1>0, <1>j
    <3>2. k \in Reported(files, MultiSources)
      BY <2>2, <3>1 DEF Reported
    <3>3. files[k].row = files[i].row
      BY <1>3, <1>j
    <3>4. k <= i
      BY <1>1, <3>2, <3>3 DEF Responses
    <3> QED BY <1>0, <1>3, <3>4
  <2>6. files[i].state = "FAILED" => i = Len(files)
    <3> SUFFICES ASSUME files[i].state = "FAILED", i # Len(files) PROVE FALSE
      OBVIOUS
    <3>1. i + 1 \in DOMAIN files /\ i + 1 > i
      BY <1>0, <1>3
    <3> QED BY <1>3, <1>j, <2>5, <3>1
  <2> QED BY <2>2, <2>3, <2>4, <2>5, <2>6
<1>6. CASE verdict = "DONE"
  <2>1. CASE files[i].state = "FINISHED"
    <3>1. SaysDone(id, r)
      BY <1>1, <1>3, <2>1 DEF SaysDone
    <3> QED BY <1>2, <1>6, <3>1 DEF Says
  <2>2. CASE files[i].state = "FAILED"
    <3>1. Recoverable(files[i].found, Tape(r))
      BY <1>6, <2>2 DEF ApiVerdict, VerdictOfError
    <3>2. Decides(id, i)
      BY <1>5, <2>2 DEF Decides
    <3>3. SaysDone(id, r)
      BY <1>1, <1>3, <2>2, <3>1, <3>2 DEF SaysDone
    <3> QED BY <1>2, <1>6, <3>3 DEF Says
  <2>3. CASE files[i].state = "NOT_USED"
    <3>1. ~MultiSources /\ js = "FINISHED"
      BY <1>5, <1>6, <2>3 DEF ApiVerdict
    <3>2. MultiSources \in BOOLEAN
      BY Constants
    <3>3. files[i].state = "FINISHED"
      BY <1>3, <3>1, <3>2, JobStateOver
    <3> QED BY <2>3, <3>3
  <2> QED BY <1>6, <2>1, <2>2, <2>3 DEF ApiVerdict
<1>7. CASE verdict = "FAILED"
  <2>1. /\ files[i].state \in {"FAILED", "CANCELED", "NOT_USED"}
        /\ files[i].state = "NOT_USED" => Over(id)
        /\ files[i].state = "FAILED" => ~Recoverable(files[i].found, Tape(r))
    BY <1>4, <1>7 DEF ApiVerdict, VerdictOfError
  <2>2. \A k \in DOMAIN files : files[k].row = r =>
          k = i \/ (MultiSources /\ k < i /\ files[k].state = "FAILED")
                \/ (MultiSources /\ k > i /\ files[k].state = "NOT_USED")
    BY <1>0, <1>1, <1>3, <1>5, <1>j
  <2>3. ~SaysDone(id, r)
    BY <1>0, <1>3, <2>1, <2>2 DEF SaysDone, Decides
  <2>4. SaysFailed(id, r)
    BY <1>1, <1>3, <1>5, <2>1, <2>2, <2>3 DEF SaysFailed
  <2>5. Corrupted(files[i].found) => FoundCorrupted(r[1])
    BY <1>1, <1>3 DEF FoundCorrupted
  <2> QED BY <1>2, <1>7, <2>4, <2>5 DEF Says
<1>8. verdict \in {"DONE", "FAILED"}
  BY <1>1 DEF ApiVerdict, VerdictOfError
<1> QED BY <1>6, <1>7, <1>8

(* or does not have.                                                       *)
LEMMA ReportsSay ==
  ASSUME TypeOK, JobsSound, NEW r \in Row, NEW id \in Id, NEW report \in ReportsOn(r, id)
  PROVE  /\ Says(id, r, report.verdict)
         /\ report.overwrite => FoundCorrupted(r[1])
<1>1. CASE Accepted(id)
  BY <1>1, FileReportsSay DEF ReportsOn
<1>2. CASE ~Accepted(id)
  <2>1. report = ReportOf(r, id, "LOST", "none")
    BY <1>2 DEF ReportsOn
  <2> QED BY <1>2, <2>1 DEF ReportOf, AsksOverwrite, Says
<1> QED BY <1>1, <1>2

----------------------------------------------------------------------------
(* How a request changes: it is recorded as submitted, it gets a verdict   *)
(* that its own job gives, or it makes way for another attempt.            *)

Records(id) ==
  /\ sub.pc = "posted" /\ id = sub.id
  /\ sub.answer = "accepted" \/ Deterministic
  /\ Record(sub.rows, id) /\ sub' = Idle
  /\ UNCHANGED <<job, dst, mail, poll>>

Decided(report) ==
  /\ Applies(report.row, report)
  /\ Says(report.id, report.row, report.verdict)
  /\ report.overwrite => FoundCorrupted(report.row[1])
  /\ request' = [request EXCEPT ![report.row] =
       [state |-> report.verdict, eid |-> report.id,
        overwrite |-> request[report.row].overwrite \/ report.overwrite]]
  /\ UNCHANGED <<job, dst, mail, sub>>

(* Every step that changes a request is one of the three.                  *)
LEMMA RequestStep ==
  ASSUME TypeOK, PostSound, JobsSound, MailSound, PollSound, [Next]_vars
  PROVE  \/ UNCHANGED request
         \/ \E id \in Id : Records(id)
         \/ \E report \in Report : Decided(report)
         \/ \E r \in Row : Requeue(r)
<1>1. CASE Answered
  <2>1. sub.id \in Id
    BY <1>1 DEF Answered, PostSound
  <2>2. Records(sub.id)
    BY <1>1 DEF Answered, Records
  <2> QED BY <2>1, <2>2
<1>2. CASE Unanswered
  <2>1. CASE sub.expected # NoId
    <3>1. sub.expected = sub.id /\ sub.id \in Id /\ Deterministic
      BY <1>2, <2>1 DEF Unanswered, PostSound
    <3>2. Records(sub.id)
      BY <1>2, <2>1, <3>1 DEF Unanswered, Records
    <3> QED BY <3>1, <3>2
  <2> QED BY <1>2, <2>1 DEF Unanswered
<1>3. ASSUME NEW m \in mail, Receive(m) PROVE \E report \in Report : Decided(report)
  <2> DEFINE verdict == MessageVerdict(m, Tape(m.row))
             report == ReportOf(m.row, m.id, verdict, m.found)
  <2>1. m.row \in Row /\ m.id \in Id
    BY DEF TypeOK, Message
  <2>2. /\ verdict # "none" /\ Applies(m.row, report) /\ Update(m.row, report)
        /\ UNCHANGED <<job, dst, mail, sub, poll>>
    BY <1>3 DEF Receive
  <2>3. verdict \in Verdict
    BY <2>2, VerdictType
  <2>4. /\ report \in Report /\ report.row = m.row /\ report.id = m.id /\ report.verdict = verdict
        /\ report.overwrite => AsksOverwrite(verdict, m.found)
    BY <2>1, <2>3, ReportType DEF ReportOf
  <2>5. /\ Says(m.id, m.row, verdict)
        /\ AsksOverwrite(verdict, m.found) => FoundCorrupted(m.row[1])
    BY <2>2, MessageSays
  <2> HIDE DEF verdict, report
  <2>6. Decided(report)
    BY <2>2, <2>4, <2>5 DEF Decided, Update, SetRequest
  <2> QED BY <2>4, <2>6
<1>4. CASE PollApplies
  <2>1. PICK report \in poll.reports : Update(report.row, report)
    BY <1>4 DEF PollApplies
  <2>2. report \in Report
    BY DEF TypeOK
  <2>3. CASE Applies(report.row, report)
    <3>1. Decided(report)
      BY <1>4, <2>1, <2>3 DEF PollApplies, PollSound, ReportSound, Decided, Update, SetRequest
    <3> QED BY <2>2, <3>1
  <2> QED BY <2>1, <2>3 DEF Update
<1>5. ASSUME NEW id \in Id, FtsMoves(id) PROVE UNCHANGED request
  BY <1>5, FtsStep
<1> QED
  BY <1>1, <1>2, <1>3, <1>4, <1>5
  DEF Next, vars, Submit, FtsAccepts, FtsRefuses, TimesOut, Cancelled, Migrates,
      PollReads, PollAnswered, PollEnds, PollFails

(* Shapes of these steps. *)
LEMMA DecidedShape ==
  ASSUME TypeOK, OneAttempt, NEW report \in Report, Decided(report)
  PROVE  /\ report.row \in Row /\ report.id \in Id /\ report.verdict \in Verdict
         /\ request[report.row].state \notin {"GONE", "QUEUED", report.verdict}
         /\ request[report.row].eid = report.id
         /\ request'[report.row].state = report.verdict
         /\ request'[report.row].eid = report.id
         /\ request'[report.row].overwrite = (request[report.row].overwrite \/ report.overwrite)
         /\ \A r \in Row : r # report.row => request'[r] = request[r]
<1>1. report.row \in Row /\ report.id \in Id /\ report.verdict \in Verdict
  BY DEF Report
<1>2. request[report.row].state \notin {"GONE", report.verdict} /\ request[report.row].eid = report.id
  BY DEF Decided, Applies
<1>3. request[report.row].state # "QUEUED"
  BY <1>1, <1>2, Constants DEF OneAttempt
<1>4. request' = [request EXCEPT ![report.row] =
       [state |-> report.verdict, eid |-> report.id,
        overwrite |-> request[report.row].overwrite \/ report.overwrite]]
  BY DEF Decided
<1> QED BY <1>1, <1>2, <1>3, <1>4 DEF TypeOK

LEMMA RequeueShape ==
  ASSUME TypeOK, OneAttempt, NEW r \in Row, Requeue(r)
  PROVE  /\ r[1] \in Dest /\ r[2] \in Nat /\ r[2] + 1 \in Attempt /\ <<r[1], r[2] + 1>> \in Row
         /\ r = <<r[1], r[2]>> /\ r[2] \in Attempt /\ <<r[1], r[2] + 1>> # r
         /\ request[r].state \in {"FAILED", "LOST"}
         /\ request[<<r[1], r[2] + 1>>].state = "GONE"
         /\ request[<<r[1], r[2] + 1>>].eid = NoId
         /\ request'[r].state = "GONE" /\ request'[r].eid = request[r].eid
         /\ request'[r].overwrite = request[r].overwrite
         /\ request'[<<r[1], r[2] + 1>>] =
              [state |-> "QUEUED", eid |-> NoId, overwrite |-> request[r].overwrite]
         /\ \A q \in Row : q # r /\ q # <<r[1], r[2] + 1>> => request'[q] = request[q]
<1> DEFINE next == <<r[1], r[2] + 1>>
<1>1. r[1] \in Dest /\ r[2] \in Nat /\ r[2] \in Attempt /\ r = <<r[1], r[2]>>
  BY Constants
<1>2. r[2] + 1 \in Attempt /\ r[2] < r[2] + 1 /\ r[2] # r[2] + 1
  BY <1>1, ConveyorAssumption DEF Requeue, Attempt
<1>3. next \in Row /\ next # r
  BY <1>1, <1>2, Constants
<1>4. request[r].state \in {"FAILED", "LOST"}
  BY DEF Requeue
<1>5. request[next].state = "GONE" /\ request[next].eid = NoId
  BY <1>1, <1>2, <1>4 DEF OneAttempt
<1>6. request' = [request EXCEPT
         ![r] = [state |-> "GONE", eid |-> request[r].eid, overwrite |-> request[r].overwrite],
         ![next] = [state |-> "QUEUED", eid |-> NoId, overwrite |-> request[r].overwrite]]
  BY DEF Requeue
<1> HIDE DEF next
<1>7. /\ request'[r] = [state |-> "GONE", eid |-> request[r].eid, overwrite |-> request[r].overwrite]
      /\ request'[next] = [state |-> "QUEUED", eid |-> NoId, overwrite |-> request[r].overwrite]
      /\ \A q \in Row : q # r /\ q # next => request'[q] = request[q]
  BY <1>3, <1>6 DEF TypeOK
<1> QED BY <1>1, <1>2, <1>3, <1>4, <1>5, <1>7 DEF next

LEMMA RecordsShape ==
  ASSUME TypeOK, PostSound, NEW id \in Id, Records(id)
  PROVE  /\ \A i \in DOMAIN sub.rows : request[sub.rows[i]].state = "QUEUED"
         /\ \A r \in Row :
              \/ request'[r] = request[r] /\ ~\E i \in DOMAIN sub.rows : sub.rows[i] = r
              \/ /\ \E i \in DOMAIN sub.rows : sub.rows[i] = r
                 /\ request[r].state = "QUEUED"
                 /\ request'[r].state = "SUBMITTED"
                 /\ request'[r].eid = id
                 /\ request'[r].overwrite = request[r].overwrite
<1>1. Record(sub.rows, id) /\ \A i \in DOMAIN sub.rows : request[sub.rows[i]].state = "QUEUED"
  BY DEF Records, PostSound
<1> QED BY <1>1 DEF Record

----------------------------------------------------------------------------
(* Each part of the invariant is kept. *)

LEMMA OneAttemptStep ==
  ASSUME Inv, [Next]_vars
  PROVE  OneAttempt'
<1> USE DEF Inv
<1>1. ASSUME \A q \in Row :
               /\ request'[q].state = "GONE" <=> request[q].state = "GONE"
               /\ request[q].state = "GONE" => request'[q] = request[q]
               /\ request'[q].state # "GONE" =>
                    (request'[q].eid = NoId <=> request'[q].state = "QUEUED")
      PROVE  OneAttempt'
  <2>1. \A d \in Dest : \E a \in Attempt : request'[<<d, a>>].state # "GONE"
    BY <1>1, Constants DEF OneAttempt
  <2>2. \A d \in Dest : \A a, b \in Attempt :
          request'[<<d, a>>].state # "GONE" /\ request'[<<d, b>>].state # "GONE" => a = b
    BY <1>1, Constants DEF OneAttempt
  <2>3. \A d \in Dest : \A a, b \in Attempt :
          request'[<<d, a>>].state # "GONE" /\ a < b => request'[<<d, b>>].eid = NoId
    <3> SUFFICES ASSUME NEW d \in Dest, NEW a \in Attempt, NEW b \in Attempt,
                        request'[<<d, a>>].state # "GONE", a < b
                 PROVE  request'[<<d, b>>].eid = NoId
      OBVIOUS
    <3>1. request[<<d, a>>].state # "GONE" /\ request[<<d, b>>].eid = NoId /\ a # b
      BY <1>1, Constants, ConveyorAssumption DEF OneAttempt, Attempt
    <3>2. request[<<d, b>>].state = "GONE"
      BY <3>1 DEF OneAttempt
    <3> QED BY <1>1, <3>1, <3>2, Constants
  <2> QED BY <1>1, <2>1, <2>2, <2>3 DEF OneAttempt
<1>2. CASE UNCHANGED request
  BY <1>1, <1>2 DEF OneAttempt
<1>3. ASSUME NEW id \in Id, Records(id) PROVE OneAttempt'
  <2>1. id # NoId
    BY Constants
  <2> QED BY <1>1, <1>3, <2>1, RecordsShape DEF OneAttempt
<1>4. ASSUME NEW report \in Report, Decided(report) PROVE OneAttempt'
  <2>1. report.id \in Id /\ report.verdict \in Verdict /\ report.id # NoId
    BY Constants DEF Report
  <2>2. report.verdict \notin {"GONE", "QUEUED"}
    BY <2>1 DEF Verdict
  <2> QED BY <1>1, <1>4, <2>1, <2>2, DecidedShape DEF OneAttempt
<1>5. ASSUME NEW r \in Row, Requeue(r) PROVE OneAttempt'
  <2> DEFINE d == r[1]
             next == <<r[1], r[2] + 1>>
  <2>0. /\ request[r].state \in {"FAILED", "LOST"}
        /\ request'[next] = [state |-> "QUEUED", eid |-> NoId, overwrite |-> request[r].overwrite]
    BY <1>5, RequeueShape
  <2>n. request[r].state # "GONE" /\ request'[next].state = "QUEUED" /\ request'[next].eid = NoId
    BY <2>0
  <2>1. /\ d \in Dest /\ r[2] \in Attempt /\ r[2] + 1 \in Attempt /\ r = <<d, r[2]>>
        /\ next \in Row /\ next # r /\ r[2] \in Nat
        /\ request[r].state # "GONE" /\ request'[r].state = "GONE"
        /\ request'[next].state = "QUEUED" /\ request'[next].eid = NoId
        /\ \A q \in Row : q # r /\ q # next => request'[q] = request[q]
    BY <1>5, <2>n, RequeueShape
  <2>2. ASSUME NEW a \in Attempt, request'[<<d, a>>].state # "GONE" PROVE a = r[2] + 1
    <3>1. <<d, a>> # r
      BY <2>1, <2>2
    <3>2. CASE <<d, a>> # next
      <4>1. request[<<d, a>>].state # "GONE"
        BY <2>1, <2>2, <3>1, <3>2, Constants
      <4>2. a = r[2]
        BY <2>1, <4>1 DEF OneAttempt
      <4> QED BY <2>1, <3>1, <4>2
    <3> QED BY <3>2
  <2>3. ASSUME NEW e \in Dest, e # d, NEW a \in Attempt
        PROVE  request'[<<e, a>>] = request[<<e, a>>]
    <3>1. <<e, a>> # r /\ <<e, a>> # next /\ <<e, a>> \in Row
      BY <2>1, <2>3, Constants
    <3> QED BY <2>1, <3>1
  <2>4. ASSUME NEW b \in Attempt, r[2] + 1 < b PROVE request'[<<d, b>>].eid = NoId
    <3>1. r[2] < b /\ b # r[2] /\ b # r[2] + 1
      BY <2>1, <2>4, ConveyorAssumption DEF Attempt
    <3>2. <<d, b>> # r /\ <<d, b>> # next /\ <<d, b>> \in Row
      BY <2>1, <3>1, Constants
    <3>3. request[<<d, b>>].eid = NoId
      BY <2>1, <3>1 DEF OneAttempt
    <3> QED BY <2>1, <3>2, <3>3
  <2>5. ASSUME NEW q \in Row, request'[q].state # "GONE"
        PROVE  request'[q].eid = NoId <=> request'[q].state = "QUEUED"
    BY <2>1, <2>5 DEF OneAttempt
  <2>6. \A e \in Dest : \E a \in Attempt : request'[<<e, a>>].state # "GONE"
    <3> SUFFICES ASSUME NEW e \in Dest PROVE \E a \in Attempt : request'[<<e, a>>].state # "GONE"
      OBVIOUS
    <3>1. CASE e = d
      BY <2>1, <3>1
    <3>2. CASE e # d
      BY <2>3, <3>2 DEF OneAttempt
    <3> QED BY <3>1, <3>2
  <2>7. \A e \in Dest : \A a, b \in Attempt :
          request'[<<e, a>>].state # "GONE" /\ request'[<<e, b>>].state # "GONE" => a = b
    BY <2>2, <2>3 DEF OneAttempt
  <2>8. \A e \in Dest : \A a, b \in Attempt :
          request'[<<e, a>>].state # "GONE" /\ a < b => request'[<<e, b>>].eid = NoId
    BY <2>2, <2>3, <2>4 DEF OneAttempt
  <2> HIDE DEF d, next
  <2> QED BY <2>5, <2>6, <2>7, <2>8 DEF OneAttempt
<1> QED BY <1>2, <1>3, <1>4, <1>5, RequestStep

(* The rows of a post stay queued until the post is over. *)
LEMMA QueuedKeep ==
  ASSUME Inv, [Next]_vars, NEW r \in Row, request[r].state = "QUEUED"
  PROVE  \/ request'[r] = request[r]
         \/ sub' = Idle /\ \E i \in DOMAIN sub.rows : sub.rows[i] = r
<1> USE DEF Inv
<1>1. ASSUME NEW id \in Id, Records(id)
      PROVE  \/ request'[r] = request[r]
             \/ sub' = Idle /\ \E i \in DOMAIN sub.rows : sub.rows[i] = r
  BY <1>1, RecordsShape DEF Records
<1>2. ASSUME NEW report \in Report, Decided(report) PROVE request'[r] = request[r]
  <2>1. r # report.row
    BY <1>2, DecidedShape
  <2> QED BY <1>2, <2>1, DecidedShape
<1>3. ASSUME NEW q \in Row, Requeue(q) PROVE request'[r] = request[r]
  <2>1. r # q /\ r # <<q[1], q[2] + 1>>
    BY <1>3, RequeueShape
  <2> QED BY <1>3, <2>1, RequeueShape
<1> QED BY <1>1, <1>2, <1>3, RequestStep

LEMMA PostStep ==
  ASSUME Inv, TypeOK', [Next]_vars
  PROVE  PostSound'
<1> USE DEF Inv
<1>1. ASSUME NEW group \in Groups, Submit(group) PROVE PostSound'
  <2>1. PICK id \in Id :
          /\ Deterministic => id = group.rows[1]
          /\ \E expected \in IF Deterministic THEN {id, NoId} ELSE {NoId} :
               sub' = [pc |-> "posted", rows |-> group.rows, overwrite |-> group.overwrite,
                       id |-> id, expected |-> expected, answer |-> "none"]
    BY <1>1 DEF Submit
  <2>2. PICK expected \in IF Deterministic THEN {id, NoId} ELSE {NoId} :
           sub' = [pc |-> "posted", rows |-> group.rows, overwrite |-> group.overwrite,
                   id |-> id, expected |-> expected, answer |-> "none"]
    BY <2>1
  <2>3. /\ group.rows \in Seq(Row) /\ Len(group.rows) \in Nat \ {0}
        /\ \A i \in 1 .. Len(group.rows) : request[group.rows[i]].state = "QUEUED"
        /\ Ascending(group.rows)
        /\ Len(group.rows) <= GroupBulk /\ (MultiSources => Len(group.rows) = 1)
    BY GroupShape
  <2>4. group.rows # <<>> /\ DOMAIN group.rows = 1 .. Len(group.rows)
    BY <2>3, EmptySeq
  <2>5. /\ sub'.rows = group.rows /\ sub'.id = id /\ sub'.expected = expected
        /\ sub'.answer = "none"
    BY <2>2
  <2>6. request' = request
    BY <1>1 DEF Submit
  <2>7. /\ expected \in {id, NoId} /\ (~Deterministic => expected = NoId)
    OBVIOUS
  <2>8. Ascending(sub'.rows)
    BY <2>3, <2>5
  <2> QED BY <2>1, <2>3, <2>4, <2>5, <2>6, <2>7, <2>8 DEF PostSound, Ascending
<1>2. CASE sub' = Idle
  BY <1>2 DEF Idle, PostSound
<1>3. ASSUME sub' # Idle, sub'.pc = sub.pc, sub'.rows = sub.rows, sub'.id = sub.id,
             sub'.expected = sub.expected,
             sub'.answer = "accepted" => sub.answer = "accepted" \/ Accepted(sub.id)'
      PROVE  PostSound'
  <2> SUFFICES ASSUME sub.pc = "posted" PROVE PostSound'
    BY <1>3 DEF PostSound
  <2>1. \A i \in DOMAIN sub.rows : request'[sub.rows[i]].state = "QUEUED"
    <3> SUFFICES ASSUME NEW i \in DOMAIN sub.rows PROVE request'[sub.rows[i]].state = "QUEUED"
      OBVIOUS
    <3>1. sub.rows[i] \in Row /\ request[sub.rows[i]].state = "QUEUED"
      BY DEF PostSound, TypeOK
    <3> QED BY <1>3, <3>1, QueuedKeep
  <2>2. sub'.answer = "accepted" => Accepted(sub.id)'
    BY <1>3, FilesKeep DEF PostSound
  <2> QED BY <1>3, <2>1, <2>2 DEF PostSound, Accepted, Ascending
<1>4. CASE FtsAccepts
  <2>1. sub.rows # <<>> /\ sub.id \in Id /\ sub.rows \in Seq(Row)
    BY <1>4 DEF FtsAccepts, PostSound, TypeOK
  <2>2. Accepted(sub.id)'
    BY <1>4, <2>1, NewFilesShape DEF FtsAccepts, Accepted, TypeOK
  <2>3. sub' = [sub EXCEPT !.answer = "accepted"]
    BY <1>4 DEF FtsAccepts
  <2> QED BY <1>2, <1>3, <2>2, <2>3 DEF TypeOK
<1>5. CASE FtsRefuses
  BY <1>2, <1>3, <1>5 DEF FtsRefuses, TypeOK
<1>6. CASE sub' = sub
  BY <1>2, <1>3, <1>6
<1>7. ASSUME NEW id \in Id, FtsMoves(id) PROVE sub' = sub
  BY <1>7, FtsStep
<1> QED
  BY <1>1, <1>2, <1>4, <1>5, <1>6, <1>7
  DEF Next, vars, Answered, TimesOut, Unanswered, Cancelled, Migrates, Receive,
      PollReads, PollAnswered, PollApplies, PollEnds, PollFails, Requeue

(* A move keeps the files of a job in order.                               *)
LEMMA AdvanceSound ==
  ASSUME NEW files \in Seq(File), JobSound(files), NEW i \in 1 .. Len(files),
         files[i].state \in Pending,
         NEW state \in {"ACTIVE", "ARCHIVING", "FINISHED", "FAILED"}, NEW found \in Found,
         found # "none" => state = "FAILED"
  PROVE  JobSound(Advance(files, i, state, found))
<1> DEFINE moved == Advance(files, i, state, found)
<1>0. Len(files) \in Nat /\ DOMAIN files = 1 .. Len(files)
  OBVIOUS
<1>1. moved \in Seq(File) /\ Len(moved) = Len(files)
      /\ \A k \in 1 .. Len(files) :
           /\ moved[k] = Advanced(files, i, state, found, k)
           /\ Advanced(files, i, state, found, k).row = files[k].row
  <2>1. state \in FileState
    BY DEF FileState
  <2> QED BY <2>1, AdvanceShape
<1>2. DOMAIN moved = 1 .. Len(files)
  BY <1>1
<1>3. \A k \in 1 .. Len(files) : moved[k].row = files[k].row
  BY <1>1
<1>4. moved[i].state = state /\ moved[i].found = found
  <2>1. moved[i] = [row |-> files[i].row, state |-> state, found |-> found]
    BY <1>1 DEF Advanced
  <2> QED BY <2>1
<1>5. \A k \in 1 .. Len(files) : k # i =>
        \/ moved[k] = files[k] /\ ~(MultiSources /\ state = "FAILED" /\ k = i + 1
                                      /\ files[k].state = "NOT_USED")
        \/ /\ k = i + 1 /\ files[k].state = "NOT_USED" /\ (MultiSources => state = "FAILED")
           /\ moved[k].state = "SUBMITTED" /\ moved[k].found = "none"
  <2> SUFFICES ASSUME NEW k \in 1 .. Len(files), k # i
               PROVE  \/ moved[k] = files[k] /\ ~(MultiSources /\ state = "FAILED" /\ k = i + 1
                                                    /\ files[k].state = "NOT_USED")
                      \/ /\ k = i + 1 /\ files[k].state = "NOT_USED"
                         /\ (MultiSources => state = "FAILED")
                         /\ moved[k].state = "SUBMITTED" /\ moved[k].found = "none"
    OBVIOUS
  <2> DEFINE turn == /\ k = i + 1 /\ files[k].state = "NOT_USED"
                     /\ \/ MultiSources /\ state = "FAILED"
                        \/ Hops(files) /\ state = "FINISHED"
  <2>1. MultiSources => ~Hops(files)
    BY Constants DEF Hops
  <2>2. CASE turn
    <3>1. moved[k] = [row |-> files[k].row, state |-> "SUBMITTED", found |-> "none"]
      BY <1>1, <2>2 DEF Advanced
    <3> QED BY <2>1, <2>2, <3>1
  <2>3. CASE ~turn
    BY <1>1, <2>3 DEF Advanced
  <2> QED BY <2>2, <2>3
<1> HIDE DEF moved
<1>6. files[i].state \notin {"NOT_USED", "FAILED"}
  BY DEF Pending
<1> SUFFICES ASSUME NEW a \in 1 .. Len(files), NEW b \in 1 .. Len(files)
             PROVE  /\ moved[a].found # "none" => moved[a].state = "FAILED"
                    /\ ~MultiSources /\ moved[a].row[1] = moved[b].row[1] => a = b
                    /\ MultiSources =>
                         /\ moved[a].row = moved[b].row
                         /\ a < b /\ moved[b].state # "NOT_USED" => moved[a].state = "FAILED"
                         /\ b = a + 1 /\ moved[a].state = "FAILED" => moved[b].state # "NOT_USED"
  BY <1>2 DEF JobSound, moved
<1>7. /\ \A k, l \in 1 .. Len(files) :
           /\ files[k].found # "none" => files[k].state = "FAILED"
           /\ ~MultiSources /\ files[k].row[1] = files[l].row[1] => k = l
           /\ MultiSources =>
                /\ files[k].row = files[l].row
                /\ k < l /\ files[l].state # "NOT_USED" => files[k].state = "FAILED"
                /\ l = k + 1 /\ files[k].state = "FAILED" => files[l].state # "NOT_USED"
  BY <1>0 DEF JobSound
<1>8. moved[a].found # "none" => moved[a].state = "FAILED"
  BY <1>4, <1>5, <1>7
<1>9. ~MultiSources /\ moved[a].row[1] = moved[b].row[1] => a = b
  BY <1>3, <1>7
<1>10. ASSUME MultiSources, a < b, moved[b].state # "NOT_USED" PROVE moved[a].state = "FAILED"
  <2>1. CASE files[b].state # "NOT_USED"
    <3>1. files[a].state = "FAILED"
      BY <1>7, <1>10, <2>1
    <3> QED BY <1>5, <1>6, <3>1
  <2>2. CASE files[b].state = "NOT_USED"
    <3>1. b # i /\ b = i + 1 /\ state = "FAILED"
      BY <1>5, <1>6, <1>10, <2>2
    <3>2. a = i \/ (a < i /\ a # i + 1)
      BY <1>10, <3>1
    <3>3. CASE a < i
      <4>1. files[a].state = "FAILED"
        BY <1>6, <1>7, <1>10, <3>3
      <4> QED BY <1>5, <1>6, <4>1
    <3> QED BY <1>4, <3>1, <3>2, <3>3
  <2> QED BY <2>1, <2>2
<1>11. ASSUME MultiSources, b = a + 1, moved[a].state = "FAILED" PROVE moved[b].state # "NOT_USED"
  <2>1. CASE a = i
    <3>1. state = "FAILED" /\ b # i
      BY <1>4, <1>11, <2>1
    <3> QED BY <1>5, <1>11, <2>1, <3>1
  <2>2. CASE a # i
    <3>1. files[a].state = "FAILED"
      BY <1>5, <1>11, <2>2
    <3>2. files[b].state # "NOT_USED"
      BY <1>7, <1>11, <3>1
    <3> QED BY <1>4, <1>5, <3>2
  <2> QED BY <2>1, <2>2
<1> QED BY <1>3, <1>7, <1>8, <1>9, <1>10, <1>11

LEMMA JobsStep ==
  ASSUME Inv, [Next]_vars
  PROVE  JobsSound'
<1> USE DEF Inv
<1>1. ASSUME NEW id \in Id, NEW files, job' = [job EXCEPT ![id] = [files |-> files,
                                                 overwrite |-> job'[id].overwrite]],
             JobSound(files)
      PROVE  JobsSound'
  <2>1. job'[id].files = files /\ \A j \in Id : j # id => job'[j] = job[j]
    BY <1>1 DEF TypeOK
  <2> QED BY <1>1, <2>1 DEF JobsSound
<1>2. CASE FtsAccepts
  <2>1. /\ sub.rows \in Seq(Row) /\ sub.rows # <<>> /\ sub.id \in Id /\ Ascending(sub.rows)
        /\ DOMAIN sub.rows = 1 .. Len(sub.rows)
    BY <1>2 DEF FtsAccepts, PostSound, TypeOK
  <2> DEFINE files == NewFiles(sub.rows)
  <2>2. /\ Len(files) = IF MultiSources THEN NSources ELSE Len(sub.rows)
        /\ DOMAIN files = 1 .. Len(files)
        /\ \A i \in 1 .. Len(files) :
             /\ files[i].row = IF MultiSources THEN sub.rows[1] ELSE sub.rows[i]
             /\ files[i].state \in {"SUBMITTED", "NOT_USED"}
             /\ i > 1 /\ MultiSources => files[i].state = "NOT_USED"
             /\ files[i].found = "none"
    BY <2>1, NewFilesShape
  <2>3. job' = [job EXCEPT ![sub.id] = [files |-> files, overwrite |-> sub.overwrite]]
    BY <1>2 DEF FtsAccepts
  <2>4. job'[sub.id].overwrite = sub.overwrite
    BY <2>1, <2>3 DEF TypeOK
  <2> HIDE DEF files
  <2>5. ASSUME ~MultiSources, NEW i \in 1 .. Len(files), NEW k \in 1 .. Len(files),
               files[i].row[1] = files[k].row[1]
        PROVE  i = k
    <3>1. i \in DOMAIN sub.rows /\ k \in DOMAIN sub.rows
          /\ files[i].row = sub.rows[i] /\ files[k].row = sub.rows[k]
      BY <2>1, <2>2, <2>5
    <3>2. Len(sub.rows) \in Nat
      BY <2>1
    <3>3. sub.rows[i] \in Row /\ sub.rows[k] \in Row
      BY <2>1, <3>1, ElementOfSeq
    <3>4. sub.rows[i][1] \in Nat /\ sub.rows[k][1] \in Nat /\ sub.rows[i][1] = sub.rows[k][1]
      BY <2>5, <3>1, <3>3, Constants
    <3>5. ~(i < k) /\ ~(k < i)
      <4>1. \A m \in DOMAIN sub.rows : \A l \in 1 .. m - 1 : sub.rows[l][1] < sub.rows[m][1]
        BY <2>1 DEF Ascending
      <4> QED BY <2>1, <3>1, <3>2, <3>4, <4>1
    <3> QED BY <2>1, <3>1, <3>2, <3>5
  <2>6. ASSUME MultiSources, NEW i \in 1 .. Len(files), NEW k \in 1 .. Len(files)
        PROVE  files[i].row = files[k].row
    BY <2>2, <2>6
  <2>7. ASSUME MultiSources, NEW i \in 1 .. Len(files), NEW k \in 1 .. Len(files), i < k
        PROVE  files[k].state = "NOT_USED"
    BY <2>2, <2>7
  <2>8. \A i \in 1 .. Len(files) : files[i].found = "none" /\ files[i].state # "FAILED"
    BY <2>2
  <2>9. JobSound(files)
    BY <2>2, <2>5, <2>6, <2>7, <2>8 DEF JobSound
  <2> QED BY <1>1, <2>1, <2>3, <2>4, <2>9
<1>3. ASSUME NEW id \in Id, FtsMoves(id) PROVE JobsSound'
  <2>1. PICK i \in 1 .. Len(job[id].files), state \in FileState, found \in Found :
          Moves(id, i, state, found)
    BY <1>3, FtsStep
  <2>2. JobSound(Advance(job[id].files, i, state, found))
    BY <2>1, FilesType, AdvanceSound DEF Moves, JobsSound
  <2>3. job' = [job EXCEPT ![id] = [files |-> Advance(job[id].files, i, state, found),
                                    overwrite |-> job[id].overwrite]]
    BY <2>1 DEF Moves, SetFile
  <2>4. job'[id].overwrite = job[id].overwrite
    BY <2>3 DEF TypeOK
  <2> QED BY <1>1, <2>2, <2>3, <2>4
<1>4. ASSUME NEW id \in Id, Cancelled(id) PROVE JobsSound'
  <2>0. Len(job[id].files) \in Nat /\ DOMAIN job[id].files = 1 .. Len(job[id].files)
    BY FilesType
  <2>1. /\ job'[id].files \in Seq(File) /\ Len(job'[id].files) = Len(job[id].files)
        /\ job' = [job EXCEPT ![id] = [files |-> job'[id].files, overwrite |-> job[id].overwrite]]
        /\ \A i \in 1 .. Len(job[id].files) :
              /\ job[id].files[i].state \in Pending =>
                   job'[id].files[i] =
                     [row |-> job[id].files[i].row, state |-> "CANCELED", found |-> "none"]
              /\ job[id].files[i].state \notin Pending => job'[id].files[i] = job[id].files[i]
    BY <1>4, CancelledShape
  <2>2. job'[id].overwrite = job[id].overwrite
    BY <2>1 DEF TypeOK
  <2>3. \A i \in 1 .. Len(job[id].files) :
          /\ job'[id].files[i].row = job[id].files[i].row
          /\ job'[id].files[i].found # "none" =>
               /\ job'[id].files[i].state = job[id].files[i].state
               /\ job'[id].files[i].found = job[id].files[i].found
          /\ job[id].files[i].state = "FAILED" => job'[id].files[i].state = "FAILED"
          /\ job'[id].files[i].state = "FAILED" => job[id].files[i].state = "FAILED"
          /\ job'[id].files[i].state = "NOT_USED" <=> job[id].files[i].state = "NOT_USED"
    <3> SUFFICES ASSUME NEW i \in 1 .. Len(job[id].files)
                 PROVE  /\ job'[id].files[i].row = job[id].files[i].row
                        /\ job'[id].files[i].found # "none" =>
                             /\ job'[id].files[i].state = job[id].files[i].state
                             /\ job'[id].files[i].found = job[id].files[i].found
                        /\ job[id].files[i].state = "FAILED" <=> job'[id].files[i].state = "FAILED"
                        /\ job'[id].files[i].state = "NOT_USED" <=> job[id].files[i].state = "NOT_USED"
      OBVIOUS
    <3>1. CASE job[id].files[i].state \in Pending
      <4>1. job'[id].files[i] =
              [row |-> job[id].files[i].row, state |-> "CANCELED", found |-> "none"]
        BY <2>1, <3>1
      <4> QED BY <3>1, <4>1 DEF Pending
    <3>2. CASE job[id].files[i].state \notin Pending
      <4>1. job'[id].files[i] = job[id].files[i]
        BY <2>1, <3>2
      <4> QED BY <4>1
    <3> QED BY <3>1, <3>2
  <2>4. DOMAIN job'[id].files = 1 .. Len(job[id].files)
    BY <2>1
  <2>5. JobSound(job'[id].files)
    <3>1. JobSound(job[id].files)
      BY DEF JobsSound
    <3> DEFINE old == job[id].files
               new == job'[id].files
    <3>2. \A i, k \in 1 .. Len(old) :
            /\ old[i].found # "none" => old[i].state = "FAILED"
            /\ ~MultiSources /\ old[i].row[1] = old[k].row[1] => i = k
            /\ MultiSources =>
                 /\ old[i].row = old[k].row
                 /\ i < k /\ old[k].state # "NOT_USED" => old[i].state = "FAILED"
                 /\ k = i + 1 /\ old[i].state = "FAILED" => old[k].state # "NOT_USED"
      BY <2>0, <3>1 DEF JobSound
    <3>3. \A i \in 1 .. Len(old) :
            /\ new[i].row = old[i].row
            /\ new[i].found # "none" => new[i].state = old[i].state /\ new[i].found = old[i].found
            /\ old[i].state = "FAILED" <=> new[i].state = "FAILED"
            /\ new[i].state = "NOT_USED" <=> old[i].state = "NOT_USED"
      BY <2>3
    <3>4. DOMAIN new = 1 .. Len(old)
      BY <2>4
    <3> HIDE DEF old, new
    <3>5. JobSound(new)
      BY <3>2, <3>3, <3>4 DEF JobSound
    <3> QED BY <3>5 DEF new
  <2> QED BY <1>1, <2>1, <2>2, <2>5
<1>5. CASE job' = job
  BY <1>5 DEF JobsSound
<1> QED
  BY <1>2, <1>3, <1>4, <1>5
  DEF Next, vars, Submit, FtsRefuses, Answered, TimesOut, Unanswered, Migrates, Receive,
      PollReads, PollAnswered, PollApplies, PollEnds, PollFails, Requeue

LEMMA MailStep ==
  ASSUME Inv, TypeOK', [Next]_vars
  PROVE  MailSound'
<1> USE DEF Inv
<1>1. ASSUME NEW m \in mail
      PROVE  \E i \in DOMAIN job'[m.id].files :
               LET file == job'[m.id].files[i] IN
               /\ file.row = m.row
               /\ m.final = "Ok" /\ ~m.archiving => file.state = "FINISHED"
               /\ m.final = "Error" =>
                    file.state = "FAILED" /\ Decides(m.id, i)' /\ file.found = m.found
  <2>1. PICK i \in DOMAIN job[m.id].files :
          /\ job[m.id].files[i].row = m.row
          /\ m.final = "Ok" /\ ~m.archiving => job[m.id].files[i].state = "FINISHED"
          /\ m.final = "Error" =>
               /\ job[m.id].files[i].state = "FAILED" /\ Decides(m.id, i)
               /\ job[m.id].files[i].found = m.found
    BY DEF MailSound
  <2>2. m.id \in Id
    BY DEF TypeOK, Message
  <2>3. Accepted(m.id)
    BY <2>1, <2>2, FilesType DEF Accepted
  <2>4. /\ i \in DOMAIN job'[m.id].files /\ Len(job'[m.id].files) = Len(job[m.id].files)
        /\ job'[m.id].files[i].row = job[m.id].files[i].row
        /\ job[m.id].files[i].state \in {"FAILED", "CANCELED", "FINISHED"} =>
             job'[m.id].files[i] = job[m.id].files[i]
    BY <2>1, <2>2, <2>3, FilesKeep
  <2> QED BY <2>1, <2>4 DEF Decides
<1>2. CASE mail' = mail
  BY <1>1, <1>2 DEF MailSound
<1>3. ASSUME NEW id \in Id, FtsMoves(id) PROVE MailSound'
  <2>1. PICK i \in 1 .. Len(job[id].files), state \in FileState, found \in Found :
          /\ Moves(id, i, state, found)
          /\ \A m \in mail' : m \in mail \/ Tells(m, id, i, state, found)
    BY <1>3, FtsStep
  <2> DEFINE moved == Advance(job[id].files, i, state, found)
  <2>2. job[id].files \in Seq(File)
    BY FilesType
  <2>3. Len(moved) = Len(job[id].files) /\ moved[i] = Advanced(job[id].files, i, state, found, i)
    BY <2>2, AdvanceShape
  <2>4. moved[i] = [row |-> job[id].files[i].row, state |-> state, found |-> found]
    BY <2>3 DEF Advanced
  <2>5. moved \in Seq(File)
    BY <2>2, AdvanceShape
  <2>6. job'[id].files = moved
    BY <2>1 DEF Moves, SetFile, TypeOK
  <2>7. DOMAIN moved = 1 .. Len(job[id].files)
    BY <2>3, <2>5
  <2> HIDE DEF moved
  <2>8. /\ i \in DOMAIN job'[id].files /\ job'[id].files[i].row = RowOf(id, i)
        /\ job'[id].files[i].state = state /\ job'[id].files[i].found = found
        /\ Decides(id, i) => Decides(id, i)'
    BY <2>3, <2>4, <2>6, <2>7 DEF RowOf, Decides
  <2>9. ASSUME NEW m \in mail', m \notin mail
        PROVE  \E k \in DOMAIN job'[m.id].files :
                 LET file == job'[m.id].files[k] IN
                 /\ file.row = m.row
                 /\ m.final = "Ok" /\ ~m.archiving => file.state = "FINISHED"
                 /\ m.final = "Error" =>
                      file.state = "FAILED" /\ Decides(m.id, k)' /\ file.found = m.found
    <3>1. Tells(m, id, i, state, found)
      BY <2>1, <2>9
    <3>2. m.id = id
      BY <3>1 DEF Tells
    <3> QED BY <2>8, <3>1, <3>2 DEF Tells
  <2> QED BY <1>1, <2>9 DEF MailSound
<1> QED
  BY <1>2, <1>3
  DEF Next, vars, Submit, FtsAccepts, FtsRefuses, Answered, TimesOut, Unanswered, Cancelled,
      Migrates, Receive, PollReads, PollAnswered, PollApplies, PollEnds, PollFails, Requeue

LEMMA IdsStep ==
  ASSUME Inv, TypeOK', [Next]_vars
  PROVE  IdsRecorded'
<1> USE DEF Inv
<1> SUFFICES ASSUME NEW r \in Row, request'[r].eid # NoId
             PROVE  Recorded(request[r].eid)'
  BY DEF IdsRecorded
<1>1. CASE request[r].eid # NoId
  <2>1. request[r].eid \in Id /\ Recorded(request[r].eid)
    BY <1>1 DEF TypeOK, IdsRecorded
  <2>2. request'[r].eid = request[r].eid
    BY <1>1, IdsKeep
  <2> DEFINE id == request[r].eid
  <2> HIDE DEF id
  <2>3. \A e \in Id : Recorded(e) => Recorded(e)'
    BY RecordedKeeps
  <2> QED BY <2>1, <2>2, <2>3 DEF id, Recorded, Accepted
<1>2. CASE request[r].eid = NoId
  <2>1. ASSUME NEW id \in Id, Records(id) PROVE Recorded(request[r].eid)'
    <3>1. request'[r].eid = id
      BY <1>2, <2>1, RecordsShape
    <3>2. sub.pc = "posted" /\ id = sub.id /\ job' = job
      BY <2>1 DEF Records
    <3>3. CASE Accepted(id)
      BY <3>1, <3>2, <3>3 DEF Recorded, Accepted
    <3>4. CASE Deterministic
      <4>1. sub.rows # <<>> /\ sub.rows \in Seq(Row) /\ id = sub.rows[1]
        BY <3>2, <3>4 DEF PostSound, TypeOK
      <4>2. 1 \in DOMAIN sub.rows
        BY <4>1, EmptySeq
      <4>3. id \in Row
        BY <4>1, <4>2
      <4>4. \/ request'[id].eid = id
            \/ request'[id] = request[id] /\ ~\E i \in DOMAIN sub.rows : sub.rows[i] = id
        BY <2>1, <4>3, RecordsShape
      <4>5. request'[id].eid # NoId
        BY <4>1, <4>2, <4>4, Constants
      <4> QED BY <3>1, <3>4, <4>5 DEF Recorded
    <3> QED BY <2>1, <3>2, <3>3, <3>4 DEF Records, PostSound
  <2>2. ASSUME NEW report \in Report, Decided(report) PROVE FALSE
    <3>1. r # report.row
      BY <1>2, <2>2, DecidedShape, Constants
    <3> QED BY <1>2, <2>2, <3>1, DecidedShape
  <2>3. ASSUME NEW q \in Row, Requeue(q) PROVE FALSE
    <3>1. request'[<<q[1], q[2] + 1>>].eid = NoId
      <4>1. request'[<<q[1], q[2] + 1>>] =
              [state |-> "QUEUED", eid |-> NoId, overwrite |-> request[q].overwrite]
        BY <2>3, RequeueShape
      <4> QED BY <4>1
    <3> QED BY <1>2, <2>3, <3>1, RequeueShape
  <2> QED BY <1>2, <2>1, <2>2, <2>3, RequestStep
<1> QED BY <1>1, <1>2

LEMMA VerdictStep ==
  ASSUME Inv, TypeOK', [Next]_vars
  PROVE  VerdictSound'
<1> USE DEF Inv
<1> SUFFICES ASSUME NEW r \in Row, request'[r].state \in Verdict
             PROVE  Says(request[r].eid, r, request[r].state)'
  BY DEF VerdictSound
<1>1. ASSUME NEW id \in Id, NEW verdict \in Verdict, Recorded(id), Says(id, r, verdict),
             request'[r].eid = id, request'[r].state = verdict
      PROVE  Says(request[r].eid, r, request[r].state)'
  <2>1. Says(id, r, verdict)'
    BY <1>1, SaysKeeps
  <2> QED BY <1>1, <2>1
<1>2. CASE request'[r] = request[r]
  <2>1. request[r].state \in Verdict /\ Says(request[r].eid, r, request[r].state)
    BY <1>2 DEF VerdictSound
  <2>2. request[r].state \notin {"GONE", "QUEUED"}
    BY <2>1 DEF Verdict
  <2>3. request[r].eid \in Id /\ Recorded(request[r].eid)
    BY <2>2 DEF OneAttempt, IdsRecorded, TypeOK
  <2> QED BY <1>1, <1>2, <2>1, <2>3
<1>3. ASSUME NEW report \in Report, Decided(report), r = report.row
      PROVE  Says(request[r].eid, r, request[r].state)'
  <2>1. /\ report.id \in Id /\ report.verdict \in Verdict
        /\ request[r].eid = report.id
        /\ request'[r].state = report.verdict /\ request'[r].eid = report.id
    BY <1>3, DecidedShape
  <2>2. Says(report.id, r, report.verdict)
    BY <1>3 DEF Decided
  <2>3. Recorded(report.id)
    BY <2>1, Constants DEF IdsRecorded
  <2> QED BY <1>1, <2>1, <2>2, <2>3
<1>4. ASSUME NEW id \in Id, Records(id) PROVE request'[r] = request[r]
  BY <1>4, RecordsShape DEF Verdict
<1>5. ASSUME NEW q \in Row, Requeue(q) PROVE request'[r] = request[r]
  <2>1. request'[<<q[1], q[2] + 1>>].state = "QUEUED"
    <3>1. request'[<<q[1], q[2] + 1>>] =
            [state |-> "QUEUED", eid |-> NoId, overwrite |-> request[q].overwrite]
      BY <1>5, RequeueShape
    <3> QED BY <3>1
  <2>2. r # q /\ r # <<q[1], q[2] + 1>>
    BY <1>5, <2>1, RequeueShape DEF Verdict
  <2> QED BY <1>5, <2>2, RequeueShape
<1> QED BY <1>2, <1>3, <1>4, <1>5, RequestStep, DecidedShape

LEMMA OverwriteStep ==
  ASSUME Inv, TypeOK', [Next]_vars
  PROVE  OverwriteSound'
<1> USE DEF Inv
<1> SUFFICES ASSUME NEW r \in Row, request'[r].overwrite
             PROVE  FoundCorrupted(r[1])'
  BY DEF OverwriteSound
<1>1. FoundCorrupted(r[1]) => FoundCorrupted(r[1])'
  BY FoundKeeps
<1>2. CASE request[r].overwrite
  BY <1>1, <1>2 DEF OverwriteSound
<1>3. ASSUME NEW report \in Report, Decided(report), ~request[r].overwrite
      PROVE  FoundCorrupted(r[1])
  <2>1. r = report.row
    BY <1>3, DecidedShape
  <2>2. report.overwrite
    BY <1>3, <2>1, DecidedShape
  <2> QED BY <1>3, <2>1, <2>2 DEF Decided
<1>4. ASSUME NEW id \in Id, Records(id) PROVE request[r].overwrite
  BY <1>4, RecordsShape
<1>5. ASSUME NEW q \in Row, Requeue(q) PROVE FoundCorrupted(r[1])
  <2>1. CASE r = <<q[1], q[2] + 1>>
    <3>1. request'[<<q[1], q[2] + 1>>] =
            [state |-> "QUEUED", eid |-> NoId, overwrite |-> request[q].overwrite]
      BY <1>5, RequeueShape
    <3>2. request[q].overwrite
      BY <2>1, <3>1
    <3> QED BY <2>1, <3>2 DEF OverwriteSound
  <2>2. CASE r # <<q[1], q[2] + 1>>
    <3>1. request[r].overwrite
      BY <1>5, <2>2, RequeueShape
    <3> QED BY <3>1 DEF OverwriteSound
  <2> QED BY <2>1, <2>2
<1> QED BY <1>1, <1>2, <1>3, <1>4, <1>5, RequestStep

LEMMA PollStep ==
  ASSUME Inv, TypeOK', [Next]_vars
  PROVE  PollSound'
<1> USE DEF Inv
<1>1. ASSUME NEW s \in poll.rows PROVE s[2] # NoId /\ request'[s[1]].eid = s[2]
  <2>1. s[1] \in Row /\ s[2] # NoId /\ request[s[1]].eid = s[2]
    BY DEF TypeOK, PollSound
  <2> QED BY <2>1, IdsKeep
<1>2. ASSUME NEW report \in Report, ReportSound(report) PROVE ReportSound(report)'
  <2>1. report.row \in Row /\ report.id \in Id /\ report.verdict \in Verdict
    BY DEF Report
  <2>2. request[report.row].eid = report.id /\ Says(report.id, report.row, report.verdict)
        /\ (report.overwrite => FoundCorrupted(report.row[1]))
    BY <1>2 DEF ReportSound
  <2>3. request'[report.row].eid = report.id
    BY <2>1, <2>2, IdsKeep, Constants
  <2>4. Recorded(report.id)
    BY <2>1, <2>2, Constants DEF IdsRecorded
  <2>5. Says(report.id, report.row, report.verdict)'
    BY <2>1, <2>2, <2>4, SaysKeeps
  <2>6. report.overwrite => FoundCorrupted(report.row[1])'
    BY <2>2, FoundKeeps
  <2> QED BY <2>3, <2>5, <2>6 DEF ReportSound
<1>3. ASSUME poll'.rows \subseteq poll.rows, poll'.reports \subseteq poll.reports PROVE PollSound'
  <2>1. \A report \in poll'.reports : ReportSound(report)'
    BY <1>2, <1>3 DEF TypeOK, PollSound
  <2> QED BY <1>1, <1>3, <2>1 DEF PollSound
<1>4. CASE poll' = poll
  BY <1>3, <1>4
<1>5. CASE poll' = NoPoll
  BY <1>3, <1>5 DEF NoPoll
<1>6. CASE PollReads
  <2>1. /\ poll'.rows = {<<r, request[r].eid>> : r \in {r \in Row : request[r].state = "SUBMITTED"}}
        /\ poll'.reports = {} /\ request' = request
    BY <1>6 DEF PollReads
  <2>2. \A r \in Row : request[r].state = "SUBMITTED" => request[r].eid # NoId
    BY DEF OneAttempt
  <2> QED BY <2>1, <2>2 DEF PollSound
<1>7. CASE PollAnswered
  <2>1. poll'.rows = {} /\ poll'.reports = UNION {ReportsOn(s[1], s[2]) : s \in poll.rows}
    BY <1>7 DEF PollAnswered
  <2>2. ASSUME NEW report \in poll'.reports PROVE report \in Report /\ ReportSound(report)
    <3>1. PICK s \in poll.rows : report \in ReportsOn(s[1], s[2])
      BY <2>1
    <3>2. s[1] \in Row /\ s[2] \in Id /\ request[s[1]].eid = s[2]
      BY DEF TypeOK, PollSound
    <3> QED BY <3>1, <3>2, ReportsType, ReportsSay DEF ReportSound
  <2>3. \A report \in poll'.reports : ReportSound(report)'
    BY <1>2, <2>2
  <2> QED BY <2>1, <2>3 DEF PollSound
<1>8. CASE PollApplies
  <2>1. PICK report \in poll.reports : poll' = [poll EXCEPT !.reports = @ \ {report}]
    BY <1>8 DEF PollApplies
  <2> QED BY <1>3, <2>1 DEF TypeOK
<1>9. ASSUME NEW id \in Id, FtsMoves(id) PROVE poll' = poll
  BY <1>9, FtsStep
<1> QED
  BY <1>4, <1>5, <1>6, <1>7, <1>8, <1>9
  DEF Next, vars, Submit, FtsAccepts, FtsRefuses, Answered, TimesOut, Unanswered, Cancelled,
      Migrates, Receive, PollEnds, PollFails, Requeue

----------------------------------------------------------------------------
(* The invariant holds at the start, and every step keeps it.              *)
LEMMA InvInit == Init => Inv
<1> SUFFICES ASSUME Init PROVE Inv
  OBVIOUS
<1>1. TypeOK
  BY TypeInit
<1>2. \A id \in Id : job[id] = NoJob /\ job[id].files = <<>>
  BY DEF Init, NoJob
<1>3. \A r \in Row : /\ request[r].state = IF r[2] = 1 THEN "QUEUED" ELSE "GONE"
                     /\ request[r].eid = NoId /\ request[r].overwrite = FALSE
  BY DEF Init
<1>4. OneAttempt
  <2>1. 1 \in Attempt
    BY ConveyorAssumption DEF Attempt
  <2>2. \A d \in Dest, a \in Attempt : request[<<d, a>>].state = IF a = 1 THEN "QUEUED" ELSE "GONE"
    BY <1>3, Constants
  <2> QED BY <1>3, <2>1, <2>2, Constants DEF OneAttempt
<1>5. PostSound
  BY DEF Init, Idle, PostSound
<1>6. JobsSound
  <2>1. JobSound(<<>>)
    BY EmptySeq DEF JobSound
  <2> QED BY <1>2, <2>1 DEF JobsSound
<1>7. MailSound /\ PollSound
  BY DEF Init, NoPoll, MailSound, PollSound
<1>8. IdsRecorded /\ OverwriteSound
  BY <1>3 DEF IdsRecorded, OverwriteSound
<1>9. VerdictSound
  BY <1>3 DEF VerdictSound, Verdict
<1> QED BY <1>1, <1>4, <1>5, <1>6, <1>7, <1>8, <1>9 DEF Inv

LEMMA InvStep == Inv /\ [Next]_vars => Inv'
<1> SUFFICES ASSUME Inv, [Next]_vars PROVE Inv'
  OBVIOUS
<1>1. TypeOK'
  BY TypeStep DEF Inv
<1> QED
  BY <1>1, OneAttemptStep, PostStep, JobsStep, MailStep, IdsStep, PollStep, VerdictStep,
     OverwriteStep DEF Inv

(* In every reachable state the invariant holds: whichever way the         *)
(* answers, messages and polls of fts3.py interleave with the steps of     *)
(* FTS.                                                                    *)
THEOREM InvCorrect == Spec => []Inv
BY InvInit, InvStep, PTL DEF Spec

(* The state keeps its types; so a report of the poller always has a       *)
(* verdict.                                                                *)
THEOREM TypeCorrect == Spec => []TypeOK
<1>1. Inv => TypeOK
  BY DEF Inv
<1> QED BY <1>1, InvCorrect, PTL

(* The state that the status reports of fts3.py give a request is what the *)
(* job it was submitted in says in the end, whichever report came first.   *)
THEOREM VerdictCorrect == Spec => []VerdictMatchesJob
<1>1. Inv => VerdictMatchesJob
  <2> SUFFICES ASSUME Inv, NEW r \in Row, request[r].state \in Verdict
               PROVE  LET files == job[request[r].eid].files
                          mine == {i \in DOMAIN files : files[i].row = r}
                      IN  CASE request[r].state = "DONE" ->
                                 \E i \in mine : \/ files[i].state = "FINISHED"
                                                 \/ Recoverable(files[i].found, Tape(r))
                            [] request[r].state = "FAILED" ->
                                 /\ mine # {}
                                 /\ \A i \in mine :
                                      files[i].state \in FINAL_FTS_FILE_STATES \ {"FINISHED"}
                            [] request[r].state = "LOST" -> files = <<>>
    BY DEF VerdictMatchesJob
  <2> DEFINE id == request[r].eid
  <2>1. Says(id, r, request[r].state)
    BY DEF Inv, VerdictSound
  <2>2. CASE request[r].state = "DONE"
    <3>1. SaysDone(id, r)
      BY <2>1, <2>2 DEF Says
    <3> QED BY <2>2, <3>1 DEF SaysDone
  <2>3. CASE request[r].state = "FAILED"
    <3>1. SaysFailed(id, r)
      BY <2>1, <2>3 DEF Says
    <3> QED BY <2>3, <3>1 DEF SaysFailed, FINAL_FTS_FILE_STATES
  <2>4. CASE request[r].state = "LOST"
    <3>1. ~Accepted(id)
      BY <2>1, <2>4 DEF Says
    <3> QED BY <2>4, <3>1 DEF Accepted
  <2> QED BY <2>2, <2>3, <2>4 DEF Verdict
<1> QED BY <1>1, InvCorrect, PTL

(* _find_attribute_updates: a request may overwrite only if a corrupted    *)
(* file was found at its destination, by this attempt or an earlier one.   *)
THEOREM OverwriteCorrect == Spec => []OverwriteWasCorrupted
<1>1. Inv => OverwriteWasCorrupted
  BY DEF Inv, OverwriteSound, FoundCorrupted, OverwriteWasCorrupted
<1> QED BY <1>1, InvCorrect, PTL

=============================================================================
