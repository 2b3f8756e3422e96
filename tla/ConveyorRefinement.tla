------------------------- MODULE ConveyorRefinement -------------------------
(***************************************************************************)
(* Conveyor implements RequestLifecycle.  Two facts are to be shown of a   *)
(* request that gets DONE: that its destination is safe at that moment,    *)
(* and that nothing writes it afterwards.  Both follow from this: while a  *)
(* request is, or can come to be, recorded with a job, no other job of FTS *)
(* is to write its destination (Alone), and when that job says DONE the    *)
(* file is there (DoneIsSafe).                                             *)
(***************************************************************************)
EXTENDS ConveyorProofs, FunctionTheorems

Rows(id) == {job[id].files[i].row : i \in DOMAIN job[id].files}

(* FTS still writes, or is to write, the destination for this job. *)
LiveOn(id, d) ==
  /\ ~Over(id)
  /\ \E i \in DOMAIN job[id].files :
       /\ job[id].files[i].row[1] = d
       /\ job[id].files[i].state \in Pending \cup {"NOT_USED"}

(* No job is of an attempt that is yet to come. *)
NoFuture ==
  \A id \in Id : \A r \in Rows(id) :
    \E a \in Attempt : r[2] <= a /\ request[<<r[1], a>>].state # "GONE"

(* A request is in one job only if the ids of jobs are derived from it. *)
OneJob == Deterministic => \A j, k \in Id : Rows(j) \cap Rows(k) # {} => j = k

(* The request is, or can come to be, recorded with this job. *)
Owns(id, r) ==
  /\ r \in Rows(id)
  /\ \/ request[r].state \in {"SUBMITTED", "DONE"} /\ (Deterministic \/ request[r].eid = id)
     \/ Deterministic /\ request[r].state = "QUEUED"
     \/ /\ sub.pc = "posted" /\ sub.answer = "accepted" /\ sub.id = id
        /\ \E i \in DOMAIN sub.rows : sub.rows[i] = r

(* No other job touches the destination of a request that a job owns.      *)
Alone == \A id \in Id, r \in Row : Owns(id, r) => \A j \in Id : LiveOn(j, r[1]) => j = id
(* The destination is safe when the job of a request says that it is done. *)
DoneIsSafe == \A id \in Id, r \in Row : Owns(id, r) /\ SaysDone(id, r) => Safe(r[1])


(* The job that the hops of a path are submitted in, again and again until *)
(* one submission is recorded, is always the same: the first hops that are *)
(* left, under the id of the first of them.                                *)
NextHops(hops, id) ==
  /\ hops \subseteq Queued /\ id \in hops
  /\ \A q \in Queued : id[1] <= q[1]
  /\ \A r \in hops, q \in Queued : q[1] <= r[1] => q \in hops
  /\ Cardinality(hops) =
       IF Cardinality(Queued) < GroupBulk THEN Cardinality(Queued) ELSE GroupBulk

Posted == {sub.rows[i] : i \in DOMAIN sub.rows}

PathJobs ==
  Deterministic /\ MultiHop =>
    /\ sub.pc = "posted" => Settled /\ NextHops(Posted, sub.id)
    /\ \A id \in Id : Rows(id) \cap Queued # {} => Settled /\ NextHops(Rows(id), id)

(* A job that is not of a path has the request its id is derived from      *)
(* only.                                                                   *)
SingleJobs == Deterministic /\ ~MultiHop => \A id \in Id : Rows(id) \subseteq {id}

(* The inductive invariant of the refinement.                              *)
RefInv == Inv /\ NoFuture /\ OneJob /\ PathJobs /\ SingleJobs /\ Alone /\ DoneIsSafe

(* A request that is submitted again is not grouped with others than       *)
(* before: the one configuration left out is that of deterministic ids     *)
(* with disk or tape files that share jobs in bulk, where an orphan and    *)
(* the job of the id that was recorded can both write a destination.       *)
Unregrouped == Deterministic => GroupBulk = 1 \/ MultiSources \/ MultiHop

----------------------------------------------------------------------------
(* The requests of a job.                                                  *)
LEMMA RowsType ==
  ASSUME TypeOK, NEW id \in Id
  PROVE  Rows(id) \subseteq Row /\ (Rows(id) # {} => Accepted(id))
<1>1. /\ DOMAIN job[id].files = 1 .. Len(job[id].files) /\ Len(job[id].files) \in Nat
      /\ \A i \in 1 .. Len(job[id].files) : job[id].files[i].row \in Row
      /\ Accepted(id) <=> Len(job[id].files) # 0
  BY FilesType
<1> QED BY <1>1 DEF Rows

LEMMA RowsKeep ==
  ASSUME Inv, TypeOK', [Next]_vars, NEW id \in Id, Accepted(id)
  PROVE  Rows(id)' = Rows(id)
<1>1. /\ DOMAIN job'[id].files = DOMAIN job[id].files
      /\ \A i \in DOMAIN job[id].files : job'[id].files[i].row = job[id].files[i].row
  BY FilesKeep DEF Inv
<1> QED BY <1>1 DEF Rows

(* Only FTS accepting a submission makes a job of its own. *)
LEMMA NewJob ==
  ASSUME Inv, TypeOK', [Next]_vars, NEW id \in Id, ~Accepted(id), Accepted(id)'
  PROVE  /\ FtsAccepts /\ id = sub.id
         /\ \A r \in Rows(id)' : \E i \in DOMAIN sub.rows : sub.rows[i] = r
         /\ \A r : ~SaysDone(id, r)'
         /\ MultiSources \/ Len(sub.rows) = 1 => Rows(id)' = {sub.rows[1]}
<1> USE DEF Inv
<1>1. job'[id] # job[id]
  BY DEF Accepted
<1>2. CASE FtsAccepts
  <2>1. /\ sub.rows \in Seq(Row) /\ sub.rows # <<>> /\ sub.id \in Id
        /\ DOMAIN sub.rows = 1 .. Len(sub.rows) /\ Len(sub.rows) \in Nat \ {0}
    BY <1>2, EmptySeq DEF FtsAccepts, PostSound, TypeOK
  <2>2. job' = [job EXCEPT ![sub.id] = [files |-> NewFiles(sub.rows), overwrite |-> sub.overwrite]]
    BY <1>2 DEF FtsAccepts
  <2>3. id = sub.id /\ job'[id].files = NewFiles(sub.rows)
    BY <1>1, <2>1, <2>2 DEF TypeOK
  <2>4. /\ Len(job'[id].files) = IF MultiSources THEN NSources ELSE Len(sub.rows)
        /\ DOMAIN job'[id].files = 1 .. Len(job'[id].files)
        /\ \A i \in 1 .. Len(job'[id].files) :
             /\ job'[id].files[i].row = IF MultiSources THEN sub.rows[1] ELSE sub.rows[i]
             /\ job'[id].files[i].state \in {"SUBMITTED", "NOT_USED"}
    BY <2>1, <2>3, NewFilesShape
  <2>5. \A i \in DOMAIN job'[id].files : \E k \in DOMAIN sub.rows : job'[id].files[i].row = sub.rows[k]
    BY <2>1, <2>4
  <2>6. \A r : ~SaysDone(id, r)'
    BY <2>4 DEF SaysDone
  <2>7. MultiSources \/ Len(sub.rows) = 1 => Rows(id)' = {sub.rows[1]}
    <3>1. Len(job'[id].files) \in Nat \ {0}
      BY <2>1, <2>4, Constants
    <3> QED BY <2>1, <2>4, <3>1 DEF Rows
  <2> QED BY <1>2, <2>3, <2>5, <2>6, <2>7 DEF Rows
<1>3. ASSUME NEW j \in Id, FtsMoves(j) PROVE FALSE
  <2>1. PICK i \in 1 .. Len(job[j].files), state \in FileState, found \in Found :
          Moves(j, i, state, found)
    BY <1>3, FtsStep
  <2>2. j # id
    BY FilesType DEF Accepted
  <2> QED BY <1>1, <2>1, <2>2 DEF Moves, SetFile, TypeOK
<1>4. ASSUME NEW j \in Id, Cancelled(j) PROVE FALSE
  <2>1. j # id
    BY <1>4, FilesType DEF Cancelled, Accepted
  <2> QED BY <1>1, <1>4, <2>1, CancelledShape DEF TypeOK
<1>5. CASE job' = job
  BY <1>1, <1>5
<1> QED
  BY <1>2, <1>3, <1>4, <1>5
  DEF Next, vars, Submit, FtsRefuses, Answered, TimesOut, Unanswered, Migrates, Receive,
      PollReads, PollAnswered, PollApplies, PollEnds, PollFails, Requeue

(* A job does not begin to write a destination that it had given up.       *)
LEMMA LiveKeeps ==
  ASSUME Inv, TypeOK', [Next]_vars, NEW id \in Id, Accepted(id), NEW d, LiveOn(id, d)'
  PROVE  LiveOn(id, d)
<1>1. /\ DOMAIN job'[id].files = DOMAIN job[id].files
      /\ \A i \in DOMAIN job[id].files :
           /\ job'[id].files[i].row = job[id].files[i].row
           /\ job[id].files[i].state \in {"FAILED", "CANCELED", "FINISHED"} \/ Over(id) =>
                job'[id].files[i] = job[id].files[i]
           /\ job[id].files[i].state \in FileState
  BY FilesKeep, FilesType DEF Inv
<1>2. ~Over(id)
  BY <1>1 DEF Over, LiveOn
<1>3. PICK i \in DOMAIN job[id].files :
        /\ job'[id].files[i].row[1] = d
        /\ job'[id].files[i].state \in Pending \cup {"NOT_USED"}
  BY <1>1 DEF LiveOn
<1>4. job[id].files[i].state \in Pending \cup {"NOT_USED"}
  BY <1>1, <1>3 DEF FileState, Pending
<1> QED BY <1>1, <1>2, <1>3, <1>4 DEF LiveOn

LEMMA BusyLive ==
  ASSUME TypeOK, NEW id \in Id, NEW d, LiveOn(id, d)
  PROVE  Busy(d)
<1>1. JobState(job[id].files, MultiSources) \notin FINAL_FTS_JOB_STATES
  BY JobStateOver, Constants DEF LiveOn
<1> QED BY <1>1 DEF LiveOn, Busy

----------------------------------------------------------------------------
(* An attempt is queued before a job can have it.                          *)
LEMMA NoFutureStep ==
  ASSUME Inv, NoFuture, TypeOK', [Next]_vars
  PROVE  NoFuture'
<1> USE DEF Inv
<1> SUFFICES ASSUME NEW id \in Id, NEW r \in Rows(id)'
             PROVE  \E a \in Attempt : r[2] <= a /\ request'[<<r[1], a>>].state # "GONE"
  BY DEF NoFuture
<1>1. ASSUME NEW a \in Attempt, r \in Row, r[2] <= a, request[<<r[1], a>>].state # "GONE"
      PROVE  \E b \in Attempt : r[2] <= b /\ request'[<<r[1], b>>].state # "GONE"
  <2> DEFINE q == <<r[1], a>>
  <2>0. q \in Row /\ r[1] \in Dest /\ r[2] \in Nat /\ a \in Nat
    BY <1>1, Constants
  <2>1. CASE request'[q].state # "GONE"
    BY <1>1, <2>1
  <2>2. ASSUME NEW j \in Id, Records(j) PROVE request'[q].state # "GONE"
    BY <1>1, <2>0, <2>2, RecordsShape
  <2>3. ASSUME NEW report \in Report, Decided(report) PROVE request'[q].state # "GONE"
    BY <1>1, <2>0, <2>3, DecidedShape DEF Verdict
  <2>4. ASSUME NEW p \in Row, Requeue(p)
        PROVE  \E b \in Attempt : r[2] <= b /\ request'[<<r[1], b>>].state # "GONE"
    <3> DEFINE next == <<p[1], p[2] + 1>>
    <3>1. request'[next] = [state |-> "QUEUED", eid |-> NoId, overwrite |-> request[p].overwrite]
      BY <2>4, RequeueShape
    <3>2. request'[next].state # "GONE"
      BY <3>1
    <3>3. CASE q = p
      <4>1. p[1] = r[1] /\ p[2] = a /\ a + 1 \in Attempt
        BY <2>4, <3>3, RequeueShape
      <4>2. r[2] <= a + 1
        BY <1>1, <2>0
      <4> QED BY <3>2, <4>1, <4>2
    <3>4. CASE q # p
      <4>1. request'[q].state # "GONE"
        BY <1>1, <2>0, <2>4, <3>2, <3>4, RequeueShape
      <4> QED BY <2>1, <4>1
    <3> QED BY <3>3, <3>4
  <2> QED BY <1>1, <2>1, <2>2, <2>3, <2>4, RequestStep
<1>2. CASE Accepted(id)
  <2>1. r \in Rows(id) /\ r \in Row
    BY <1>2, RowsKeep, RowsType
  <2>2. PICK a \in Attempt : r[2] <= a /\ request[<<r[1], a>>].state # "GONE"
    BY <2>1 DEF NoFuture
  <2> QED BY <1>1, <2>1, <2>2
<1>3. CASE ~Accepted(id)
  <2>1. Accepted(id)'
    <3>1. job'[id].files # <<>>
      BY EmptySeq DEF Rows
    <3> QED BY <3>1 DEF Accepted
  <2>2. PICK i \in DOMAIN sub.rows : sub.rows[i] = r
    BY <1>3, <2>1, NewJob
  <2>3. r \in Row /\ request[r].state = "QUEUED"
    BY <1>3, <2>1, <2>2, NewJob DEF FtsAccepts, PostSound, TypeOK
  <2>4. r[2] \in Attempt /\ r[2] <= r[2] /\ r = <<r[1], r[2]>>
    BY <2>3, Constants
  <2>5. request[<<r[1], r[2]>>].state # "GONE"
    BY <2>3, <2>4
  <2> QED BY <1>1, <2>3, <2>4, <2>5
<1> QED BY <1>2, <1>3

(* A request is decided once: what its job says of it is not contradicted. *)
LEMMA SaysOnce ==
  ASSUME TypeOK, NEW id \in Id, NEW r \in Row, NEW v \in Verdict, NEW w \in Verdict,
         Says(id, r, v), Says(id, r, w)
  PROVE  v = w
<1>1. SaysDone(id, r) => Accepted(id) /\ ~SaysFailed(id, r)
  BY FilesType DEF SaysDone, SaysFailed, Accepted
<1>2. SaysFailed(id, r) => Accepted(id)
  BY FilesType DEF SaysFailed, Accepted
<1>3. \A x \in Verdict : Says(id, r, x) =>
        (x = "DONE" /\ SaysDone(id, r)) \/ (x = "FAILED" /\ SaysFailed(id, r))
          \/ (x = "LOST" /\ ~Accepted(id))
  BY DEF Says, Verdict
<1> QED BY <1>1, <1>2, <1>3

(* Only a request that is submitted gets a verdict.                        *)
LEMMA DecidedOnce ==
  ASSUME Inv, NEW report \in Report, Decided(report)
  PROVE  request[report.row].state = "SUBMITTED"
<1>1. /\ report.row \in Row /\ report.id \in Id /\ report.verdict \in Verdict
      /\ request[report.row].state \notin {"GONE", "QUEUED", report.verdict}
      /\ request[report.row].eid = report.id
  BY DecidedShape DEF Inv
<1>2. Says(report.id, report.row, report.verdict)
  BY DEF Decided
<1>3. CASE request[report.row].state \in Verdict
  <2>1. Says(report.id, report.row, request[report.row].state)
    BY <1>1, <1>3 DEF Inv, VerdictSound
  <2> QED BY <1>1, <1>2, <1>3, <2>1, SaysOnce DEF Inv
<1> QED BY <1>1, <1>3 DEF Inv, TypeOK, RequestState, Verdict

(* A job that says DONE does not touch the destination again. *)
LEMMA DoneNotPending ==
  ASSUME TypeOK, JobsSound, NEW id \in Id, NEW r \in Row, SaysDone(id, r),
         NEW i \in DOMAIN job[id].files, job[id].files[i].row[1] = r[1]
  PROVE  job[id].files[i].state \notin Pending
<1> DEFINE files == job[id].files
<1>0. Len(files) \in Nat /\ DOMAIN files = 1 .. Len(files)
  BY FilesType
<1>1. PICK k \in DOMAIN files :
        /\ files[k].row = r
        /\ \/ files[k].state = "FINISHED"
           \/ files[k].state = "FAILED" /\ Decides(id, k) /\ Recoverable(files[k].found, Tape(r))
  BY DEF SaysDone
<1>2. \A a, b \in DOMAIN files :
        /\ ~MultiSources /\ files[a].row[1] = files[b].row[1] => a = b
        /\ MultiSources => (a < b /\ files[b].state # "NOT_USED" => files[a].state = "FAILED")
  BY DEF JobsSound, JobSound
<1>3. CASE i = k
  BY <1>1, <1>3 DEF Pending
<1>4. CASE i # k /\ MultiSources
  <2>1. CASE i < k
    BY <1>1, <1>2, <1>4, <2>1 DEF Pending
  <2>2. CASE k < i
    <3>1. files[k].state = "FINISHED"
      BY <1>0, <1>1, <1>4, <2>2 DEF Decides
    <3>2. files[i].state = "NOT_USED"
      BY <1>2, <1>4, <2>2, <3>1
    <3> QED BY <3>2 DEF Pending
  <2> QED BY <1>0, <1>4, <2>1, <2>2
<1>5. CASE i # k /\ ~MultiSources
  BY <1>1, <1>2, <1>5
<1> QED BY <1>3, <1>4, <1>5

(* What FTS writes: the destination of a file that is pending; and when    *)
(* the file serves its request by that, it is there.                       *)
LEMMA FtsWrites ==
  ASSUME TypeOK, NEW id \in Id, FtsMoves(id)
  PROVE  \E i \in 1 .. Len(job[id].files), state \in FileState, found \in Found :
           /\ Moves(id, i, state, found)
           /\ \A d \in Dest : d # RowOf(id, i)[1] => dst'[d] = dst[d]
           /\ \/ state = "FINISHED"
              \/ state = "FAILED" /\ Recoverable(found, Tape(RowOf(id, i)))
              => \A d \in Dest : d = RowOf(id, i)[1] => Safe(d)'
<1>1. PICK i \in 1 .. Len(job[id].files) :
        Begin(id, i) \/ Written(id, i) \/ WriteFails(id, i) \/ Archived(id, i) \/ ArchiveTimesOut(id, i)
  BY FilesType DEF FtsMoves
<1> DEFINE r == RowOf(id, i)
           Serves(state, found) == \/ state = "FINISHED"
                                   \/ state = "FAILED" /\ Recoverable(found, Tape(r))
<1>r. r \in Row /\ r[1] \in Dest
  BY FilesType, Constants DEF RowOf
<1>d. \A what : SetDst(r[1], what) => /\ \A d \in Dest : d # r[1] => dst'[d] = dst[d]
                                      /\ dst'[r[1]] = what
  BY <1>r DEF SetDst, TypeOK
<1>n. "none" \in Found /\ ~Recoverable("none", Tape(r)) /\ ~Recoverable("unreported", Tape(r))
  BY DEF Found, Recoverable, Correct
<1>q. ASSUME NEW state, NEW found, Moves(id, i, state, found),
             \A d \in Dest : d # r[1] => dst'[d] = dst[d],
             Serves(state, found) => \A d \in Dest : d = r[1] => Safe(d)'
      PROVE  \E k \in 1 .. Len(job[id].files), what \in FileState, seen \in Found :
               /\ Moves(id, k, what, seen)
               /\ \A d \in Dest : d # RowOf(id, k)[1] => dst'[d] = dst[d]
               /\ \/ what = "FINISHED"
                  \/ what = "FAILED" /\ Recoverable(seen, Tape(RowOf(id, k)))
                  => \A d \in Dest : d = RowOf(id, k)[1] => Safe(d)'
  BY <1>q DEF Moves, FileState
<1>s. \A found : ~Serves("ACTIVE", found) /\ ~Serves("ARCHIVING", found)
  OBVIOUS
<1>f. ~Serves("FAILED", "none")
  BY <1>n
<1> HIDE DEF r
<1>2. CASE Begin(id, i)
  <2>0. job[id].files[i].state \in Pending
    BY <1>2 DEF Begin, At, Pending
  <2>1. CASE MayWrite(id, i) /\ SetFile(id, i, "ACTIVE", "none") /\ SetDst(r[1], "bad") /\ UNCHANGED mail
    <3>1. Moves(id, i, "ACTIVE", "none")
      BY <2>0, <2>1, <1>n DEF Moves
    <3>2. \A d \in Dest : d # r[1] => dst'[d] = dst[d]
      BY <2>1, <1>d
    <3> QED BY <1>q, <1>s, <3>1, <3>2
  <2>2. CASE ~MayWrite(id, i) /\ FileFails(id, i, Finding(r)) /\ UNCHANGED dst
    <3>1. dst[r[1]] # "absent"
      BY <2>2 DEF MayWrite, r
    <3>2. dst[r[1]] \in {"bad", "buffered", "stored"}
      BY <3>1, <1>r DEF TypeOK
    <3>3. Finding(r) \in Found
      BY <3>2 DEF Finding, Found
    <3>4. Moves(id, i, "FAILED", Finding(r))
      BY <2>0, <2>2, <3>3, FailsTells DEF Moves
    <3>5. Serves("FAILED", Finding(r)) => \A d \in Dest : d = r[1] => Safe(d)'
      <4> SUFFICES ASSUME Recoverable(Finding(r), Tape(r)), NEW d \in Dest, d = r[1] PROVE Safe(d)'
        OBVIOUS
      <4>1. Archiving(r) /\ Finding(r) = dst[r[1]]
        BY <1>n DEF Finding
      <4>2. dst[r[1]] = "stored"
        BY <4>1 DEF Recoverable, Archiving
      <4> QED BY <2>2, <4>2 DEF Safe
    <3>6. \A d \in Dest : d # r[1] => dst'[d] = dst[d]
      BY <2>2
    <3> HIDE DEF Serves
    <3> QED BY <1>q, <3>4, <3>5, <3>6
  <2>3. CASE FileFails(id, i, "none") /\ UNCHANGED dst
    <3>1. Moves(id, i, "FAILED", "none")
      BY <2>0, <2>3, <1>n, FailsTells DEF Moves
    <3>2. \A d \in Dest : d # r[1] => dst'[d] = dst[d]
      BY <2>3
    <3> HIDE DEF Serves
    <3> QED BY <1>q, <1>f, <3>1, <3>2
  <2> QED BY <1>2, <2>1, <2>2, <2>3 DEF Begin, r
<1>3. CASE Written(id, i)
  <2> DEFINE state == IF Archiving(r) THEN "ARCHIVING" ELSE "FINISHED"
  <2>1. SetFile(id, i, state, "none") /\ SetDst(r[1], IF Tape(r) THEN "buffered" ELSE "stored")
    BY <1>3 DEF Written, r
  <2>2. Moves(id, i, state, "none")
    BY <1>3, <2>1, <1>n DEF Moves, Written, At, Pending
  <2>3. Serves(state, "none") => \A d \in Dest : d = r[1] => Safe(d)'
    <3> SUFFICES ASSUME ~Archiving(r), NEW d \in Dest, d = r[1] PROVE Safe(d)'
      BY <1>s
    <3>1. dst'[r[1]] = IF Tape(r) THEN "buffered" ELSE "stored"
      BY <2>1, <1>d
    <3> QED BY <3>1 DEF Safe, Archiving, Tape
  <2>4. \A d \in Dest : d # r[1] => dst'[d] = dst[d]
    BY <2>1, <1>d
  <2> HIDE DEF state, Serves
  <2> QED BY <1>q, <2>2, <2>3, <2>4
<1>4. CASE WriteFails(id, i)
  <2>1. Moves(id, i, "FAILED", "none")
    BY <1>4, <1>n, FailsTells DEF Moves, WriteFails, At, Pending
  <2>2. \A d \in Dest : d # r[1] => dst'[d] = dst[d]
    BY <1>4, <1>d DEF WriteFails, r
  <2> HIDE DEF Serves
  <2> QED BY <1>q, <1>f, <2>1, <2>2
<1>5. CASE Archived(id, i)
  <2>1. Moves(id, i, "FINISHED", "none")
    BY <1>5, <1>n DEF Moves, Archived, At, Pending
  <2>2. /\ \A d \in Dest : d = r[1] => Safe(d)'
        /\ \A d \in Dest : d # r[1] => dst'[d] = dst[d]
    BY <1>5 DEF Archived, Safe, r
  <2> HIDE DEF Serves
  <2> QED BY <1>q, <2>1, <2>2
<1>6. CASE ArchiveTimesOut(id, i)
  <2>1. Moves(id, i, "FAILED", "none")
    BY <1>6, <1>n, FailsTells DEF Moves, ArchiveTimesOut, At, Pending
  <2>2. \A d \in Dest : d # r[1] => dst'[d] = dst[d]
    BY <1>6 DEF ArchiveTimesOut
  <2> HIDE DEF Serves
  <2> QED BY <1>q, <1>f, <2>1, <2>2
<1> QED BY <1>1, <1>2, <1>3, <1>4, <1>5, <1>6

(* A request comes to be a job's own only when FTS accepts the job. *)
LEMMA OwnsKeeps ==
  ASSUME Inv, NoFuture, TypeOK', [Next]_vars, NEW id \in Id, NEW r \in Row,
         r \in Rows(id), Owns(id, r)', FtsAccepts => id # sub.id
  PROVE  Owns(id, r)
<1> USE DEF Inv
<1>1. \/ request'[r].state \in {"SUBMITTED", "DONE"} /\ (Deterministic \/ request'[r].eid = id)
      \/ Deterministic /\ request'[r].state = "QUEUED"
      \/ /\ sub'.pc = "posted" /\ sub'.answer = "accepted" /\ sub'.id = id
         /\ \E i \in DOMAIN sub'.rows : sub'.rows[i] = r
  BY DEF Owns
<1>2. ASSUME sub'.pc = "posted", sub'.answer = "accepted", sub'.id = id PROVE sub' = sub
  <2>1. CASE sub' = Idle
    BY <1>2, <2>1 DEF Idle
  <2>2. ASSUME NEW group \in Groups, Submit(group) PROVE sub'.answer = "none"
    BY <2>2 DEF Submit
  <2>3. CASE FtsRefuses
    BY <1>2, <2>3 DEF FtsRefuses, TypeOK
  <2>4. CASE FtsAccepts
    BY <1>2, <2>4 DEF FtsAccepts, TypeOK
  <2>5. ASSUME NEW j \in Id, FtsMoves(j) PROVE sub' = sub
    BY <2>5, FtsStep
  <2> QED
    BY <1>2, <2>1, <2>2, <2>3, <2>4, <2>5
    DEF Next, vars, Answered, TimesOut, Unanswered, Cancelled, Migrates, Receive,
        PollReads, PollAnswered, PollApplies, PollEnds, PollFails, Requeue
<1>3. CASE request'[r] = request[r]
  BY <1>1, <1>2, <1>3 DEF Owns
<1>4. ASSUME NEW j \in Id, Records(j), request'[r] # request[r] PROVE Owns(id, r)
  <2>1. /\ \E i \in DOMAIN sub.rows : sub.rows[i] = r
        /\ request[r].state = "QUEUED" /\ request'[r].state = "SUBMITTED" /\ request'[r].eid = j
    BY <1>4, RecordsShape
  <2>2. /\ sub.pc = "posted" /\ j = sub.id /\ sub' = Idle
        /\ sub.answer = "accepted" \/ Deterministic
    BY <1>4 DEF Records
  <2>3. CASE Deterministic
    BY <2>1, <2>3 DEF Owns
  <2>4. CASE ~Deterministic
    <3>1. j = id
      BY <1>1, <2>1, <2>2, <2>4 DEF Idle
    <3> QED BY <2>1, <2>2, <2>4, <3>1 DEF Owns
  <2> QED BY <2>3, <2>4
<1>5. ASSUME NEW report \in Report, Decided(report), request'[r] # request[r] PROVE Owns(id, r)
  <2>1. r = report.row
    BY <1>5, DecidedShape
  <2>2. /\ request[r].state = "SUBMITTED" /\ request'[r].eid = request[r].eid
        /\ request'[r].state \in Verdict /\ sub' = sub
    BY <1>5, <2>1, DecidedShape, DecidedOnce DEF Decided
  <2> QED BY <1>1, <2>2 DEF Owns, Verdict
<1>6. ASSUME NEW q \in Row, Requeue(q), request'[r] # request[r] PROVE Owns(id, r)
  <2>1. sub' = sub
    BY <1>6 DEF Requeue
  <2>2. CASE r = q
    BY <1>1, <1>6, <2>1, <2>2, RequeueShape DEF Owns
  <2>3. CASE r # q
    <3>1. r = <<q[1], q[2] + 1>>
      BY <1>6, <2>3, RequeueShape
    <3>2. /\ q[1] \in Dest /\ q[2] \in Attempt /\ q[2] \in Nat /\ q = <<q[1], q[2]>>
          /\ request[q].state # "GONE" /\ r[1] = q[1] /\ r[2] = q[2] + 1
      <4>1. request[q].state \in {"FAILED", "LOST"}
        BY <1>6, RequeueShape
      <4> QED BY <1>6, <3>1, <4>1, RequeueShape
    <3>3. PICK a \in Attempt : r[2] <= a /\ request[<<r[1], a>>].state # "GONE"
      BY DEF NoFuture
    <3>4. a = q[2]
      BY <3>2, <3>3 DEF OneAttempt
    <3> QED BY <3>1, <3>2, <3>3, <3>4
  <2> QED BY <2>2, <2>3
<1> QED BY <1>3, <1>4, <1>5, <1>6, RequestStep

(* FTS refuses a job for a destination that another one still writes.      *)
LEMMA AloneStep ==
  ASSUME RefInv, TypeOK', OneJob', [Next]_vars
  PROVE  Alone'
<1> USE DEF RefInv, Inv
<1> SUFFICES ASSUME NEW id \in Id, NEW r \in Row, Owns(id, r)', NEW j \in Id, LiveOn(j, r[1])'
             PROVE  j = id
  BY DEF Alone
<1>1. Accepted(id)' /\ Accepted(j)'
  BY EmptySeq DEF Owns, Rows, LiveOn, Accepted
<1>2. CASE Accepted(id) /\ Accepted(j)
  <2>1. r \in Rows(id)
    BY <1>2, RowsKeep DEF Owns
  <2>2. Owns(id, r)
    BY <1>2, <2>1, OwnsKeeps DEF FtsAccepts
  <2>3. LiveOn(j, r[1])
    BY <1>2, LiveKeeps
  <2> QED BY <2>2, <2>3 DEF Alone
<1>3. CASE ~Accepted(id)
  <2>1. FtsAccepts /\ id = sub.id /\ \E i \in DOMAIN sub.rows : sub.rows[i] = r
    BY <1>1, <1>3, NewJob DEF Owns
  <2>2. ~Busy(r[1])
    BY <2>1 DEF FtsAccepts
  <2>3. CASE Accepted(j)
    <3>1. LiveOn(j, r[1])
      BY <2>3, LiveKeeps
    <3> QED BY <2>2, <3>1, BusyLive
  <2>4. CASE ~Accepted(j)
    BY <1>1, <2>1, <2>4, NewJob
  <2> QED BY <2>3, <2>4
<1>4. CASE Accepted(id) /\ ~Accepted(j)
  <2>1. FtsAccepts /\ j = sub.id /\ \A q \in Rows(j)' : \E i \in DOMAIN sub.rows : sub.rows[i] = q
    BY <1>1, <1>4, NewJob
  <2>2. PICK q \in Rows(j)' : q[1] = r[1]
    BY DEF LiveOn, Rows
  <2>3. PICK i \in DOMAIN sub.rows : sub.rows[i] = q
    BY <2>1
  <2>4. q \in Row /\ request[q].state = "QUEUED" /\ request' = request
    BY <2>1, <2>3 DEF FtsAccepts, PostSound, TypeOK
  <2>5. r \in Rows(id)
    BY <1>4, RowsKeep DEF Owns
  <2>6. id # sub.id
    BY <1>4, <2>1
  <2>7. Owns(id, r)
    BY <2>5, <2>6, OwnsKeeps
  <2>8. request[r].state \in {"SUBMITTED", "DONE"} \/ (Deterministic /\ request[r].state = "QUEUED")
    BY <2>1, <2>6, <2>7 DEF Owns, FtsAccepts
  <2>9. r = q
    <3>1. r = <<r[1], r[2]>> /\ q = <<r[1], q[2]>> /\ r[1] \in Dest /\ r[2] \in Attempt /\ q[2] \in Attempt
      BY <2>2, <2>4, Constants
    <3>2. request[<<r[1], r[2]>>].state # "GONE" /\ request[<<r[1], q[2]>>].state # "GONE"
      BY <2>4, <2>8, <3>1
    <3>3. r[2] = q[2]
      BY <3>1, <3>2 DEF OneAttempt
    <3> QED BY <3>1, <3>3
  <2>10. Deterministic
    BY <2>4, <2>8, <2>9
  <2>11. r \in Rows(id)' /\ r \in Rows(j)'
    BY <2>2, <2>9 DEF Owns
  <2> QED BY <2>10, <2>11 DEF OneJob
<1> QED BY <1>2, <1>3, <1>4

(* A job that says DONE has written the file, or found it, and is Alone.   *)
LEMMA DoneStep ==
  ASSUME RefInv, TypeOK', [Next]_vars
  PROVE  DoneIsSafe'
<1> USE DEF RefInv, Inv
<1> SUFFICES ASSUME NEW id \in Id, NEW r \in Row, Owns(id, r)', SaysDone(id, r)'
             PROVE  Safe(r[1])'
  BY DEF DoneIsSafe
<1>0. r[1] \in Dest
  BY Constants
<1>1. Accepted(id)'
  BY EmptySeq DEF Owns, Rows, Accepted
<1>2. Accepted(id)
  BY <1>1, NewJob
<1>3. r \in Rows(id) /\ Owns(id, r)
  <2>1. r \in Rows(id)
    BY <1>2, RowsKeep DEF Owns
  <2> QED BY <1>2, <2>1, OwnsKeeps DEF FtsAccepts
<1>4. CASE dst' = dst /\ SaysDone(id, r)
  <2>1. Safe(r[1])
    BY <1>3, <1>4 DEF DoneIsSafe
  <2> QED BY <1>4, <2>1 DEF Safe
<1>k. /\ DOMAIN job'[id].files = DOMAIN job[id].files
      /\ Len(job'[id].files) = Len(job[id].files)
      /\ \A i \in DOMAIN job[id].files : job'[id].files[i].row = job[id].files[i].row
  BY <1>2, FilesKeep
<1>5. job'[id] = job[id] => SaysDone(id, r)
  BY DEF SaysDone, Decides
<1>6. ASSUME NEW j \in Id, FtsMoves(j) PROVE Safe(r[1])'
  <2>1. PICK i \in 1 .. Len(job[j].files), state \in FileState, found \in Found :
           /\ Moves(j, i, state, found)
           /\ \A d \in Dest : d # RowOf(j, i)[1] => dst'[d] = dst[d]
           /\ \/ state = "FINISHED"
              \/ state = "FAILED" /\ Recoverable(found, Tape(RowOf(j, i)))
              => \A d \in Dest : d = RowOf(j, i)[1] => Safe(d)'
    BY <1>6, FtsWrites
  <2>2. /\ job[j].files[i].state \in Pending /\ i \in DOMAIN job[j].files
        /\ job' = [job EXCEPT ![j] = [files |-> Advance(job[j].files, i, state, found),
                                      overwrite |-> job[j].overwrite]]
    BY <2>1, FilesType DEF Moves, SetFile
  <2>3. CASE j # id
    <3>1. job'[id] = job[id]
      BY <2>2, <2>3 DEF TypeOK
    <3>2. LiveOn(j, RowOf(j, i)[1])
      BY <2>2 DEF LiveOn, Over, RowOf
    <3>3. r[1] # RowOf(j, i)[1]
      BY <1>3, <2>3, <3>2 DEF Alone
    <3>4. dst'[r[1]] = dst[r[1]]
      BY <1>0, <2>1, <3>3
    <3>5. Safe(r[1])
      BY <1>3, <1>5, <3>1 DEF DoneIsSafe
    <3> QED BY <3>4, <3>5 DEF Safe
  <2>4. CASE j = id
    <3> DEFINE moved == Advance(job[id].files, i, state, found)
    <3>1. job'[id].files = moved
      BY <2>2, <2>4 DEF TypeOK
    <3>2. job[id].files \in Seq(File) /\ DOMAIN job[id].files = 1 .. Len(job[id].files)
      BY FilesType
    <3>3. \A k \in 1 .. Len(job[id].files) :
             moved[k] = Advanced(job[id].files, i, state, found, k)
      BY <2>4, <3>2, AdvanceShape
    <3> HIDE DEF moved
    <3>4. moved[i] = [row |-> job[id].files[i].row, state |-> state, found |-> found]
      BY <2>4, <3>3 DEF Advanced
    <3>5. \A k \in 1 .. Len(job[id].files) : k # i =>
             moved[k] = job[id].files[k] \/ moved[k].state = "SUBMITTED"
      <4> SUFFICES ASSUME NEW k \in 1 .. Len(job[id].files), k # i, moved[k] # job[id].files[k]
                   PROVE  moved[k].state = "SUBMITTED"
        OBVIOUS
      <4>1. moved[k] = [row |-> job[id].files[k].row, state |-> "SUBMITTED", found |-> "none"]
        BY <3>3 DEF Advanced
      <4> QED BY <4>1
    <3>6. CASE SaysDone(id, r)
      <4>1. r[1] # RowOf(j, i)[1]
        BY <2>2, <2>4, <3>6, DoneNotPending DEF RowOf
      <4>2. dst'[r[1]] = dst[r[1]]
        BY <1>0, <2>1, <4>1
      <4>3. Safe(r[1])
        BY <1>3, <3>6 DEF DoneIsSafe
      <4> QED BY <4>2, <4>3 DEF Safe
    <3>7. CASE ~SaysDone(id, r)
      <4>1. PICK k \in DOMAIN moved :
              /\ moved[k].row = r
              /\ \/ moved[k].state = "FINISHED"
                 \/ moved[k].state = "FAILED" /\ Decides(id, k)' /\ Recoverable(moved[k].found, Tape(r))
        BY <3>1 DEF SaysDone
      <4>2. k \in 1 .. Len(job[id].files) /\ Decides(id, k)' => Decides(id, k)
        BY <1>k, <3>1, <3>2 DEF Decides
      <4>3. k \in 1 .. Len(job[id].files)
        BY <1>k, <3>1, <3>2
      <4>4. k = i
        <5> SUFFICES ASSUME k # i PROVE FALSE
          OBVIOUS
        <5>1. moved[k] = job[id].files[k]
          BY <3>5, <4>1, <4>3
        <5> QED BY <3>2, <3>7, <4>1, <4>2, <4>3, <5>1 DEF SaysDone
      <4>5. job[id].files[i].row = r /\ moved[i].state = state /\ moved[i].found = found
        BY <3>4, <4>1, <4>4
      <4>6. RowOf(j, i) = r
        BY <2>4, <4>5 DEF RowOf
      <4> QED BY <1>0, <2>1, <4>1, <4>4, <4>5, <4>6
    <3> QED BY <3>6, <3>7
  <2> QED BY <2>3, <2>4
<1>7. ASSUME NEW j \in Id, Cancelled(j) PROVE dst' = dst /\ SaysDone(id, r)
  <2>1. dst' = dst
    BY <1>7 DEF Cancelled
  <2>2. CASE j # id
    BY <1>5, <1>7, <2>1, <2>2, CancelledShape DEF TypeOK
  <2>3. CASE j = id
    <3>1. DOMAIN job[id].files = 1 .. Len(job[id].files)
      BY FilesType
    <3>2. ASSUME NEW k \in DOMAIN job[id].files,
                 job'[id].files[k].state \in {"FINISHED", "FAILED"}
          PROVE  job'[id].files[k] = job[id].files[k]
      <4>1. CASE job[id].files[k].state \in Pending
        <5>1. job'[id].files[k] =
                [row |-> job[id].files[k].row, state |-> "CANCELED", found |-> "none"]
          BY <1>7, <2>3, <3>1, <4>1, CancelledShape
        <5> QED BY <3>2, <5>1
      <4>2. CASE job[id].files[k].state \notin Pending
        BY <1>7, <2>3, <3>1, <4>2, CancelledShape
      <4> QED BY <4>1, <4>2
    <3>3. SaysDone(id, r)
      BY <1>k, <3>2 DEF SaysDone, Decides
    <3> QED BY <2>1, <3>3
  <2> QED BY <2>2, <2>3
<1>8. ASSUME NEW d \in Dest, Migrates(d) PROVE Safe(r[1])'
  <2>1. Safe(r[1])
    BY <1>3, <1>5, <1>8 DEF DoneIsSafe, Migrates
  <2> QED BY <1>0, <1>8, <2>1 DEF Migrates, SetDst, Safe, TypeOK
<1>9. CASE FtsAccepts
  <2>1. job'[id] = job[id]
    BY <1>2, <1>9 DEF FtsAccepts, TypeOK
  <2> QED BY <1>4, <1>5, <1>9, <2>1 DEF FtsAccepts
<1>10. CASE dst' = dst /\ job' = job
  BY <1>4, <1>5, <1>10
<1> QED
  BY <1>4, <1>6, <1>7, <1>8, <1>9, <1>10
  DEF Next, vars, Submit, FtsRefuses, Answered, TimesOut, Unanswered, Receive,
      PollReads, PollAnswered, PollApplies, PollEnds, PollFails, Requeue

(* There is only one way to go on with a path.                             *)
LEMMA NextHopsOnce ==
  ASSUME TypeOK, OneAttempt, NEW A, NEW i, NEW B, NEW j, NextHops(A, i), NextHops(B, j)
  PROVE  A = B /\ i = j
<1>1. /\ A \subseteq Queued /\ i \in A /\ (\A q \in Queued : i[1] <= q[1])
      /\ (\A r \in A, q \in Queued : q[1] <= r[1] => q \in A)
      /\ B \subseteq Queued /\ j \in B /\ (\A q \in Queued : j[1] <= q[1])
      /\ (\A r \in B, q \in Queued : q[1] <= r[1] => q \in B)
      /\ Cardinality(A) = Cardinality(B)
  BY DEF NextHops
<1>2. \A q \in Queued : q \in Row /\ q[1] \in Nat /\ q[1] \in Dest /\ q[2] \in Attempt
                        /\ q = <<q[1], q[2]>> /\ request[q].state # "GONE"
  BY Constants DEF Queued
<1>3. i = j
  <2>1. i \in Queued /\ j \in Queued
    BY <1>1
  <2>2. i[1] = j[1]
    BY <1>1, <1>2, <2>1
  <2>3. i[2] = j[2]
    BY <1>2, <2>1, <2>2 DEF OneAttempt
  <2> QED BY <1>2, <2>1, <2>2, <2>3
<1>4. A \subseteq B \/ B \subseteq A
  <2> SUFFICES ASSUME NEW x \in A, x \notin B, NEW y \in B, y \notin A PROVE FALSE
    OBVIOUS
  <2>1. x \in Queued /\ y \in Queued /\ x[1] \in Nat /\ y[1] \in Nat
    BY <1>1, <1>2
  <2>2. x[1] <= y[1] \/ y[1] <= x[1]
    BY <2>1
  <2> QED BY <1>1, <2>1, <2>2
<1>5. IsFiniteSet(A) /\ IsFiniteSet(B)
  BY <1>1, QueuedFinite, FS_Subset
<1>6. A \subseteq B /\ A # B => Cardinality(A) < Cardinality(B)
  BY <1>5, FS_Subset, FS_CardinalityType
<1>7. B \subseteq A /\ A # B => Cardinality(B) < Cardinality(A)
  BY <1>5, FS_Subset, FS_CardinalityType
<1>8. Cardinality(A) \in Nat
  BY <1>5, FS_CardinalityType
<1> QED BY <1>1, <1>3, <1>4, <1>6, <1>7, <1>8

(* The rows of a path, and of the part of it that is submitted. *)
LEMMA RangeCard ==
  ASSUME NEW n \in Nat, NEW f \in [1 .. n -> Row],
         \A i \in 1 .. n : \A k \in 1 .. i - 1 : f[k][1] < f[i][1]
  PROVE  /\ IsFiniteSet({f[i] : i \in 1 .. n})
         /\ Cardinality({f[i] : i \in 1 .. n}) = n
<1> DEFINE S == {f[i] : i \in 1 .. n}
<1>1. IsFiniteSet(1 .. n)
  <2>1. 1 \in Int /\ n \in Int
    OBVIOUS
  <2> QED BY <2>1, FS_Interval
<1>2. f \in Bijection(1 .. n, S)
  <2>1. \A i, k \in 1 .. n : f[i] = f[k] => i = k
    <3> SUFFICES ASSUME NEW i \in 1 .. n, NEW k \in 1 .. n, f[i] = f[k] PROVE i = k
      OBVIOUS
    <3>1. f[i] \in Row /\ f[i][1] \in Nat
      BY Constants
    <3>2. ~(k < i) /\ ~(i < k)
      BY <3>1
    <3> QED BY <3>2
  <2> QED BY <2>1, Fun_IsBij
<1>3. ExistsBijection(1 .. n, S)
  BY <1>2 DEF ExistsBijection
<1> HIDE DEF S
<1>4. IsFiniteSet(S) /\ Cardinality(S) = n
  BY <1>1, <1>3, FS_Bijection, FS_CountingElements
<1> QED BY <1>4 DEF S

(* PathGroups: the group of a path is the way to go on.                    *)
LEMMA PathIsNext ==
  ASSUME TypeOK, MultiHop, NEW group \in Groups
  PROVE  /\ Settled
         /\ NextHops({group.rows[i] : i \in DOMAIN group.rows}, group.rows[1])
<1>1. PICK path \in QueuedSeqs : /\ group = [rows |-> Cut(path), overwrite |-> JobOverwrite(path)]
                                 /\ Settled /\ Len(path) = Cardinality(Queued)
  BY DEF Groups, PathGroups
<1> DEFINE n == Len(path)
           cut == Cut(path)
           hops == {cut[i] : i \in DOMAIN cut}
<1>2. /\ path \in Seq(Row) /\ n \in Nat \ {0} /\ DOMAIN path = 1 .. n
      /\ \A i \in 1 .. n : path[i] \in Row /\ request[path[i]].state = "QUEUED"
      /\ \A i \in 1 .. n : \A k \in 1 .. i - 1 : path[k][1] < path[i][1]
  BY QueuedSeqShape DEF Ascending
<1>3. /\ cut \in Seq(Row) /\ Len(cut) \in 1 .. n
      /\ \A i \in 1 .. Len(cut) : cut[i] = path[i]
      /\ Len(cut) = IF n < GroupBulk THEN n ELSE GroupBulk
  <2> DEFINE m == IF n < GroupBulk THEN n ELSE GroupBulk
  <2>1. m \in 1 .. n
    BY <1>2, Constants
  <2>2. cut = SubSeq(path, 1, m)
    BY DEF Cut
  <2> HIDE DEF m
  <2>3. Len(cut) = m
    <3>1. \A i \in 1 .. m : path[i] \in Row
      BY <1>2, <2>1
    <3>2. 1 \in Int /\ m \in Int /\ 1 <= m
      BY <2>1
    <3>3. Len(SubSeq(path, 1, m)) = IF 1 <= m THEN m - 1 + 1 ELSE 0
      BY <3>1, <3>2, SubSeqProperties
    <3> QED BY <2>1, <2>2, <3>3
  <2> QED BY <1>2, <2>3, CutShape DEF m
<1>4. DOMAIN cut = 1 .. Len(cut)
  BY <1>3
<1> HIDE DEF cut
<1>5. Queued = {path[i] : i \in 1 .. n}
  <2> DEFINE S == {path[i] : i \in 1 .. n}
  <2>1. S \subseteq Queued
    BY <1>2 DEF Queued
  <2>2. Cardinality(S) = n
    <3>1. path \in [1 .. n -> Row]
      BY <1>2
    <3> QED BY <1>2, <3>1, RangeCard
  <2> HIDE DEF S
  <2>3. Cardinality(S) = Cardinality(Queued)
    BY <1>1, <2>2
  <2>4. S = Queued
    BY <2>1, <2>3, QueuedFinite, FS_Subset
  <2> QED BY <2>4 DEF S
<1>6. Cardinality(hops) = Len(cut)
  <2>1. hops = {cut[i] : i \in 1 .. Len(cut)}
    BY <1>4
  <2>2. cut \in [1 .. Len(cut) -> Row] /\ Len(cut) \in Nat
    BY <1>3, <1>4
  <2>3. \A i \in 1 .. Len(cut) : \A k \in 1 .. i - 1 : cut[k][1] < cut[i][1]
    BY <1>2, <1>3
  <2> QED BY <2>1, <2>2, <2>3, RangeCard
<1>7. hops \subseteq Queued
  BY <1>3, <1>4, <1>5
<1>8. cut[1] \in hops /\ cut[1] = path[1]
  BY <1>3, <1>4
<1>o. \A i, k \in 1 .. n : path[i][1] \in Nat /\ (k < i => path[k][1] < path[i][1])
  <2>1. \A i \in 1 .. n : path[i][1] \in Nat
    BY <1>2, Constants
  <2> SUFFICES ASSUME NEW i \in 1 .. n, NEW k \in 1 .. n, k < i PROVE path[k][1] < path[i][1]
    BY <2>1
  <2>2. k \in 1 .. i - 1
    BY <1>2
  <2> QED BY <1>2, <2>2
<1>9. \A q \in Queued : cut[1][1] <= q[1]
  <2> SUFFICES ASSUME NEW i \in 1 .. n PROVE path[1][1] <= path[i][1]
    BY <1>5, <1>8
  <2>1. 1 \in 1 .. n /\ (1 < i \/ 1 = i)
    BY <1>2
  <2> QED BY <1>o, <2>1
<1>10. \A r \in hops, q \in Queued : q[1] <= r[1] => q \in hops
  <2> SUFFICES ASSUME NEW i \in 1 .. Len(cut), NEW k \in 1 .. n, path[k][1] <= path[i][1]
               PROVE  path[k] \in hops
    BY <1>3, <1>4, <1>5
  <2>1. i \in 1 .. n
    BY <1>3
  <2>2. ~(i < k)
    BY <1>o, <2>1
  <2>3. k \in 1 .. Len(cut)
    BY <1>3, <2>2
  <2> QED BY <1>3, <1>4, <2>3
<1>11. NextHops(hops, cut[1])
  BY <1>1, <1>3, <1>6, <1>7, <1>8, <1>9, <1>10 DEF NextHops
<1>12. group.rows = cut
  BY <1>1 DEF cut
<1> QED BY <1>1, <1>11, <1>12

(* The rows of a job: as they were, or those that were posted. *)
LEMMA JobRows ==
  ASSUME Inv, TypeOK', [Next]_vars, NEW id \in Id
  PROVE  \/ Rows(id)' = Rows(id)
         \/ /\ FtsAccepts /\ id = sub.id /\ ~Accepted(id)
            /\ Rows(id)' \subseteq Posted
            /\ ~MultiSources => Rows(id)' = Posted
            /\ MultiSources \/ Len(sub.rows) = 1 => Rows(id)' = {sub.rows[1]}
<1> USE DEF Inv
<1>1. CASE Accepted(id)
  BY <1>1, RowsKeep
<1>2. CASE ~Accepted(id) /\ ~Accepted(id)'
  BY <1>2, EmptySeq DEF Rows, Accepted
<1>3. CASE ~Accepted(id) /\ Accepted(id)'
  <2>1. /\ FtsAccepts /\ id = sub.id
        /\ \A r \in Rows(id)' : \E i \in DOMAIN sub.rows : sub.rows[i] = r
        /\ MultiSources \/ Len(sub.rows) = 1 => Rows(id)' = {sub.rows[1]}
    BY <1>3, NewJob
  <2>2. Rows(id)' \subseteq Posted
    BY <2>1 DEF Posted
  <2>3. ~MultiSources => Rows(id)' = Posted
    <3> SUFFICES ASSUME ~MultiSources PROVE Rows(id)' = Posted
      OBVIOUS
    <3>1. /\ sub.rows \in Seq(Row) /\ sub.rows # <<>> /\ sub.id \in Id
          /\ DOMAIN sub.rows = 1 .. Len(sub.rows)
      BY <2>1 DEF FtsAccepts, PostSound, TypeOK
    <3>2. job'[id].files = NewFiles(sub.rows)
      BY <2>1, <3>1 DEF FtsAccepts, TypeOK
    <3>3. /\ DOMAIN job'[id].files = 1 .. Len(sub.rows)
          /\ \A i \in 1 .. Len(sub.rows) : job'[id].files[i].row = sub.rows[i]
      BY <3>1, <3>2, NewFilesShape
    <3> QED BY <3>1, <3>3 DEF Rows, Posted
  <2> QED BY <1>3, <2>1, <2>2, <2>3
<1> QED BY <1>1, <1>2, <1>3

(* The hops are submitted under the same id until they are recorded.       *)
LEMMA PathStep ==
  ASSUME Inv, NoFuture, PathJobs, TypeOK', [Next]_vars
  PROVE  PathJobs'
<1> USE DEF Inv
<1> SUFFICES ASSUME Deterministic, MultiHop
             PROVE  /\ sub'.pc = "posted" => Settled' /\ NextHops(Posted, sub.id)'
                    /\ \A id \in Id : Rows(id)' \cap Queued' # {} =>
                         Settled' /\ NextHops(Rows(id), id)'
  BY DEF PathJobs
<1>m. ~MultiSources
  BY Constants
<1>p. /\ sub.pc = "posted" => Settled /\ NextHops(Posted, sub.id)
      /\ \A id \in Id : Rows(id) \cap Queued # {} => Settled /\ NextHops(Rows(id), id)
  BY DEF PathJobs
<1>1. CASE request' = request
  <2>1. Settled' = Settled /\ Queued' = Queued
    BY <1>1 DEF Settled, Queued
  <2>2. ASSUME NEW A, NEW i, NEW B, NEW j, NextHops(A, i), B = A, j = i
        PROVE  /\ B \subseteq Queued' /\ j \in B
               /\ \A q \in Queued' : j[1] <= q[1]
               /\ \A r \in B, q \in Queued' : q[1] <= r[1] => q \in B
               /\ Cardinality(B) =
                    IF Cardinality(Queued') < GroupBulk THEN Cardinality(Queued') ELSE GroupBulk
    BY <2>1, <2>2 DEF NextHops
  <2>3. sub'.pc = "posted" => Settled' /\ NextHops(Posted, sub.id)'
    <3>1. ASSUME NEW group \in Groups, Submit(group) PROVE Settled' /\ NextHops(Posted, sub.id)'
      <4>1. Settled /\ NextHops({group.rows[i] : i \in DOMAIN group.rows}, group.rows[1])
        BY PathIsNext
      <4>2. sub'.rows = group.rows /\ sub'.id = group.rows[1]
        BY <3>1 DEF Submit
      <4>3. Posted' = {group.rows[i] : i \in DOMAIN group.rows}
        BY <4>2 DEF Posted
      <4> QED BY <2>1, <2>2, <4>1, <4>2, <4>3 DEF NextHops
    <3>2. CASE sub'.pc = sub.pc /\ sub'.rows = sub.rows /\ sub'.id = sub.id
      <4>1. Posted' = Posted
        BY <3>2 DEF Posted
      <4> QED BY <1>p, <2>1, <2>2, <3>2, <4>1 DEF NextHops
    <3>3. CASE sub' = Idle
      BY <3>3 DEF Idle
    <3>4. ASSUME NEW id \in Id, FtsMoves(id) PROVE sub' = sub
      BY <3>4, FtsStep
    <3> QED
      BY <3>1, <3>2, <3>3, <3>4
      DEF Next, vars, TypeOK, FtsAccepts, FtsRefuses, Answered, TimesOut, Unanswered, Cancelled,
          Migrates, Receive, PollReads, PollAnswered, PollApplies, PollEnds, PollFails, Requeue
  <2>4. ASSUME NEW id \in Id, Rows(id)' \cap Queued' # {}
        PROVE  Settled' /\ NextHops(Rows(id), id)'
    <3>1. CASE Rows(id)' = Rows(id)
      <4>1. Settled /\ NextHops(Rows(id), id)
        BY <1>p, <2>1, <2>4, <3>1
      <4> QED BY <2>1, <2>2, <3>1, <4>1 DEF NextHops
    <3>2. CASE FtsAccepts /\ id = sub.id /\ Rows(id)' = Posted
      <4>1. Settled /\ NextHops(Posted, id)
        BY <1>p, <3>2 DEF FtsAccepts
      <4> QED BY <2>1, <2>2, <3>2, <4>1 DEF NextHops
    <3> QED BY <1>m, <3>1, <3>2, JobRows
  <2> QED BY <2>3, <2>4
<1>2. ASSUME NEW j \in Id, Records(j)
      PROVE  sub'.pc # "posted" /\ \A id \in Id : Rows(id)' \cap Queued' = {}
  <2>1. sub' = Idle /\ job' = job /\ sub.pc = "posted"
    BY <1>2 DEF Records
  <2>2. ASSUME NEW id \in Id, NEW r \in Rows(id)', r \in Queued' PROVE FALSE
    <3>1. r \in Row /\ request'[r].state = "QUEUED"
      BY <2>2 DEF Queued
    <3>2. request'[r] = request[r] /\ ~\E i \in DOMAIN sub.rows : sub.rows[i] = r
      BY <1>2, <3>1, RecordsShape
    <3>3. r \in Rows(id) /\ r \in Queued
      BY <2>1, <3>1, <3>2 DEF Rows, Queued
    <3>4. NextHops(Rows(id), id) /\ NextHops(Posted, sub.id)
      BY <1>p, <2>1, <3>3
    <3>5. Rows(id) = Posted
      BY <3>4, NextHopsOnce
    <3> QED BY <3>2, <3>3, <3>5 DEF Posted
  <2> QED BY <2>1, <2>2 DEF Idle
<1>3. ASSUME NEW q \in Row, request[q].state \in {"SUBMITTED", "FAILED", "LOST"}, sub' = sub,
             job' = job,
             \A r \in Row : request'[r].state = "QUEUED" =>
               request[r].state = "QUEUED" \/ \A id \in Id : r \notin Rows(id)
      PROVE  sub'.pc # "posted" /\ \A id \in Id : Rows(id)' \cap Queued' = {}
  <2>1. ~Settled
    BY <1>3 DEF Settled
  <2>2. \A id \in Id : Rows(id) \cap Queued = {} /\ Rows(id)' = Rows(id)
    BY <1>3, <1>p, <2>1 DEF Rows
  <2> QED BY <1>3, <1>p, <2>1, <2>2 DEF Queued
<1>4. ASSUME NEW report \in Report, Decided(report)
      PROVE  sub'.pc # "posted" /\ \A id \in Id : Rows(id)' \cap Queued' = {}
  <2>1. report.row \in Row /\ request[report.row].state = "SUBMITTED"
    BY <1>4, DecidedOnce, DecidedShape
  <2>2. \A r \in Row : request'[r].state = "QUEUED" => request[r].state = "QUEUED"
    BY <1>4, DecidedShape DEF Verdict
  <2>3. sub' = sub /\ job' = job
    BY <1>4 DEF Decided
  <2> QED BY <1>3, <2>1, <2>2, <2>3
<1>5. ASSUME NEW q \in Row, Requeue(q)
      PROVE  sub'.pc # "posted" /\ \A id \in Id : Rows(id)' \cap Queued' = {}
  <2> DEFINE next == <<q[1], q[2] + 1>>
  <2>1. request[q].state \in {"FAILED", "LOST"} /\ sub' = sub /\ job' = job
    BY <1>5 DEF Requeue
  <2>2. \A id \in Id : next \notin Rows(id)
    <3> SUFFICES ASSUME NEW id \in Id, next \in Rows(id) PROVE FALSE
      OBVIOUS
    <3>1. /\ q[1] \in Dest /\ q[2] \in Attempt /\ q[2] \in Nat /\ q = <<q[1], q[2]>>
      BY <1>5, RequeueShape
    <3>2. PICK a \in Attempt : next[2] <= a /\ request[<<next[1], a>>].state # "GONE"
      BY DEF NoFuture
    <3>3. a = q[2]
      BY <2>1, <3>1, <3>2 DEF OneAttempt
    <3> QED BY <3>1, <3>2, <3>3
  <2>3. \A r \in Row : request'[r].state = "QUEUED" => request[r].state = "QUEUED" \/ r = next
    BY <1>5, RequeueShape
  <2> QED BY <1>3, <2>1, <2>2, <2>3
<1> QED BY <1>1, <1>2, <1>4, <1>5, RequestStep

LEMMA SingleStep ==
  ASSUME Unregrouped, Inv, SingleJobs, TypeOK', [Next]_vars
  PROVE  SingleJobs'
<1> USE DEF Inv
<1> SUFFICES ASSUME Deterministic, ~MultiHop, NEW id \in Id PROVE Rows(id)' \subseteq {id}
  BY DEF SingleJobs
<1>1. CASE Rows(id)' = Rows(id)
  BY <1>1 DEF SingleJobs
<1>2. CASE /\ FtsAccepts /\ id = sub.id
           /\ MultiSources \/ Len(sub.rows) = 1 => Rows(id)' = {sub.rows[1]}
  <2>1. /\ sub.id = sub.rows[1] /\ sub.rows \in Seq(Row) /\ sub.rows # <<>>
        /\ Len(sub.rows) <= GroupBulk
    BY <1>2 DEF FtsAccepts, PostSound, TypeOK
  <2>2. MultiSources \/ Len(sub.rows) = 1
    <3>1. Len(sub.rows) \in Nat \ {0}
      BY <2>1, EmptySeq
    <3>2. GroupBulk = 1 \/ MultiSources
      BY DEF Unregrouped
    <3>3. GroupBulk = 1 => Len(sub.rows) <= 1
      BY <2>1
    <3>4. \A n \in Nat \ {0} : n <= 1 => n = 1
      OBVIOUS
    <3> QED BY <3>1, <3>2, <3>3, <3>4
  <2> QED BY <1>2, <2>1, <2>2
<1> QED BY <1>1, <1>2, JobRows

(* No request gets into a second job under a derived id.                   *)
LEMMA OneJobStep ==
  ASSUME Unregrouped, Inv, NoFuture, OneJob, PathJobs, SingleJobs, TypeOK', [Next]_vars
  PROVE  OneJob'
<1> USE DEF Inv
<1> SUFFICES ASSUME Deterministic, NEW j \in Id, NEW k \in Id, NEW r \in Rows(j)', r \in Rows(k)'
             PROVE  j = k
  BY DEF OneJob
<1>1. CASE ~MultiHop
  <2>1. Rows(j)' \subseteq {j} /\ Rows(k)' \subseteq {k}
    BY <1>1, SingleStep DEF SingleJobs
  <2> QED BY <2>1
<1>2. CASE MultiHop
  <2>m. ~MultiSources
    BY <1>2, Constants
  <2>1. ASSUME NEW a \in Id, NEW b \in Id, r \in Rows(a), FtsAccepts, b = sub.id, r \in Posted
        PROVE  a = b
    <3>1. r \in Row /\ request[r].state = "QUEUED"
      BY <2>1 DEF Posted, FtsAccepts, PostSound, TypeOK
    <3>2. NextHops(Rows(a), a) /\ NextHops(Posted, b)
      BY <1>2, <2>1, <3>1 DEF PathJobs, Queued, FtsAccepts
    <3> QED BY <3>2, NextHopsOnce
  <2>2. Rows(j)' = Rows(j) \/ (FtsAccepts /\ j = sub.id /\ Rows(j)' = Posted)
    BY <2>m, JobRows
  <2>3. Rows(k)' = Rows(k) \/ (FtsAccepts /\ k = sub.id /\ Rows(k)' = Posted)
    BY <2>m, JobRows
  <2> QED BY <2>1, <2>2, <2>3 DEF OneJob
<1> QED BY <1>1, <1>2

----------------------------------------------------------------------------
(* The invariant of the refinement holds at the start, and is kept.        *)
LEMMA RefInit == Init => RefInv
<1> SUFFICES ASSUME Init PROVE RefInv
  OBVIOUS
<1>1. Inv
  BY InvInit
<1>2. \A id \in Id : Rows(id) = {}
  BY DEF Init, NoJob, Rows
<1>3. sub.pc = "idle"
  BY DEF Init, Idle
<1> QED
  BY <1>1, <1>2, <1>3
  DEF RefInv, NoFuture, OneJob, PathJobs, SingleJobs, Alone, DoneIsSafe, Owns

LEMMA RefStep == Unregrouped /\ RefInv /\ [Next]_vars => RefInv'
<1> SUFFICES ASSUME Unregrouped, RefInv, [Next]_vars PROVE RefInv'
  OBVIOUS
<1>1. Inv' /\ TypeOK'
  BY InvStep DEF RefInv, Inv
<1>2. NoFuture' /\ PathJobs' /\ SingleJobs' /\ OneJob'
  BY <1>1, NoFutureStep, PathStep, SingleStep, OneJobStep DEF RefInv
<1> QED BY <1>1, <1>2, AloneStep, DoneStep DEF RefInv

(* The state of the abstract specification. *)
attemptOf == [d \in Dest |-> Last(d)]
stateOf == [d \in Dest |->
    CASE request[<<d, Last(d)>>].state = "QUEUED" -> "queued"
      [] request[<<d, Last(d)>>].state = "SUBMITTED" -> "submitted"
      [] request[<<d, Last(d)>>].state = "DONE" -> "done"
      [] OTHER -> "failed"]
safeOf == {d \in Dest : Safe(d)}

Shown(s) ==
  CASE s = "QUEUED" -> "queued" [] s = "SUBMITTED" -> "submitted" [] s = "DONE" -> "done"
    [] OTHER -> "failed"

(* What a destination looks like is what its request that is not gone      *)
(* does.                                                                   *)
LEMMA LastShape ==
  ASSUME OneAttempt, NEW r \in Row, request[r].state # "GONE"
  PROVE  attemptOf[r[1]] = r[2] /\ stateOf[r[1]] = Shown(request[r].state)
<1>1. r[1] \in Dest /\ r[2] \in Attempt /\ r = <<r[1], r[2]>>
  BY Constants
<1>2. Last(r[1]) \in Attempt /\ request[<<r[1], Last(r[1])>>].state # "GONE"
  BY <1>1 DEF Last
<1>3. Last(r[1]) = r[2]
  BY <1>1, <1>2 DEF OneAttempt
<1> QED BY <1>1, <1>3 DEF attemptOf, stateOf, Shown

LEMMA LastShapePrime ==
  ASSUME OneAttempt', NEW r \in Row, request'[r].state # "GONE"
  PROVE  attemptOf'[r[1]] = r[2] /\ stateOf'[r[1]] = Shown(request'[r].state)
<1>1. r[1] \in Dest /\ r[2] \in Attempt /\ r = <<r[1], r[2]>>
  BY Constants
<1> DEFINE last == Last(r[1])'
<1>2. last \in Attempt /\ request'[<<r[1], last>>].state # "GONE"
  BY <1>1 DEF Last
<1>3. last = r[2]
  BY <1>1, <1>2 DEF OneAttempt
<1> QED BY <1>1, <1>3 DEF attemptOf, stateOf, Shown

(* Every destination has one.                                              *)
LEMMA AliveRow ==
  ASSUME OneAttempt, NEW d \in Dest
  PROVE  \E r \in Row : r[1] = d /\ request[r].state # "GONE"
<1>1. PICK a \in Attempt : request[<<d, a>>].state # "GONE"
  BY DEF OneAttempt
<1> QED BY <1>1, Constants

(* A request that is DONE is that of a job that says so, and is safe. *)
LEMMA DoneShape ==
  ASSUME RefInv, NEW r \in Row, request[r].state = "DONE"
  PROVE  /\ request[r].eid \in Id /\ SaysDone(request[r].eid, r)
         /\ Owns(request[r].eid, r) /\ Safe(r[1])
<1>1. request[r].eid \in Id
  BY DEF RefInv, Inv, OneAttempt, TypeOK
<1>2. SaysDone(request[r].eid, r)
  BY DEF RefInv, Inv, VerdictSound, Verdict, Says
<1>3. Owns(request[r].eid, r)
  BY <1>2 DEF Owns, Rows, SaysDone
<1> QED BY <1>1, <1>2, <1>3 DEF RefInv, DoneIsSafe

(* FTS or the tape system change a destination that is not DONE. *)
LEMMA WriteRefines ==
  ASSUME RefInv, [Next]_vars, NEW r \in Row, request[r].state = "DONE"
  PROVE  Safe(r[1])'
<1> USE DEF RefInv, Inv
<1>0. /\ r[1] \in Dest /\ request[r].eid \in Id /\ SaysDone(request[r].eid, r)
      /\ Owns(request[r].eid, r) /\ Safe(r[1])
  BY DoneShape, Constants
<1>1. CASE dst' = dst
  BY <1>0, <1>1 DEF Safe
<1>2. ASSUME NEW j \in Id, FtsMoves(j) PROVE Safe(r[1])'
  <2>1. PICK i \in 1 .. Len(job[j].files), state \in FileState, found \in Found :
           /\ Moves(j, i, state, found)
           /\ \A d \in Dest : d # RowOf(j, i)[1] => dst'[d] = dst[d]
    BY <1>2, FtsWrites
  <2>2. job[j].files[i].state \in Pending /\ i \in DOMAIN job[j].files
    BY <2>1, FilesType DEF Moves
  <2>3. LiveOn(j, RowOf(j, i)[1])
    BY <2>2 DEF LiveOn, Over, RowOf
  <2>4. r[1] # RowOf(j, i)[1]
    <3> SUFFICES ASSUME r[1] = RowOf(j, i)[1] PROVE FALSE
      OBVIOUS
    <3>1. j = request[r].eid
      BY <1>0, <2>3 DEF Alone
    <3> QED BY <1>0, <2>2, <3>1, DoneNotPending DEF RowOf
  <2> QED BY <1>0, <2>1, <2>4 DEF Safe
<1>3. ASSUME NEW d \in Dest, Migrates(d) PROVE Safe(r[1])'
  BY <1>0, <1>3 DEF Migrates, SetDst, Safe, TypeOK
<1> QED
  BY <1>1, <1>2, <1>3
  DEF Next, vars, Submit, FtsAccepts, FtsRefuses, Answered, TimesOut, Unanswered, Cancelled,
      Receive, PollReads, PollAnswered, PollApplies, PollEnds, PollFails, Requeue

(* A step of FTS or of the tape system changes one destination at most. *)
LEMMA OneWritten ==
  ASSUME TypeOK, [Next]_vars
  PROVE  \/ dst' = dst
         \/ request' = request /\ \E d \in Dest : \A e \in Dest : e # d => dst'[e] = dst[e]
<1>1. ASSUME NEW j \in Id, FtsMoves(j)
      PROVE  request' = request /\ \E d \in Dest : \A e \in Dest : e # d => dst'[e] = dst[e]
  <2>1. PICK i \in 1 .. Len(job[j].files), state \in FileState, found \in Found :
           /\ Moves(j, i, state, found)
           /\ \A d \in Dest : d # RowOf(j, i)[1] => dst'[d] = dst[d]
    BY <1>1, FtsWrites
  <2>2. RowOf(j, i)[1] \in Dest
    BY FilesType, Constants DEF RowOf
  <2> QED BY <1>1, <2>1, <2>2, FtsStep
<1>2. ASSUME NEW d \in Dest, Migrates(d)
      PROVE  request' = request /\ \A e \in Dest : e # d => dst'[e] = dst[e]
  BY <1>2 DEF Migrates, SetDst, TypeOK
<1> QED
  BY <1>1, <1>2
  DEF Next, vars, Submit, FtsAccepts, FtsRefuses, Answered, TimesOut, Unanswered, Cancelled,
      Receive, PollReads, PollAnswered, PollApplies, PollEnds, PollFails, Requeue

(* What the steps of the abstract specification are, in terms of its state. *)
LEMMA AbstractSteps ==
  /\ stateOf' = stateOf /\ attemptOf' = attemptOf /\ safeOf' = safeOf => UNCHANGED Requests!vars
  /\ \A D \in SUBSET Dest :
       /\ \A d \in D : stateOf[d] = "queued"
       /\ stateOf' = [d \in Dest |-> IF d \in D THEN "submitted" ELSE stateOf[d]]
       /\ attemptOf' = attemptOf /\ safeOf' = safeOf
       => Requests!Next
  /\ \A d \in Dest :
       /\ stateOf[d] = "submitted" /\ d \in safeOf
       /\ stateOf' = [stateOf EXCEPT ![d] = "done"]
       /\ attemptOf' = attemptOf /\ safeOf' = safeOf
       => Requests!Next
  /\ \A d \in Dest :
       /\ stateOf[d] = "submitted"
       /\ stateOf' = [stateOf EXCEPT ![d] = "failed"]
       /\ attemptOf' = attemptOf /\ safeOf' = safeOf
       => Requests!Next
  /\ \A d \in Dest :
       /\ stateOf[d] = "failed" /\ attemptOf[d] < MaxAttempt
       /\ stateOf' = [stateOf EXCEPT ![d] = "queued"]
       /\ attemptOf' = [attemptOf EXCEPT ![d] = attemptOf[d] + 1]
       /\ safeOf' = safeOf
       => Requests!Next
  /\ \A d \in Dest :
       /\ stateOf[d] # "done"
       /\ safeOf' = IF d \in safeOf THEN safeOf \ {d} ELSE safeOf \cup {d}
       /\ stateOf' = stateOf /\ attemptOf' = attemptOf
       => Requests!Next
<1> USE DEF stateOf, attemptOf, safeOf
<1>1. stateOf' = stateOf /\ attemptOf' = attemptOf /\ safeOf' = safeOf => UNCHANGED Requests!vars
  BY DEF Requests!vars
<1>2. ASSUME NEW D \in SUBSET Dest,
             \A d \in D : stateOf[d] = "queued",
             stateOf' = [d \in Dest |-> IF d \in D THEN "submitted" ELSE stateOf[d]],
             attemptOf' = attemptOf /\ safeOf' = safeOf
      PROVE  Requests!Next
  BY <1>2 DEF Requests!Next, Requests!Submit
<1>3. ASSUME NEW d \in Dest, stateOf[d] = "submitted" /\ d \in safeOf,
             stateOf' = [stateOf EXCEPT ![d] = "done"], attemptOf' = attemptOf /\ safeOf' = safeOf
      PROVE  Requests!Next
  BY <1>3 DEF Requests!Next, Requests!Complete
<1>4. ASSUME NEW d \in Dest, stateOf[d] = "submitted",
             stateOf' = [stateOf EXCEPT ![d] = "failed"], attemptOf' = attemptOf /\ safeOf' = safeOf
      PROVE  Requests!Next
  BY <1>4 DEF Requests!Next, Requests!Fail
<1>5. ASSUME NEW d \in Dest, stateOf[d] = "failed" /\ attemptOf[d] < MaxAttempt,
             stateOf' = [stateOf EXCEPT ![d] = "queued"],
             attemptOf' = [attemptOf EXCEPT ![d] = attemptOf[d] + 1], safeOf' = safeOf
      PROVE  Requests!Next
  BY <1>5 DEF Requests!Next, Requests!Retry
<1>6. ASSUME NEW d \in Dest, stateOf[d] # "done",
             safeOf' = IF d \in safeOf THEN safeOf \ {d} ELSE safeOf \cup {d},
             stateOf' = stateOf /\ attemptOf' = attemptOf
      PROVE  Requests!Next
  BY <1>6 DEF Requests!Next, Requests!Write
<1> HIDE DEF stateOf, attemptOf, safeOf
<1> QED BY <1>1, <1>2, <1>3, <1>4, <1>5, <1>6

(* The initial state is one of the abstract specification.                 *)
LEMMA RefinesInit == Init => Requests!Init
<1> SUFFICES ASSUME Init PROVE Requests!Init
  OBVIOUS
<1>1. OneAttempt
  BY InvInit DEF Inv
<1>2. \A d \in Dest : <<d, 1>> \in Row /\ request[<<d, 1>>].state = "QUEUED"
  <2>1. 1 \in Attempt
    BY ConveyorAssumption DEF Attempt
  <2>2. \A r \in Row : r[2] = 1 => request[r].state = "QUEUED"
    BY DEF Init
  <2> QED BY <2>1, <2>2, Constants
<1>3. \A d \in Dest : attemptOf[d] = 1 /\ stateOf[d] = "queued"
  <2> SUFFICES ASSUME NEW d \in Dest PROVE attemptOf[d] = 1 /\ stateOf[d] = "queued"
    OBVIOUS
  <2> DEFINE r == <<d, 1>>
  <2>1. r \in Row /\ request[r].state = "QUEUED" /\ r[1] = d /\ r[2] = 1
    BY <1>2
  <2> HIDE DEF r
  <2>2. attemptOf[r[1]] = r[2] /\ stateOf[r[1]] = Shown(request[r].state)
    BY <1>1, <2>1, LastShape
  <2> QED BY <2>1, <2>2 DEF Shown
<1>4. stateOf = [d \in Dest |-> "queued"]
  <2>1. stateOf = [d \in Dest |-> stateOf[d]]
    BY DEF stateOf
  <2> QED BY <1>3, <2>1
<1>5. attemptOf = [d \in Dest |-> 1]
  <2>1. attemptOf = [d \in Dest |-> attemptOf[d]]
    BY DEF attemptOf
  <2> QED BY <1>3, <2>1
<1>6. safeOf \in SUBSET Dest
  BY DEF safeOf
<1> QED BY <1>4, <1>5, <1>6 DEF Requests!Init, stateOf, attemptOf, safeOf

(* A destination whose requests do not change looks the same. *)
LEMMA SameShown ==
  ASSUME OneAttempt, OneAttempt', NEW d \in Dest,
         \A r \in Row : r[1] = d => request'[r] = request[r]
  PROVE  stateOf'[d] = stateOf[d] /\ attemptOf'[d] = attemptOf[d]
<1>1. PICK r \in Row : r[1] = d /\ request[r].state # "GONE"
  BY AliveRow
<1>2. request'[r] = request[r] /\ request'[r].state # "GONE"
  BY <1>1
<1>3. attemptOf[r[1]] = r[2] /\ stateOf[r[1]] = Shown(request[r].state)
  BY <1>1, LastShape
<1>4. attemptOf'[r[1]] = r[2] /\ stateOf'[r[1]] = Shown(request'[r].state)
  BY <1>2, LastShapePrime
<1> QED BY <1>1, <1>2, <1>3, <1>4

LEMMA Domains ==
  /\ stateOf = [d \in Dest |-> stateOf[d]] /\ stateOf' = [d \in Dest |-> stateOf'[d]]
  /\ attemptOf = [d \in Dest |-> attemptOf[d]] /\ attemptOf' = [d \in Dest |-> attemptOf'[d]]
BY DEF stateOf, attemptOf

LEMMA ShownStates ==
  /\ Shown("QUEUED") = "queued" /\ Shown("SUBMITTED") = "submitted" /\ Shown("DONE") = "done"
  /\ Shown("FAILED") = "failed" /\ Shown("LOST") = "failed"
  /\ \A s \in RequestState \ {"GONE"} : Shown(s) = "done" => s = "DONE"
BY DEF Shown, RequestState

----------------------------------------------------------------------------
(* Each kind of step is one of the abstract specification. *)

LEMMA WriteStep ==
  ASSUME RefInv, Inv', [Next]_vars, request' = request,
         NEW d \in Dest, \A e \in Dest : e # d => dst'[e] = dst[e]
  PROVE  Requests!Next \/ UNCHANGED Requests!vars
<1> USE DEF RefInv, Inv
<1>1. stateOf' = stateOf /\ attemptOf' = attemptOf
  BY SameShown, Domains
<1>2. \A e \in Dest : e # d => (e \in safeOf' <=> e \in safeOf)
  BY DEF safeOf, Safe
<1>3. safeOf \subseteq Dest /\ safeOf' \subseteq Dest
  BY DEF safeOf
<1>4. CASE d \in safeOf' <=> d \in safeOf
  <2>1. safeOf' = safeOf
    BY <1>2, <1>3, <1>4
  <2> QED BY <1>1, <2>1, AbstractSteps
<1>5. CASE ~(d \in safeOf' <=> d \in safeOf)
  <2>1. safeOf' = IF d \in safeOf THEN safeOf \ {d} ELSE safeOf \cup {d}
    BY <1>2, <1>3, <1>5
  <2>2. PICK r \in Row : r[1] = d /\ request[r].state # "GONE"
    BY AliveRow
  <2>3. request[r].state # "DONE"
    <3> SUFFICES ASSUME request[r].state = "DONE" PROVE FALSE
      OBVIOUS
    <3>1. Safe(r[1]) /\ Safe(r[1])'
      BY DoneShape, WriteRefines
    <3> QED BY <1>5, <2>2, <3>1 DEF safeOf
  <2>4. stateOf[d] # "done"
    <3>1. stateOf[d] = Shown(request[r].state)
      BY <2>2, LastShape
    <3>2. request[r].state \in RequestState \ {"GONE"}
      BY <2>2 DEF TypeOK
    <3> QED BY <2>3, <3>1, <3>2, ShownStates
  <2> QED BY <1>1, <2>1, <2>4, AbstractSteps
<1> QED BY <1>4, <1>5

(* Records is Submit, Decided is Complete or Fail, Requeue is Retry.       *)
LEMMA SubmitStep ==
  ASSUME RefInv, Inv', safeOf' = safeOf, NEW id \in Id, Records(id)
  PROVE  Requests!Next
<1> USE DEF RefInv, Inv
<1> DEFINE D == {d \in Dest : \E i \in DOMAIN sub.rows : sub.rows[i][1] = d}
<1>1. \A i \in DOMAIN sub.rows : sub.rows[i] \in Row /\ request[sub.rows[i]].state = "QUEUED"
  <2>1. sub.rows \in Seq(Row)
    BY DEF TypeOK
  <2> QED BY <2>1, RecordsShape
<1>2. ASSUME NEW d \in D
      PROVE  /\ stateOf[d] = "queued" /\ stateOf'[d] = "submitted"
             /\ attemptOf'[d] = attemptOf[d]
  <2>1. PICK i \in DOMAIN sub.rows : sub.rows[i][1] = d
    OBVIOUS
  <2>2. PICK r \in Row : r = sub.rows[i] /\ r[1] = d /\ request[r].state = "QUEUED"
    BY <1>1, <2>1
  <2>3. request'[r].state = "SUBMITTED"
    BY <2>1, <2>2, RecordsShape
  <2>4. attemptOf[r[1]] = r[2] /\ stateOf[r[1]] = Shown(request[r].state)
    BY <2>2, LastShape
  <2>5. attemptOf'[r[1]] = r[2] /\ stateOf'[r[1]] = Shown(request'[r].state)
    BY <2>3, LastShapePrime
  <2> QED BY <2>2, <2>3, <2>4, <2>5, ShownStates
<1>3. ASSUME NEW d \in Dest, d \notin D
      PROVE  stateOf'[d] = stateOf[d] /\ attemptOf'[d] = attemptOf[d]
  <2>1. \A r \in Row : r[1] = d => request'[r] = request[r]
    BY <1>3, RecordsShape
  <2> QED BY <2>1, SameShown
<1> HIDE DEF D
<1>4. D \in SUBSET Dest
  BY DEF D
<1>5. \A d \in D : stateOf[d] = "queued"
  BY <1>2
<1>6. stateOf' = [d \in Dest |-> IF d \in D THEN "submitted" ELSE stateOf[d]]
  BY <1>2, <1>3, Domains
<1>7. attemptOf' = attemptOf
  BY <1>2, <1>3, <1>4, Domains
<1> QED BY <1>4, <1>5, <1>6, <1>7, AbstractSteps

LEMMA VerdictStepRefines ==
  ASSUME RefInv, Inv', safeOf' = safeOf, NEW report \in Report, Decided(report)
  PROVE  Requests!Next
<1> USE DEF RefInv, Inv
<1>1. PICK r \in Row : r = report.row
  BY DecidedShape
<1>2. /\ r[1] \in Dest /\ report.id \in Id /\ report.verdict \in Verdict
      /\ request[r].state = "SUBMITTED" /\ request[r].eid = report.id
      /\ request'[r].state = report.verdict
      /\ \A q \in Row : q # r => request'[q] = request[q]
  BY <1>1, DecidedShape, DecidedOnce, Constants
<1>3. attemptOf[r[1]] = r[2] /\ stateOf[r[1]] = "submitted"
  BY <1>2, LastShape, ShownStates
<1>4. attemptOf'[r[1]] = r[2] /\ stateOf'[r[1]] = Shown(report.verdict)
  BY <1>2, LastShapePrime DEF Verdict
<1>5. \A d \in Dest : d # r[1] => stateOf'[d] = stateOf[d] /\ attemptOf'[d] = attemptOf[d]
  <2> SUFFICES ASSUME NEW d \in Dest, d # r[1]
               PROVE  stateOf'[d] = stateOf[d] /\ attemptOf'[d] = attemptOf[d]
    OBVIOUS
  <2>1. \A q \in Row : q[1] = d => request'[q] = request[q]
    BY <1>2
  <2> QED BY <2>1, SameShown
<1>6. attemptOf' = attemptOf
  BY <1>3, <1>4, <1>5, Domains
<1>7. stateOf' = [stateOf EXCEPT ![r[1]] = Shown(report.verdict)]
  BY <1>4, <1>5, Domains
<1>8. CASE report.verdict = "DONE"
  <2>1. SaysDone(report.id, r)
    BY <1>1, <1>8 DEF Decided, Says
  <2>2. Owns(report.id, r)
    BY <1>2, <2>1 DEF Owns, Rows, SaysDone
  <2>3. r[1] \in safeOf
    BY <1>2, <2>1, <2>2 DEF DoneIsSafe, safeOf
  <2>4. stateOf' = [stateOf EXCEPT ![r[1]] = "done"]
    BY <1>7, <1>8, ShownStates
  <2> QED BY <1>2, <1>3, <1>6, <2>3, <2>4, AbstractSteps
<1>9. CASE report.verdict # "DONE"
  <2>1. stateOf' = [stateOf EXCEPT ![r[1]] = "failed"]
    BY <1>2, <1>7, <1>9, ShownStates DEF Verdict
  <2> QED BY <1>2, <1>3, <1>6, <2>1, AbstractSteps
<1> QED BY <1>8, <1>9

LEMMA RetryStep ==
  ASSUME RefInv, Inv', safeOf' = safeOf, NEW r \in Row, Requeue(r)
  PROVE  Requests!Next
<1> USE DEF RefInv, Inv
<1>1. PICK next \in Row : next = <<r[1], r[2] + 1>>
  BY RequeueShape
<1>2. /\ r[1] \in Dest /\ r[2] < MaxAttempt /\ next[1] = r[1] /\ next[2] = r[2] + 1
      /\ request[r].state \in {"FAILED", "LOST"}
      /\ request'[next].state = "QUEUED"
      /\ \A q \in Row : q # r /\ q # next => request'[q] = request[q]
  <2>1. request'[next].state = "QUEUED"
    <3>1. request'[next] = [state |-> "QUEUED", eid |-> NoId, overwrite |-> request[r].overwrite]
      BY <1>1, RequeueShape
    <3> QED BY <3>1
  <2>2. r[2] < MaxAttempt
    BY DEF Requeue
  <2> QED BY <1>1, <2>1, <2>2, RequeueShape
<1>3. attemptOf[r[1]] = r[2] /\ stateOf[r[1]] = "failed"
  BY <1>2, LastShape, ShownStates
<1>4. attemptOf'[r[1]] = attemptOf[r[1]] + 1 /\ stateOf'[r[1]] = "queued"
  BY <1>2, <1>3, LastShapePrime, ShownStates
<1>5. \A d \in Dest : d # r[1] => stateOf'[d] = stateOf[d] /\ attemptOf'[d] = attemptOf[d]
  <2> SUFFICES ASSUME NEW d \in Dest, d # r[1]
               PROVE  stateOf'[d] = stateOf[d] /\ attemptOf'[d] = attemptOf[d]
    OBVIOUS
  <2>1. \A q \in Row : q[1] = d => request'[q] = request[q]
    BY <1>2
  <2> QED BY <2>1, SameShown
<1>6. stateOf' = [stateOf EXCEPT ![r[1]] = "queued"]
  BY <1>4, <1>5, Domains
<1>7. attemptOf' = [attemptOf EXCEPT ![r[1]] = attemptOf[r[1]] + 1]
  BY <1>4, <1>5, Domains
<1>8. stateOf[r[1]] = "failed" /\ attemptOf[r[1]] < MaxAttempt
  BY <1>2, <1>3
<1> QED BY <1>2, <1>6, <1>7, <1>8, AbstractSteps

(* Every step is one of the abstract specification, or none.               *)
LEMMA RefinesStep == RefInv /\ Inv' /\ [Next]_vars => [Requests!Next]_(Requests!vars)
<1> SUFFICES ASSUME RefInv, Inv', [Next]_vars
             PROVE  Requests!Next \/ UNCHANGED Requests!vars
  OBVIOUS
<1> USE DEF RefInv, Inv
<1>1. CASE dst' = dst
  <2>1. safeOf' = safeOf
    BY <1>1 DEF safeOf, Safe
  <2>2. CASE UNCHANGED request
    <3>1. stateOf' = stateOf /\ attemptOf' = attemptOf
      BY <2>2, SameShown, Domains
    <3> QED BY <2>1, <3>1, AbstractSteps
  <2> QED BY <2>1, <2>2, RequestStep, SubmitStep, VerdictStepRefines, RetryStep
<1>2. CASE /\ request' = request
           /\ \E d \in Dest : \A e \in Dest : e # d => dst'[e] = dst[e]
  BY <1>2, WriteStep
<1> QED BY <1>1, <1>2, OneWritten

(* In every reachable state a job that says DONE has stored its file, and  *)
(* no other job is to touch it.                                            *)
THEOREM RefInvCorrect == ASSUME Unregrouped PROVE Spec => []RefInv
<1>1. RefInv /\ [Next]_vars => RefInv'
  BY RefStep
<1> QED BY <1>1, RefInit, PTL DEF Spec

(* The submissions and the status reports of fts3.py keep what a rule is   *)
(* promised (RequestLifecycle): each attempt is decided once, DONE only    *)
(* when the destination holds the file, and no orphan of a lost answer     *)
(* touches it.                                                             *)
THEOREM RefinementCorrect == ASSUME Unregrouped PROVE Spec => RequestSpec
<1>1. RefInv => Inv
  BY DEF RefInv
<1> QED BY <1>1, RefInvCorrect, RefinesInit, RefinesStep, PTL DEF Spec, RequestSpec, Requests!Spec

(* DONE is final for the request, the file stays where it is, and nothing  *)
(* that is late takes it back: no message, poll or orphaned job.           *)
DoneStays ==
  [][\A r \in Row : request[r].state = "DONE" => request'[r].state = "DONE" /\ Safe(r[1])']_vars

(* No late message, poll or job takes back that a request is DONE.         *)
THEOREM DoneCorrect == ASSUME Unregrouped PROVE Spec => DoneStays
<1>1. ASSUME RefInv, [Next]_vars, NEW r \in Row, request[r].state = "DONE"
      PROVE  request'[r].state = "DONE" /\ Safe(r[1])'
  <2> USE <1>1 DEF RefInv, Inv
  <2>1. ASSUME NEW id \in Id, Records(id) PROVE request'[r] = request[r]
    BY <2>1, RecordsShape
  <2>2. ASSUME NEW report \in Report, Decided(report) PROVE request'[r] = request[r]
    BY <2>2, DecidedOnce, DecidedShape
  <2>3. ASSUME NEW q \in Row, Requeue(q) PROVE request'[r] = request[r]
    <3>1. request[<<q[1], q[2] + 1>>].state = "GONE" /\ request[q].state \in {"FAILED", "LOST"}
      BY <2>3, RequeueShape
    <3> QED BY <2>3, <3>1, RequeueShape
  <2>4. request'[r] = request[r]
    BY <2>1, <2>2, <2>3, RequestStep
  <2> QED BY <2>4, WriteRefines
<1>2. RefInv /\ [Next]_vars => 
        [\A r \in Row : request[r].state = "DONE" => request'[r].state = "DONE" /\ Safe(r[1])']_vars
  BY <1>1
<1> QED BY <1>2, RefInvCorrect, PTL DEF Spec, DoneStays

=============================================================================
