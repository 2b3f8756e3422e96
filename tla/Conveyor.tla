------------------------------ MODULE Conveyor ------------------------------
(***************************************************************************)
(* The life of transfer requests around the FTS3 transfertool              *)
(* (src/shared/patches/rucio/fts3.py): a submitter groups queued requests  *)
(* into FTS jobs, a poller queries the jobs, a receiver gets a message for *)
(* each file, and a finisher queues a failed request again.  They share    *)
(* the requests in the database, and run concurrently with FTS.            *)
(*                                                                         *)
(* The code is what they call: submit, bulk_query, and the two status      *)
(* reports.  The daemons, FTS and the destinations are external, modelled  *)
(* as far as the code depends on them.  An HTTP call is several steps:     *)
(* FTS moves on, and messages arrive, between a call and its answer, and   *)
(* between an answer and the update made from it.                          *)
(***************************************************************************)
EXTENDS StatusReports, FiniteSets

CONSTANTS
  Dest,               (* the destination files, numbered in path order      *)
  TapeDest,           (* those on tape                                      *)
  NSources,           (* alternative sources of a transfer                  *)
  MultiHop,           (* the destinations are the hops of one path          *)
  GroupBulk,          (* group_bulk: requests in one job, at most           *)
  ArchiveTimeout,     (* archive_timeout is set on the tape RSEs            *)
  OverwriteCorrupted, (* overwrite_corrupted_files                          *)
  Deterministic,      (* use_deterministic_id                               *)
  MaxAttempt,         (* attempts of a transfer                             *)
  MaxJob,             (* bound: jobs FTS gives an id to, of its own         *)
  NoId                (* external_id is NULL                                *)

Attempt == 1 .. MaxAttempt
Row == Dest \X Attempt   \* a request: an attempt to write a destination
Id == IF Deterministic THEN Row ELSE 1 .. MaxJob   \* of jobs

ASSUME ConveyorAssumption ==
  /\ Dest \subseteq Nat /\ IsFiniteSet(Dest)
  /\ TapeDest \subseteq Dest
  /\ NSources \in Nat \ {0}
  /\ GroupBulk \in Nat \ {0}
  /\ MaxAttempt \in Nat \ {0} /\ MaxJob \in Nat
  /\ {MultiHop, ArchiveTimeout, OverwriteCorrupted, Deterministic} \subseteq BOOLEAN
  /\ NoId \notin Id
  /\ (MultiHop => NSources = 1)   \* build_job_params: one or the other

VARIABLES
  request, (* the rows of the database: state, external_id, overwrite       *)
  job,     (* the jobs of FTS: their files, and the overwrite parameter     *)
  dst,     (* what is at each destination                                   *)
  mail,    (* the completion messages FTS ever sent                         *)
  sub,     (* the submitter: where it is, its rows, and the answer          *)
  poll     (* the poller: where it is, its snapshot, and its reports        *)

vars == <<request, job, dst, mail, sub, poll>>

RequestState == {"GONE", "QUEUED", "SUBMITTED", "DONE", "FAILED", "LOST"}
Verdict == {"DONE", "FAILED", "LOST"}
File == [row : Row, state : FileState, found : Found]
Report == [row : Row, id : Id, verdict : Verdict, overwrite : BOOLEAN]
Message == [row : Row, id : Id, final : {"Ok", "Error"}, archiving : BOOLEAN, found : Found]

NoJob == [files |-> <<>>, overwrite |-> FALSE]
Idle == [pc |-> "idle", rows |-> <<>>, overwrite |-> FALSE,
         id |-> NoId, expected |-> NoId, answer |-> "none"]
NoPoll == [pc |-> "idle", rows |-> {}, reports |-> {}]

Tape(r) == r[1] \in TapeDest
Archiving(r) == Tape(r) /\ ArchiveTimeout
MultiSources == NSources > 1
Hops(files) == MultiHop /\ Len(files) > 1
Accepted(id) == job[id].files # <<>>
Pending == {"SUBMITTED", "ACTIVE", "ARCHIVING"}

(* FTS still writes, or is to write, the destination. *)
Busy(d) ==
  \E id \in Id : \E i \in DOMAIN job[id].files :
    /\ job[id].files[i].row[1] = d
    /\ job[id].files[i].state \in Pending \cup {"NOT_USED"}
    /\ JobState(job[id].files, MultiSources) \notin FINAL_FTS_JOB_STATES

Init ==
  /\ request = [r \in Row |-> [state |-> IF r[2] = 1 THEN "QUEUED" ELSE "GONE",
                               eid |-> NoId, overwrite |-> FALSE]]
  /\ job = [id \in Id |-> NoJob]
  /\ dst = [d \in Dest |-> "absent"]
  /\ mail = {}
  /\ sub = Idle
  /\ poll = NoPoll

SetRequest(r, state, eid, overwrite) ==
  request' = [request EXCEPT ![r] = [state |-> state, eid |-> eid, overwrite |-> overwrite]]

----------------------------------------------------------------------------
(* The submitter. *)

(* build_job_params: the overwrite parameter of a job is that of its last  *)
(* hop; TRUE on disk, and on tape once the request asks for it.            *)
JobOverwrite(rows) ==
  LET last == rows[Len(rows)] IN ~Tape(last) \/ request[last].overwrite

Queued == {r \in Row : request[r].state = "QUEUED"}
Ascending(rows) == \A i \in DOMAIN rows : \A k \in 1 .. i - 1 : rows[k][1] < rows[i][1]
QueuedSeqs ==
  {rows \in UNION {[1 .. n -> Queued] : n \in 1 .. Cardinality(Queued)} : Ascending(rows)}
Cut(path) == SubSeq(path, 1, IF Len(path) < GroupBulk THEN Len(path) ELSE GroupBulk)
Settled == \A r \in Row : request[r].state \in {"GONE", "QUEUED", "DONE"}

(* bulk_group_transfers: a path is a job of its own, with its first        *)
(* group_bulk hops and the parameters of the whole path; a transfer with   *)
(* several sources is a job of its own too; others share a job if their    *)
(* parameters are equal.                                                   *)
PathGroups ==
  {[rows |-> Cut(path), overwrite |-> JobOverwrite(path)] :
     path \in {rows \in QueuedSeqs : Settled /\ Len(rows) = Cardinality(Queued)}}
BulkGroups ==
  {[rows |-> rows, overwrite |-> JobOverwrite(rows)] :
     rows \in {rows \in QueuedSeqs :
       /\ Len(rows) <= IF MultiSources THEN 1 ELSE GroupBulk
       /\ \A i \in DOMAIN rows : JobOverwrite(<<rows[i]>>) = JobOverwrite(rows)}}
Groups == IF MultiHop THEN PathGroups ELSE BulkGroups

(* submit: FTS derives the id of a deterministic job from the first        *)
(* request, whether the transfertool knows it or not: whoami may fail.     *)
Submit(group) ==
  /\ sub.pc = "idle"
  /\ \E id \in Id :
       /\ IF Deterministic THEN id = group.rows[1]
          ELSE ~Accepted(id) /\ \A k \in 1 .. id - 1 : Accepted(k)
       /\ \E expected \in IF Deterministic THEN {id, NoId} ELSE {NoId} :
            sub' = [pc |-> "posted", rows |-> group.rows, overwrite |-> group.overwrite,
                    id |-> id, expected |-> expected, answer |-> "none"]
  /\ UNCHANGED <<request, job, dst, mail, poll>>

(* FTS: the files of a new job.  A source or a hop other than the first is *)
(* unused until its turn.                                                  *)
NewFiles(rows) ==
  [i \in 1 .. (IF MultiSources THEN NSources ELSE Len(rows)) |->
     [row |-> IF MultiSources THEN rows[1] ELSE rows[i],
      state |-> IF i > 1 /\ (MultiSources \/ MultiHop) THEN "NOT_USED" ELSE "SUBMITTED",
      found |-> "none"]]

FtsAccepts ==
  /\ sub.pc = "posted" /\ sub.answer = "none"
  /\ ~Accepted(sub.id)
  /\ \A i \in DOMAIN sub.rows : ~Busy(sub.rows[i][1])
  /\ job' = [job EXCEPT ![sub.id] = [files |-> NewFiles(sub.rows),
                                     overwrite |-> sub.overwrite]]
  /\ sub' = [sub EXCEPT !.answer = "accepted"]
  /\ UNCHANGED <<request, dst, mail, poll>>

(* FTS answers something else than 200: 409 for an id or a destination it  *)
(* has already, or any other error.                                        *)
FtsRefuses ==
  /\ sub.pc = "posted" /\ sub.answer = "none"
  /\ sub' = [sub EXCEPT !.answer = "refused"]
  /\ UNCHANGED <<request, job, dst, mail, poll>>

Record(rows, id) ==
  request' = [r \in Row |->
    IF \E i \in DOMAIN rows : rows[i] = r
    THEN [state |-> "SUBMITTED", eid |-> id, overwrite |-> request[r].overwrite]
    ELSE request[r]]

(* The answer is 200: its job_id is returned. *)
Answered ==
  /\ sub.pc = "posted" /\ sub.answer = "accepted"
  /\ Record(sub.rows, sub.id)
  /\ sub' = Idle
  /\ UNCHANGED <<job, dst, mail, poll>>

(* ReadTimeout: TransferToolTimeout is raised, whatever FTS did. *)
TimesOut ==
  /\ sub.pc = "posted"
  /\ sub' = Idle
  /\ UNCHANGED <<request, job, dst, mail, poll>>

(* Mutant: the expected id is not used. *)
UnansweredRaises ==
  /\ sub.pc = "posted"
  /\ sub' = Idle
  /\ UNCHANGED <<request, job, dst, mail, poll>>

(* Any other exception, or an answer that is not 200.  A response with an  *)
(* error status is false in Python, so that 409 is no duplicate here: the  *)
(* expected id is returned if there is one.                                *)
Unanswered ==
  /\ sub.pc = "posted"
  /\ IF sub.expected # NoId THEN Record(sub.rows, sub.expected)
     ELSE UNCHANGED request   \* TransferToolWrongAnswer
  /\ sub' = Idle
  /\ UNCHANGED <<job, dst, mail, poll>>

----------------------------------------------------------------------------
(* FTS. *)

(* A source that failed makes way for the next one, a hop that is through  *)
(* for the next hop.                                                       *)
Advance(files, i, state, found) ==
  [k \in DOMAIN files |->
     IF k = i THEN [row |-> files[i].row, state |-> state, found |-> found]
     ELSE IF /\ k = i + 1 /\ files[k].state = "NOT_USED"
             /\ \/ MultiSources /\ state = "FAILED"
                \/ Hops(files) /\ state = "FINISHED"
          THEN [row |-> files[k].row, state |-> "SUBMITTED", found |-> "none"]
     ELSE files[k]]

SetFile(id, i, state, found) ==
  job' = [job EXCEPT ![id] = [files |-> Advance(job[id].files, i, state, found),
                              overwrite |-> job[id].overwrite]]

Send(id, i, final, archiving, found) ==
  mail' = mail \cup {[row |-> job[id].files[i].row, id |-> id, final |-> final,
                      archiving |-> archiving, found |-> found]}

(* A source that failed before the last one is not reported: external to   *)
(* the status report, which does not look at the other sources.            *)
FileFails(id, i, found) ==
  /\ SetFile(id, i, "FAILED", found)
  /\ IF MultiSources /\ i < Len(job[id].files) THEN UNCHANGED mail
     ELSE Send(id, i, "Error", FALSE, found)

At(id, i, state) == i \in DOMAIN job[id].files /\ job[id].files[i].state = state
RowOf(id, i) == job[id].files[i].row
SetDst(d, what) == dst' = [dst EXCEPT ![d] = what]

(* The job asks for a report on the destination if it has an archive timeout. *)
Finding(r) == IF Archiving(r) THEN dst[r[1]] ELSE "unreported"

(* overwrite, or overwrite_hop: every hop but the last may overwrite. *)
MayWrite(id, i) ==
  \/ dst[RowOf(id, i)[1]] = "absent"
  \/ job[id].overwrite
  \/ Hops(job[id].files) /\ i < Len(job[id].files)

(* The transfer starts to write, finds that it must not, or fails before. *)
Begin(id, i) ==
  /\ At(id, i, "SUBMITTED")
  /\ LET r == RowOf(id, i) IN
     \/ /\ MayWrite(id, i)
        /\ SetFile(id, i, "ACTIVE", "none")
        /\ SetDst(r[1], "bad")
        /\ UNCHANGED mail
     \/ /\ ~MayWrite(id, i)
        /\ FileFails(id, i, Finding(r))
        /\ UNCHANGED dst
     \/ /\ FileFails(id, i, "none")
        /\ UNCHANGED dst
  /\ UNCHANGED <<request, sub, poll>>

(* All is written: on tape, it is archived next. *)
Written(id, i) ==
  /\ At(id, i, "ACTIVE")
  /\ LET r == RowOf(id, i) IN
     /\ SetDst(r[1], IF Tape(r) THEN "buffered" ELSE "stored")
     /\ SetFile(id, i, IF Archiving(r) THEN "ARCHIVING" ELSE "FINISHED", "none")
     /\ Send(id, i, "Ok", Archiving(r), "none")
  /\ UNCHANGED <<request, sub, poll>>

WriteFails(id, i) ==
  /\ At(id, i, "ACTIVE")
  /\ \E what \in {"absent", "bad"} : SetDst(RowOf(id, i)[1], what)
  /\ FileFails(id, i, "none")
  /\ UNCHANGED <<request, sub, poll>>

(* The tape system moves a file to tape, job or no job. *)
Migrates(d) ==
  /\ dst[d] = "buffered"
  /\ SetDst(d, "stored")
  /\ UNCHANGED <<request, job, mail, sub, poll>>

Archived(id, i) ==
  /\ At(id, i, "ARCHIVING")
  /\ dst[RowOf(id, i)[1]] = "stored"
  /\ SetFile(id, i, "FINISHED", "none")
  /\ Send(id, i, "Ok", FALSE, "none")
  /\ UNCHANGED <<request, dst, sub, poll>>

ArchiveTimesOut(id, i) ==
  /\ At(id, i, "ARCHIVING")
  /\ FileFails(id, i, "none")
  /\ UNCHANGED <<request, dst, sub, poll>>

(* cancel, or an operator of FTS: no message has the state Ok or Error. *)
Cancelled(id) ==
  /\ \E i \in DOMAIN job[id].files : job[id].files[i].state \in Pending
  /\ job' = [job EXCEPT ![id] = [
       files |-> [i \in DOMAIN job[id].files |->
         IF job[id].files[i].state \in Pending
         THEN [row |-> RowOf(id, i), state |-> "CANCELED", found |-> "none"]
         ELSE job[id].files[i]],
       overwrite |-> job[id].overwrite]]
  /\ UNCHANGED <<request, dst, mail, sub, poll>>

----------------------------------------------------------------------------
(* The reports, and what is made of them. *)

(* Mutant: the external_id of the request is not compared. *)
AppliesToAnyJob(r, report) == request[r].state \notin {"GONE", report.verdict}

(* Both reports leave a request alone that is gone, that belongs to        *)
(* another job, or that has the state already.  The receiver's report      *)
(* reads the request as it is; the poller's compares its snapshot, and the *)
(* update, external, compares the row again.                               *)
Applies(r, report) ==
  /\ request[r].state \notin {"GONE", report.verdict}
  /\ request[r].eid = report.id

Update(r, report) ==
  IF Applies(r, report)
  THEN SetRequest(r, report.verdict, report.id, request[r].overwrite \/ report.overwrite)
  ELSE UNCHANGED request

ReportOf(r, id, verdict, found) ==
  [row |-> r, id |-> id, verdict |-> verdict,
   overwrite |-> OverwriteCorrupted /\ AsksOverwrite(verdict, found)]

(* The receiver gets a message: late, out of order, twice, or never. *)
Receive(m) ==
  LET verdict == MessageVerdict(m, Tape(m.row))
      report == ReportOf(m.row, m.id, verdict, m.found)
  IN  /\ verdict # "none"
      /\ Applies(m.row, report)
      /\ Update(m.row, report)
      /\ UNCHANGED <<job, dst, mail, sub, poll>>

(* The poller takes a snapshot of what is submitted, queries the jobs, and *)
(* makes an update of each report in turn.                                 *)
PollReads ==
  LET submitted == {r \in Row : request[r].state = "SUBMITTED"}
  IN  /\ poll.pc = "idle" /\ submitted # {}
      /\ poll' = [pc |-> "query", rows |-> {<<r, request[r].eid>> : r \in submitted},
                  reports |-> {}]
      /\ UNCHANGED <<request, job, dst, mail, sub>>

(* Mutants: a file without a verdict is reported; each source of a job is  *)
(* taken for the only one.                                                 *)
FileReportsUndecided(r, id) ==
  LET files == job[id].files
      verdict(i) == ApiVerdict(files[i], JobState(files, MultiSources), MultiSources, Tape(r))
  IN  {ReportOf(r, id, verdict(i), files[i].found) :
         i \in {k \in Responses(files, MultiSources) : files[k].row = r}}
FileReportsEach(r, id) ==
  LET files == job[id].files
      verdict(i) == ApiVerdict(files[i], JobState(files, FALSE), FALSE, Tape(r))
  IN  {ReportOf(r, id, verdict(i), files[i].found) :
         i \in {k \in Responses(files, FALSE) : files[k].row = r /\ verdict(k) # "none"}}

FileReports(r, id) ==
  LET files == job[id].files
      verdict(i) == ApiVerdict(files[i], JobState(files, MultiSources), MultiSources, Tape(r))
  IN  {ReportOf(r, id, verdict(i), files[i].found) :
         i \in {k \in Responses(files, MultiSources) : files[k].row = r /\ verdict(k) # "none"}}

(* Mutant: a job that is unknown is left alone. *)
ReportsOnKnown(r, id) == IF Accepted(id) THEN FileReports(r, id) ELSE {}

(* A job that FTS does not know is answered with None: it is lost. *)
ReportsOn(r, id) ==
  IF Accepted(id) THEN FileReports(r, id) ELSE {ReportOf(r, id, "LOST", "none")}

PollAnswered ==
  /\ poll.pc = "query"
  /\ poll' = [pc |-> "apply", rows |-> {},
              reports |-> UNION {ReportsOn(s[1], s[2]) : s \in poll.rows}]
  /\ UNCHANGED <<request, job, dst, mail, sub>>

PollApplies ==
  /\ poll.pc = "apply"
  /\ \E report \in poll.reports :
       /\ Update(report.row, report)
       /\ poll' = [poll EXCEPT !.reports = @ \ {report}]
  /\ UNCHANGED <<job, dst, mail, sub>>

PollEnds ==
  /\ poll.pc = "apply" /\ poll.reports = {}
  /\ poll' = NoPoll
  /\ UNCHANGED <<request, job, dst, mail, sub>>

(* The query fails, is answered with an error, or the poller dies. *)
PollFails ==
  /\ poll.pc # "idle"
  /\ poll' = NoPoll
  /\ UNCHANGED <<request, job, dst, mail, sub>>

(* The finisher, external: another attempt takes the place of the request, *)
(* and inherits its attributes.                                            *)
Requeue(r) ==
  /\ request[r].state \in {"FAILED", "LOST"}
  /\ r[2] < MaxAttempt
  /\ request' = [request EXCEPT
       ![r] = [state |-> "GONE", eid |-> request[r].eid, overwrite |-> request[r].overwrite],
       ![<<r[1], r[2] + 1>>] =
         [state |-> "QUEUED", eid |-> NoId, overwrite |-> request[r].overwrite]]
  /\ UNCHANGED <<job, dst, mail, sub, poll>>

----------------------------------------------------------------------------
FtsMoves(id) ==
  \E i \in DOMAIN job[id].files :
    Begin(id, i) \/ Written(id, i) \/ WriteFails(id, i) \/ Archived(id, i) \/ ArchiveTimesOut(id, i)

Next ==
  \/ \E group \in Groups : Submit(group)
  \/ FtsAccepts \/ FtsRefuses \/ Answered \/ TimesOut \/ Unanswered
  \/ \E id \in Id : FtsMoves(id) \/ Cancelled(id)
  \/ \E d \in Dest : Migrates(d)
  \/ \E m \in mail : Receive(m)
  \/ PollReads \/ PollAnswered \/ PollApplies \/ PollEnds \/ PollFails
  \/ \E r \in Row : Requeue(r)

Spec == Init /\ [][Next]_vars

(* FTS works on its jobs, and the daemons run for ever; a poll that is     *)
(* repeated does not fail every time, a submission that is repeated is     *)
(* not refused or lost every time.  Nothing is promised of the messages.   *)
Fairness ==
  /\ \A id \in Id : WF_vars(FtsMoves(id))
  /\ WF_vars(\E d \in Dest : Migrates(d))
  /\ SF_vars(\E group \in Groups : Submit(group) /\ (Deterministic => sub'.expected # NoId))
  /\ WF_vars(Answered \/ TimesOut \/ Unanswered)
  /\ SF_vars(FtsAccepts) /\ SF_vars(Answered \/ (sub.expected # NoId /\ Unanswered))
  /\ WF_vars(PollReads) /\ SF_vars(PollAnswered) /\ SF_vars(PollApplies) /\ WF_vars(PollEnds)
  /\ \A r \in Row : WF_vars(Requeue(r))

FairSpec == Spec /\ Fairness

----------------------------------------------------------------------------
TypeOK ==
  /\ request \in [Row -> [state : RequestState, eid : Id \cup {NoId}, overwrite : BOOLEAN]]
  /\ job \in [Id -> [files : Seq(File), overwrite : BOOLEAN]]
  /\ dst \in [Dest -> {"absent", "bad", "buffered", "stored"}]
  /\ mail \subseteq Message
  /\ sub \in [pc : {"idle", "posted"}, rows : Seq(Row), overwrite : BOOLEAN, id : Id \cup {NoId},
              expected : Id \cup {NoId}, answer : {"none", "accepted", "refused"}]
  /\ poll \in [pc : {"idle", "query", "apply"}, rows : SUBSET (Row \X (Id \cup {NoId})),
               reports : SUBSET Report]

(* Whichever report came first, the state of a request is what its own job *)
(* says in the end: no source was used if it FAILED, and FTS has given up  *)
(* on all of them; one was, or the right file was there, if it is DONE;    *)
(* and FTS never had the job of a request that is LOST.                    *)
VerdictMatchesJob ==
  \A r \in Row : request[r].state \in Verdict =>
    LET files == job[request[r].eid].files
        mine == {i \in DOMAIN files : files[i].row = r}
    IN  CASE request[r].state = "DONE" ->
               \E i \in mine : \/ files[i].state = "FINISHED"
                               \/ Recoverable(files[i].found, Tape(r))
          [] request[r].state = "FAILED" ->
               /\ mine # {}
               /\ \A i \in mine : files[i].state \in FINAL_FTS_FILE_STATES \ {"FINISHED"}
          [] request[r].state = "LOST" -> files = <<>>

(* The destination holds the file, whole, and on tape if the job waits for *)
(* that.                                                                   *)
Safe(d) ==
  \/ dst[d] = "stored"
  \/ dst[d] = "buffered" /\ d \in TapeDest /\ ~ArchiveTimeout

(* What a request looks like to its rule: its last attempt. *)
Last(d) == CHOOSE a \in Attempt : request[<<d, a>>].state # "GONE"
Requests == INSTANCE RequestLifecycle WITH
  attempt <- [d \in Dest |-> Last(d)],
  state <- [d \in Dest |->
    CASE request[<<d, Last(d)>>].state = "QUEUED" -> "queued"
      [] request[<<d, Last(d)>>].state = "SUBMITTED" -> "submitted"
      [] request[<<d, Last(d)>>].state = "DONE" -> "done"
      [] OTHER -> "failed"],
  safe <- {d \in Dest : Safe(d)}

(* The poller and the receiver never contradict each other, nor themselves: *)
(* an attempt is decided once, by its own job, keeps its verdict until the  *)
(* finisher takes over, and no job, an orphan of a lost answer included,    *)
(* touches a destination that was said to be DONE.                          *)
RequestSpec == Requests!Spec

(* A request may overwrite a file on tape only after an earlier attempt at *)
(* the same destination was reported to have found a corrupted file there. *)
OverwriteWasCorrupted ==
  \A r \in Row : request[r].overwrite =>
    \E id \in Id : \E i \in DOMAIN job[id].files :
      job[id].files[i].row[1] = r[1] /\ Corrupted(job[id].files[i].found)

(* A request that is submitted gets a verdict, messages or no messages. *)
Settles == \A r \in Row : request[r].state = "SUBMITTED" ~> request[r].state # "SUBMITTED"

(* Every transfer ends: it is DONE, its last attempt is not, or that of an *)
(* earlier hop of its path is not.                                         *)
Ends ==
  \A d \in Dest : <>[](\/ \E a \in Attempt : request[<<d, a>>].state = "DONE"
                       \/ request[<<d, MaxAttempt>>].state \in Verdict
                       \/ MultiHop /\ \E e \in Dest : /\ e < d
                            /\ request[<<e, MaxAttempt>>].state \in {"FAILED", "LOST"})
=============================================================================
