-------------------------- MODULE ConveyorInvariant --------------------------
(***************************************************************************)
(* The inductive invariant of Conveyor, and the lemmas about its operators *)
(* and its steps that the proofs rest on: the shape of what is submitted,  *)
(* of what FTS does to the files of a job, and of what the reports make of *)
(* it; that the types are kept; and what no step takes back: the rows of a *)
(* job, the files that ended, an id once recorded.                         *)
(***************************************************************************)
EXTENDS Conveyor, FiniteSetTheorems, SequenceTheorems, TLAPS

(* FTS is done with all files of the job. *)
Over(id) == \A i \in DOMAIN job[id].files : job[id].files[i].state \notin Pending

(* The file i of the job is the one that serves the request in the end: in *)
(* a job of several sources only the last failure counts.                  *)
Decides(id, i) == MultiSources => i = Len(job[id].files)

(* What the job says of a request. *)
SaysDone(id, r) ==
  \E i \in DOMAIN job[id].files :
    LET file == job[id].files[i] IN
    /\ file.row = r
    /\ \/ file.state = "FINISHED"
       \/ file.state = "FAILED" /\ Decides(id, i) /\ Recoverable(file.found, Tape(r))

SaysFailed(id, r) ==
  /\ \E i \in DOMAIN job[id].files : job[id].files[i].row = r
  /\ \A i \in DOMAIN job[id].files : job[id].files[i].row = r =>
       /\ job[id].files[i].state \in {"FAILED", "CANCELED", "NOT_USED"}
       /\ job[id].files[i].state = "NOT_USED" => Over(id)
  /\ ~SaysDone(id, r)

Says(id, r, verdict) ==
  CASE verdict = "DONE" -> SaysDone(id, r)
    [] verdict = "FAILED" -> SaysFailed(id, r)
    [] verdict = "LOST" -> ~Accepted(id)

(* A corrupted file was found at the destination. *)
FoundCorrupted(d) ==
  \E id \in Id : \E i \in DOMAIN job[id].files :
    job[id].files[i].row[1] = d /\ Corrupted(job[id].files[i].found)

----------------------------------------------------------------------------
(* A request has one attempt at a time, and an id once it is submitted. *)
OneAttempt ==
  /\ \A d \in Dest : \E a \in Attempt : request[<<d, a>>].state # "GONE"
  /\ \A d \in Dest : \A a, b \in Attempt :
       request[<<d, a>>].state # "GONE" /\ request[<<d, b>>].state # "GONE" => a = b
  /\ \A d \in Dest : \A a, b \in Attempt :
       request[<<d, a>>].state # "GONE" /\ a < b => request[<<d, b>>].eid = NoId
  /\ \A r \in Row : request[r].state # "GONE" =>
       (request[r].eid = NoId <=> request[r].state = "QUEUED")

(* What is posted. *)
PostSound ==
  sub.pc = "posted" =>
    /\ sub.rows # <<>> /\ Ascending(sub.rows)
    /\ \A i \in DOMAIN sub.rows : request[sub.rows[i]].state = "QUEUED"
    /\ Len(sub.rows) <= GroupBulk /\ (MultiSources => Len(sub.rows) = 1)
    /\ sub.id \in Id /\ sub.expected \in {sub.id, NoId}
    /\ IF Deterministic THEN sub.id = sub.rows[1] ELSE sub.expected = NoId
    /\ sub.answer = "accepted" => Accepted(sub.id)

(* The files of a job: each of its own destination, or the sources of one  *)
(* request, tried in turn.                                                 *)
JobSound(files) ==
  \A i, k \in DOMAIN files :
    /\ files[i].found # "none" => files[i].state = "FAILED"
    /\ ~MultiSources /\ files[i].row[1] = files[k].row[1] => i = k
    /\ MultiSources =>
         /\ files[i].row = files[k].row
         /\ i < k /\ files[k].state # "NOT_USED" => files[i].state = "FAILED"
         /\ k = i + 1 /\ files[i].state = "FAILED" => files[k].state # "NOT_USED"
JobsSound == \A id \in Id : JobSound(job[id].files)

(* A message tells how a file ended. *)
MailSound ==
  \A m \in mail : \E i \in DOMAIN job[m.id].files :
    LET file == job[m.id].files[i] IN
    /\ file.row = m.row
    /\ m.final = "Ok" /\ ~m.archiving => file.state = "FINISHED"
    /\ m.final = "Error" =>
         file.state = "FAILED" /\ Decides(m.id, i) /\ file.found = m.found

(* An id that is recorded is that of a job, or of one that FTS will never  *)
(* have: its first request was recorded with it.                           *)
Recorded(id) == Accepted(id) \/ (Deterministic /\ request[id].eid # NoId)
IdsRecorded == \A r \in Row : request[r].eid # NoId => Recorded(request[r].eid)

(* What the poller knows. *)
ReportSound(report) ==
  /\ request[report.row].eid = report.id
  /\ Says(report.id, report.row, report.verdict)
  /\ report.overwrite => FoundCorrupted(report.row[1])
PollSound ==
  /\ \A s \in poll.rows : s[2] # NoId /\ request[s[1]].eid = s[2]
  /\ \A report \in poll.reports : ReportSound(report)

VerdictSound ==
  \A r \in Row : request[r].state \in Verdict => Says(request[r].eid, r, request[r].state)

OverwriteSound == \A r \in Row : request[r].overwrite => FoundCorrupted(r[1])

Inv == 
  /\ TypeOK
  /\ OneAttempt /\ PostSound /\ JobsSound /\ MailSound /\ IdsRecorded
  /\ PollSound /\ VerdictSound /\ OverwriteSound

----------------------------------------------------------------------------
(* What ConveyorAssumption says of the constants, and what a row is.       *)
LEMMA Constants ==
  /\ NSources \in Nat \ {0} /\ GroupBulk \in Nat \ {0}
  /\ MultiSources => ~MultiHop
  /\ MultiSources \in BOOLEAN
  /\ \A r \in Row : /\ r[1] \in Dest /\ r[2] \in Attempt /\ r = <<r[1], r[2]>>
                    /\ r[1] \in Nat /\ r[2] \in Nat
  /\ \A d \in Dest, a \in Attempt : <<d, a>> \in Row
  /\ Deterministic => Id = Row
  /\ NoId \notin Id
<1>1. MultiSources \in BOOLEAN /\ (MultiSources => ~MultiHop)
  BY ConveyorAssumption DEF MultiSources
<1>2. \A r \in Row : r[1] \in Dest /\ r[2] \in Attempt /\ r = <<r[1], r[2]>>
  BY DEF Row
<1>3. Dest \subseteq Nat /\ Attempt \subseteq Nat
  BY ConveyorAssumption DEF Attempt
<1> QED BY <1>1, <1>2, <1>3, ConveyorAssumption DEF Row, Id

(* Finitely many requests are queued.                                      *)
LEMMA QueuedFinite == IsFiniteSet(Queued) /\ Cardinality(Queued) \in Nat
<1>1. IsFiniteSet(Attempt)
  BY ConveyorAssumption, FS_Interval DEF Attempt
<1>2. IsFiniteSet(Row)
  BY <1>1, ConveyorAssumption, FS_Product DEF Row
<1>3. Queued \in SUBSET Row
  BY DEF Queued
<1> QED BY <1>2, <1>3, FS_Subset, FS_CardinalityType

(* What is sent to FTS: queued requests in ascending order, at least one,  *)
(* and no more than one with several sources.                              *)
LEMMA QueuedSeqShape ==
  ASSUME TypeOK, NEW rows \in QueuedSeqs
  PROVE  /\ rows \in Seq(Row) /\ Len(rows) \in Nat \ {0}
         /\ DOMAIN rows = 1 .. Len(rows)
         /\ \A i \in 1 .. Len(rows) : rows[i] \in Row /\ request[rows[i]].state = "QUEUED"
         /\ Ascending(rows)
<1>1. PICK n \in 1 .. Cardinality(Queued) : rows \in [1 .. n -> Queued]
  BY DEF QueuedSeqs
<1>2. n \in Nat \ {0}
  BY <1>1, QueuedFinite
<1>3. rows \in [1 .. n -> Row]
  BY <1>1 DEF Queued
<1>4. rows \in Seq(Row) /\ Len(rows) = n
  BY <1>2, <1>3, SeqDef
<1> QED BY <1>1, <1>2, <1>3, <1>4 DEF QueuedSeqs, Queued

(* Cut keeps the first hops of a path.                                     *)
LEMMA CutShape ==
  ASSUME NEW path \in Seq(Row), Len(path) \in Nat \ {0}
  PROVE  /\ Cut(path) \in Seq(Row)
         /\ Len(Cut(path)) \in 1 .. Len(path) /\ Len(Cut(path)) <= GroupBulk
         /\ \A i \in 1 .. Len(Cut(path)) : Cut(path)[i] = path[i]
<1> DEFINE n == IF Len(path) < GroupBulk THEN Len(path) ELSE GroupBulk
<1>1. n \in 1 .. Len(path) /\ n <= GroupBulk
  BY Constants
<1>2. \A i \in 1 .. n : path[i] \in Row
  BY <1>1, ElementOfSeq
<1>3. Cut(path) = SubSeq(path, 1, n)
  BY DEF Cut
<1> HIDE DEF n
<1>4. n - 1 + 1 = n /\ 1 \in Int /\ n \in Int /\ 1 <= n
  BY <1>1
<1>5. SubSeq(path, 1, n) \in Seq(Row) /\ Len(SubSeq(path, 1, n)) = n
      /\ \A i \in 1 .. n : SubSeq(path, 1, n)[i] = path[i]
  <2>1. /\ SubSeq(path, 1, n) \in Seq(Row)
        /\ Len(SubSeq(path, 1, n)) = IF 1 <= n THEN n - 1 + 1 ELSE 0
        /\ \A i \in 1 .. n - 1 + 1 : SubSeq(path, 1, n)[i] = path[1 + i - 1]
    BY <1>2, <1>4, SubSeqProperties
  <2> QED BY <1>4, <2>1
<1> QED BY <1>1, <1>3, <1>5

(* Groups: what Submit is given, a path cut at GroupBulk or requests that  *)
(* share a job.                                                            *)
LEMMA GroupShape ==
  ASSUME TypeOK, NEW group \in Groups
  PROVE  /\ group.rows \in Seq(Row) /\ Len(group.rows) \in Nat \ {0}
         /\ group.overwrite \in BOOLEAN
         /\ \A i \in 1 .. Len(group.rows) : request[group.rows[i]].state = "QUEUED"
         /\ Ascending(group.rows)
         /\ Len(group.rows) <= GroupBulk /\ (MultiSources => Len(group.rows) = 1)
<1>1. \A rows \in QueuedSeqs : JobOverwrite(rows) \in BOOLEAN
  <2> SUFFICES ASSUME NEW rows \in QueuedSeqs PROVE JobOverwrite(rows) \in BOOLEAN
    OBVIOUS
  <2>1. rows[Len(rows)] \in Row
    BY QueuedSeqShape
  <2>2. request[rows[Len(rows)]].overwrite \in BOOLEAN
    BY <2>1 DEF TypeOK
  <2> QED BY <2>2 DEF JobOverwrite, Tape
<1>2. CASE MultiHop
  <2>1. PICK path \in QueuedSeqs : group = [rows |-> Cut(path), overwrite |-> JobOverwrite(path)]
    BY <1>2 DEF Groups, PathGroups
  <2>2. group.rows = Cut(path) /\ group.overwrite \in BOOLEAN
    BY <1>1, <2>1
  <2>3. ~MultiSources
    BY <1>2, Constants
  <2>4. path \in Seq(Row) /\ Len(path) \in Nat \ {0} /\ DOMAIN path = 1 .. Len(path)
        /\ (\A i \in 1 .. Len(path) : request[path[i]].state = "QUEUED") /\ Ascending(path)
    BY QueuedSeqShape
  <2>5. /\ Cut(path) \in Seq(Row) /\ Len(Cut(path)) \in 1 .. Len(path)
        /\ Len(Cut(path)) <= GroupBulk
        /\ \A i \in 1 .. Len(Cut(path)) : Cut(path)[i] = path[i]
    BY <2>4, CutShape
  <2>6. DOMAIN Cut(path) = 1 .. Len(Cut(path))
    BY <2>5
  <2>7. Ascending(Cut(path))
    BY <2>4, <2>5, <2>6 DEF Ascending
  <2> QED BY <2>2, <2>3, <2>4, <2>5, <2>7
<1>3. CASE ~MultiHop
  <2>1. PICK rows \in QueuedSeqs : /\ group = [rows |-> rows, overwrite |-> JobOverwrite(rows)]
                                   /\ Len(rows) <= IF MultiSources THEN 1 ELSE GroupBulk
    BY <1>3 DEF Groups, BulkGroups
  <2>2. group.rows = rows /\ group.overwrite \in BOOLEAN
    BY <1>1, <2>1
  <2>3. rows \in Seq(Row) /\ Len(rows) \in Nat \ {0} /\ DOMAIN rows = 1 .. Len(rows)
        /\ (\A i \in 1 .. Len(rows) : request[rows[i]].state = "QUEUED") /\ Ascending(rows)
    BY QueuedSeqShape
  <2>4. Len(rows) <= GroupBulk /\ (MultiSources => Len(rows) = 1)
    BY <2>1, <2>3, Constants
  <2> QED BY <2>2, <2>3, <2>4
<1> QED BY <1>2, <1>3

----------------------------------------------------------------------------
(* The files of a job are a sequence of files. *)
LEMMA JobShape ==
  ASSUME NEW j \in [files : Seq(File), overwrite : BOOLEAN]
  PROVE  /\ j.files \in Seq(File) /\ Len(j.files) \in Nat
         /\ DOMAIN j.files = 1 .. Len(j.files)
         /\ \A i \in 1 .. Len(j.files) :
              /\ j.files[i] \in File
              /\ j.files[i].row \in Row
              /\ j.files[i].state \in FileState
              /\ j.files[i].found \in Found
         /\ j.overwrite \in BOOLEAN
         /\ j = [files |-> j.files, overwrite |-> j.overwrite]
         /\ j.files # <<>> <=> Len(j.files) # 0
<1>1. j.files \in Seq(File) /\ Len(j.files) \in Nat /\ DOMAIN j.files = 1 .. Len(j.files)
  OBVIOUS
<1>2. \A i \in 1 .. Len(j.files) : j.files[i] \in File
  BY <1>1, ElementOfSeq
<1>3. j.files # <<>> <=> Len(j.files) # 0
  BY <1>1, EmptySeq
<1> QED BY <1>1, <1>2, <1>3 DEF File

LEMMA FilesType ==
  ASSUME TypeOK, NEW id \in Id
  PROVE  /\ job[id].files \in Seq(File) /\ Len(job[id].files) \in Nat
         /\ DOMAIN job[id].files = 1 .. Len(job[id].files)
         /\ \A i \in 1 .. Len(job[id].files) :
              /\ job[id].files[i] \in File
              /\ job[id].files[i].row \in Row
              /\ job[id].files[i].state \in FileState
              /\ job[id].files[i].found \in Found
         /\ job[id].overwrite \in BOOLEAN
         /\ job[id] = [files |-> job[id].files, overwrite |-> job[id].overwrite]
         /\ Accepted(id) <=> Len(job[id].files) # 0
<1>1. job[id] \in [files : Seq(File), overwrite : BOOLEAN]
  BY DEF TypeOK
<1> QED BY <1>1, JobShape DEF Accepted

(* One file changes, and the next one may take its turn. *)
Advanced(files, i, state, found, k) ==
  IF k = i THEN [row |-> files[i].row, state |-> state, found |-> found]
  ELSE IF /\ k = i + 1 /\ files[k].state = "NOT_USED"
          /\ \/ MultiSources /\ state = "FAILED"
             \/ Hops(files) /\ state = "FINISHED"
       THEN [row |-> files[k].row, state |-> "SUBMITTED", found |-> "none"]
  ELSE files[k]

LEMMA AdvanceShape ==
  ASSUME NEW files \in Seq(File), NEW i \in 1 .. Len(files),
         NEW state \in FileState, NEW found \in Found
  PROVE  /\ Advance(files, i, state, found) \in Seq(File)
         /\ Len(Advance(files, i, state, found)) = Len(files)
         /\ \A k \in 1 .. Len(files) :
              /\ Advance(files, i, state, found)[k] = Advanced(files, i, state, found, k)
              /\ Advanced(files, i, state, found, k).row = files[k].row
<1>1. Len(files) \in Nat /\ DOMAIN files = 1 .. Len(files)
  OBVIOUS
<1>2. \A k \in 1 .. Len(files) : files[k] \in File /\ files[k].row \in Row
  <2>1. \A k \in 1 .. Len(files) : files[k] \in File
    BY ElementOfSeq
  <2> QED BY <2>1 DEF File
<1>3. "SUBMITTED" \in FileState /\ "none" \in Found
  BY DEF FileState, Found
<1>4. Advance(files, i, state, found)
        = [k \in 1 .. Len(files) |-> Advanced(files, i, state, found, k)]
  BY <1>1 DEF Advance, Advanced
<1>5. ASSUME NEW k \in 1 .. Len(files)
      PROVE  /\ Advanced(files, i, state, found, k) \in File
             /\ Advanced(files, i, state, found, k).row = files[k].row
  <2> DEFINE file == Advanced(files, i, state, found, k)
  <2>1. CASE file = files[k]
    BY <2>1, <1>2
  <2>2. CASE file = [row |-> files[k].row, state |-> "SUBMITTED", found |-> "none"]
    BY <2>2, <1>2, <1>3 DEF File
  <2>3. CASE k = i /\ file = [row |-> files[i].row, state |-> state, found |-> found]
    BY <2>3, <1>2 DEF File
  <2>4. \/ file = files[k]
        \/ file = [row |-> files[k].row, state |-> "SUBMITTED", found |-> "none"]
        \/ k = i /\ file = [row |-> files[i].row, state |-> state, found |-> found]
    BY DEF Advanced
  <2> HIDE DEF file
  <2> QED BY <2>1, <2>2, <2>3, <2>4 DEF file
<1>6. Advance(files, i, state, found) \in [1 .. Len(files) -> File]
  BY <1>4, <1>5
<1>7. /\ Advance(files, i, state, found) \in Seq(File)
      /\ Len(Advance(files, i, state, found)) = Len(files)
  BY <1>1, <1>6, SeqDef
<1> QED BY <1>4, <1>5, <1>7

(* What every step of FTS on a job is: a file that was pending gets a      *)
(* state and, if it failed, a finding; a message may tell of it.           *)
Moves(id, i, state, found) ==
  /\ i \in 1 .. Len(job[id].files) /\ job[id].files[i].state \in Pending
  /\ state \in {"ACTIVE", "ARCHIVING", "FINISHED", "FAILED"} /\ found \in Found
  /\ found # "none" => state = "FAILED"
  /\ SetFile(id, i, state, found)

Tells(m, id, i, state, found) ==
  /\ m \in Message /\ m.id = id /\ m.row = RowOf(id, i)
  /\ m.final = "Ok" /\ ~m.archiving => state = "FINISHED"
  /\ m.final = "Error" => state = "FAILED" /\ Decides(id, i) /\ m.found = found

LEMMA SendTells ==
  ASSUME TypeOK, NEW id \in Id, NEW i \in 1 .. Len(job[id].files),
         NEW final \in {"Ok", "Error"}, NEW archiving \in BOOLEAN, NEW found \in Found,
         NEW state, final = "Ok" /\ ~archiving => state = "FINISHED",
         final = "Error" => state = "FAILED" /\ Decides(id, i),
         Send(id, i, final, archiving, found)
  PROVE  \A m \in mail' : m \in mail \/ Tells(m, id, i, state, found)
<1> DEFINE new == [row |-> job[id].files[i].row, id |-> id, final |-> final,
                   archiving |-> archiving, found |-> found]
<1>1. new \in Message
  BY FilesType DEF Message
<1>2. mail' = mail \cup {new}
  BY DEF Send
<1> QED BY <1>1, <1>2 DEF Tells, RowOf

LEMMA FailsTells ==
  ASSUME TypeOK, NEW id \in Id, NEW i \in 1 .. Len(job[id].files), NEW found \in Found,
         FileFails(id, i, found)
  PROVE  /\ SetFile(id, i, "FAILED", found)
         /\ \A m \in mail' : m \in mail \/ Tells(m, id, i, "FAILED", found)
<1>1. CASE MultiSources /\ i < Len(job[id].files)
  BY <1>1 DEF FileFails
<1>2. CASE ~(MultiSources /\ i < Len(job[id].files))
  <2>1. Send(id, i, "Error", FALSE, found)
    BY <1>2 DEF FileFails
  <2>2. Decides(id, i)
    BY <1>2, FilesType DEF Decides
  <2> QED BY <2>1, <2>2, SendTells DEF FileFails
<1> QED BY <1>1, <1>2

(* Every step of FTS on a job is such a move, tells of it or of nothing,   *)
(* and leaves requests, submitter and poller alone.                        *)
LEMMA FtsStep ==
  ASSUME TypeOK, NEW id \in Id, FtsMoves(id)
  PROVE  /\ \E i \in 1 .. Len(job[id].files), state \in FileState, found \in Found :
              /\ Moves(id, i, state, found)
              /\ \A m \in mail' : m \in mail \/ Tells(m, id, i, state, found)
         /\ dst' \in [Dest -> {"absent", "bad", "buffered", "stored"}]
         /\ UNCHANGED <<request, sub, poll>>
<1>1. PICK i \in 1 .. Len(job[id].files) :
        Begin(id, i) \/ Written(id, i) \/ WriteFails(id, i) \/ Archived(id, i) \/ ArchiveTimesOut(id, i)
  BY FilesType DEF FtsMoves
<1> DEFINE r == RowOf(id, i)
<1>r. r \in Row /\ r[1] \in Dest
  BY FilesType, Constants DEF RowOf
<1>d. \A what \in {"absent", "bad", "buffered", "stored"} :
        SetDst(r[1], what) => dst' \in [Dest -> {"absent", "bad", "buffered", "stored"}]
  BY <1>r DEF SetDst, TypeOK
<1>n. "none" \in Found
  BY DEF Found
<1>q. ASSUME NEW state, NEW found, Moves(id, i, state, found),
             \A m \in mail' : m \in mail \/ Tells(m, id, i, state, found)
      PROVE  \E k \in 1 .. Len(job[id].files), what \in FileState, seen \in Found :
               /\ Moves(id, k, what, seen)
               /\ \A m \in mail' : m \in mail \/ Tells(m, id, k, what, seen)
  BY <1>q DEF Moves, FileState
<1> HIDE DEF r
<1>2. CASE Begin(id, i)
  <2>0. job[id].files[i].state \in Pending
    BY <1>2 DEF Begin, At, Pending
  <2>1. CASE MayWrite(id, i) /\ SetFile(id, i, "ACTIVE", "none") /\ SetDst(r[1], "bad") /\ UNCHANGED mail
    <3>1. Moves(id, i, "ACTIVE", "none")
      BY <2>0, <2>1, <1>n DEF Moves
    <3> QED BY <1>q, <3>1, <1>2, <2>1, <1>d DEF Begin
  <2>2. CASE ~MayWrite(id, i) /\ FileFails(id, i, Finding(r)) /\ UNCHANGED dst
    <3>1. dst[r[1]] # "absent"
      BY <2>2 DEF MayWrite, r
    <3>2. dst[r[1]] \in {"bad", "buffered", "stored"}
      BY <3>1, <1>r DEF TypeOK
    <3>3. Finding(r) \in Found
      BY <3>2 DEF Finding, Found
    <3>4. /\ SetFile(id, i, "FAILED", Finding(r))
          /\ \A m \in mail' : m \in mail \/ Tells(m, id, i, "FAILED", Finding(r))
      BY <2>2, <3>3, FailsTells
    <3>5. Moves(id, i, "FAILED", Finding(r))
      BY <2>0, <3>3, <3>4 DEF Moves
    <3> QED BY <1>q, <3>4, <3>5, <1>2, <2>2 DEF Begin, TypeOK
  <2>3. CASE FileFails(id, i, "none") /\ UNCHANGED dst
    <3>1. Moves(id, i, "FAILED", "none")
      BY <2>0, <2>3, <1>n, FailsTells DEF Moves
    <3> QED BY <1>q, <3>1, <1>2, <2>3, <1>n, FailsTells DEF Begin, TypeOK
  <2> QED BY <1>2, <2>1, <2>2, <2>3 DEF Begin, r
<1>3. CASE Written(id, i)
  <2> DEFINE state == IF Archiving(r) THEN "ARCHIVING" ELSE "FINISHED"
  <2>1. job[id].files[i].state \in Pending
    BY <1>3 DEF Written, At, Pending
  <2>2. SetFile(id, i, state, "none") /\ Send(id, i, "Ok", Archiving(r), "none")
        /\ SetDst(r[1], IF Tape(r) THEN "buffered" ELSE "stored")
        /\ UNCHANGED <<request, sub, poll>>
    BY <1>3 DEF Written, r
  <2>3. Archiving(r) \in BOOLEAN
    BY ConveyorAssumption DEF Archiving, Tape
  <2>4. ~Archiving(r) => state = "FINISHED"
    OBVIOUS
  <2>5. state \in {"ARCHIVING", "FINISHED"}
    OBVIOUS
  <2> HIDE DEF state
  <2>6. Moves(id, i, state, "none")
    BY <2>1, <2>2, <2>5, <1>n DEF Moves
  <2>7. \A m \in mail' : m \in mail \/ Tells(m, id, i, state, "none")
    BY <2>2, <2>3, <2>4, <1>n, SendTells
  <2> QED BY <1>q, <2>2, <2>6, <2>7, <1>d
<1>4. CASE WriteFails(id, i)
  <2>1. Moves(id, i, "FAILED", "none")
    BY <1>4, <1>n, FailsTells DEF Moves, WriteFails, At, Pending
  <2> QED BY <1>q, <2>1, <1>4, <1>n, <1>d, FailsTells DEF WriteFails, r
<1>5. CASE Archived(id, i)
  <2>1. Moves(id, i, "FINISHED", "none")
    BY <1>5, <1>n DEF Moves, Archived, At, Pending
  <2>2. \A m \in mail' : m \in mail \/ Tells(m, id, i, "FINISHED", "none")
    BY <1>5, <1>n, SendTells DEF Archived
  <2> QED BY <1>q, <2>1, <2>2, <1>5 DEF Archived, TypeOK
<1>6. CASE ArchiveTimesOut(id, i)
  <2>1. Moves(id, i, "FAILED", "none")
    BY <1>6, <1>n, FailsTells DEF Moves, ArchiveTimesOut, At, Pending
  <2> QED BY <1>q, <2>1, <1>6, <1>n, FailsTells DEF ArchiveTimesOut, TypeOK
<1> QED BY <1>1, <1>2, <1>3, <1>4, <1>5, <1>6

(* The files of a new job are pending or unused, and of the rows posted.   *)
LEMMA NewFilesShape ==
  ASSUME NEW rows \in Seq(Row), rows # <<>>
  PROVE  /\ NewFiles(rows) \in Seq(File) /\ NewFiles(rows) # <<>>
         /\ Len(NewFiles(rows)) = IF MultiSources THEN NSources ELSE Len(rows)
         /\ DOMAIN NewFiles(rows) = 1 .. Len(NewFiles(rows))
         /\ \A i \in 1 .. Len(NewFiles(rows)) :
              /\ NewFiles(rows)[i].row = IF MultiSources THEN rows[1] ELSE rows[i]
              /\ NewFiles(rows)[i].state \in {"SUBMITTED", "NOT_USED"}
              /\ i > 1 /\ MultiSources => NewFiles(rows)[i].state = "NOT_USED"
              /\ NewFiles(rows)[i].found = "none"
<1> DEFINE n == IF MultiSources THEN NSources ELSE Len(rows)
           file(i) == [row |-> IF MultiSources THEN rows[1] ELSE rows[i],
                       state |-> IF i > 1 /\ (MultiSources \/ MultiHop) THEN "NOT_USED"
                                 ELSE "SUBMITTED",
                       found |-> "none"]
<1>1. Len(rows) \in Nat \ {0} /\ n \in Nat \ {0}
  BY EmptySeq, Constants
<1>2. NewFiles(rows) = [i \in 1 .. n |-> file(i)]
  BY DEF NewFiles
<1>3. \A i \in 1 .. n : (IF MultiSources THEN rows[1] ELSE rows[i]) \in Row
  BY <1>1, ElementOfSeq
<1>4. \A i \in 1 .. n : file(i) \in File
  BY <1>3 DEF File, FileState, Found
<1>5. \A i \in 1 .. n :
        /\ file(i).row = (IF MultiSources THEN rows[1] ELSE rows[i])
        /\ file(i).state \in {"SUBMITTED", "NOT_USED"}
        /\ i > 1 /\ MultiSources => file(i).state = "NOT_USED"
        /\ file(i).found = "none"
  OBVIOUS
<1> HIDE DEF n, file
<1>6. NewFiles(rows) \in [1 .. n -> File]
  BY <1>2, <1>4
<1>7. NewFiles(rows) \in Seq(File) /\ Len(NewFiles(rows)) = n
  BY <1>1, <1>6, SeqDef
<1>8. NewFiles(rows) # <<>>
  BY <1>1, <1>7, EmptySeq
<1>9. \A i \in 1 .. n : NewFiles(rows)[i] = file(i)
  BY <1>2
<1>10. n = (IF MultiSources THEN NSources ELSE Len(rows))
  BY DEF n
<1>11. DOMAIN NewFiles(rows) = 1 .. n
  BY <1>2
<1> QED BY <1>5, <1>7, <1>8, <1>9, <1>10, <1>11

(* Cancelled ends the files that are pending, and no other.                *)
LEMMA CancelledShape ==
  ASSUME TypeOK, NEW id \in Id, Cancelled(id)
  PROVE  /\ job'[id].files \in Seq(File) /\ Len(job'[id].files) = Len(job[id].files)
         /\ job' = [job EXCEPT ![id] = [files |-> job'[id].files, overwrite |-> job[id].overwrite]]
         /\ \A i \in 1 .. Len(job[id].files) :
              /\ job[id].files[i].state \in Pending =>
                   job'[id].files[i] =
                     [row |-> job[id].files[i].row, state |-> "CANCELED", found |-> "none"]
              /\ job[id].files[i].state \notin Pending => job'[id].files[i] = job[id].files[i]
<1> DEFINE files == job[id].files
           after == [i \in 1 .. Len(files) |->
                       IF files[i].state \in Pending
                       THEN [row |-> files[i].row, state |-> "CANCELED", found |-> "none"]
                       ELSE files[i]]
<1>1. Len(files) \in Nat /\ DOMAIN files = 1 .. Len(files)
      /\ (\A i \in 1 .. Len(files) : files[i] \in File /\ files[i].row \in Row)
  BY FilesType
<1>2. job' = [job EXCEPT ![id] = [files |-> after, overwrite |-> job[id].overwrite]]
  BY <1>1 DEF Cancelled, RowOf
<1>3. \A i \in 1 .. Len(files) : after[i] \in File
  BY <1>1 DEF File, FileState, Found
<1>4. after \in [1 .. Len(files) -> File]
  BY <1>3
<1>5. after \in Seq(File) /\ Len(after) = Len(files)
  BY <1>1, <1>4, SeqDef
<1>6. job'[id].files = after
  BY <1>2 DEF TypeOK
<1> QED BY <1>2, <1>5, <1>6

----------------------------------------------------------------------------
(* Type correctness. *)

(* The initial state is of the right types.                                *)
LEMMA TypeInit == Init => TypeOK
<1> SUFFICES ASSUME Init PROVE TypeOK
  OBVIOUS
<1>1. request \in [Row -> [state : RequestState, eid : Id \cup {NoId}, overwrite : BOOLEAN]]
  BY DEF Init, RequestState
<1>2. NoJob \in [files : Seq(File), overwrite : BOOLEAN]
  BY EmptySeq DEF NoJob
<1>3. sub \in [pc : {"idle", "posted"}, rows : Seq(Row), overwrite : BOOLEAN, id : Id \cup {NoId},
              expected : Id \cup {NoId}, answer : {"none", "accepted", "refused"}]
  BY EmptySeq DEF Init, Idle
<1> QED BY <1>1, <1>2, <1>3 DEF Init, TypeOK, NoPoll

LEMMA RecordType ==
  ASSUME TypeOK, NEW rows, NEW id \in Id, Record(rows, id)
  PROVE  /\ request' \in [Row -> [state : RequestState, eid : Id \cup {NoId}, overwrite : BOOLEAN]]
         /\ \A r \in Row :
              \/ request'[r] = request[r] /\ ~\E i \in DOMAIN rows : rows[i] = r
              \/ /\ \E i \in DOMAIN rows : rows[i] = r
                 /\ request'[r] = [state |-> "SUBMITTED", eid |-> id,
                                   overwrite |-> request[r].overwrite]
BY DEF Record, TypeOK, RequestState

LEMMA UpdateType ==
  ASSUME TypeOK, NEW report \in Report, Update(report.row, report)
  PROVE  /\ request' \in [Row -> [state : RequestState, eid : Id \cup {NoId}, overwrite : BOOLEAN]]
         /\ \/ request' = request
            \/ /\ Applies(report.row, report)
               /\ request' = [request EXCEPT ![report.row] =
                     [state |-> report.verdict, eid |-> report.id,
                      overwrite |-> request[report.row].overwrite \/ report.overwrite]]
<1>1. report.row \in Row /\ report.id \in Id /\ report.verdict \in RequestState
      /\ report.overwrite \in BOOLEAN
  BY DEF Report, Verdict, RequestState
<1>2. (request[report.row].overwrite \/ report.overwrite) \in BOOLEAN
  OBVIOUS
<1> QED BY <1>1, <1>2 DEF Update, SetRequest, TypeOK

(* The reports on a file are reports, and those on a request are on it and *)
(* on the job that was asked.                                              *)
LEMMA ReportType ==
  ASSUME NEW r \in Row, NEW id \in Id, NEW verdict \in Verdict, NEW found
  PROVE  ReportOf(r, id, verdict, found) \in Report
<1>1. (OverwriteCorrupted /\ AsksOverwrite(verdict, found)) \in BOOLEAN
  BY ConveyorAssumption DEF AsksOverwrite, Corrupted
<1> QED BY <1>1 DEF ReportOf, Report

LEMMA VerdictType ==
  /\ \A m, tape : MessageVerdict(m, tape) \in Verdict \cup {"none"}
  /\ \A file, jobState, multi, tape : ApiVerdict(file, jobState, multi, tape) \in Verdict \cup {"none"}
BY DEF MessageVerdict, ApiVerdict, VerdictOfError, Verdict

(* What an answer to the poller is made into are reports.                  *)
LEMMA ReportsType ==
  ASSUME NEW r \in Row, NEW id \in Id, NEW report \in ReportsOn(r, id)
  PROVE  report \in Report /\ report.row = r /\ report.id = id
<1>1. CASE Accepted(id)
  <2>1. report \in FileReports(r, id)
    BY <1>1 DEF ReportsOn
  <2>2. PICK verdict \in Verdict : \E found : report = ReportOf(r, id, verdict, found)
    BY <2>1, VerdictType DEF FileReports
  <2>3. PICK found : report = ReportOf(r, id, verdict, found)
    BY <2>2
  <2> QED BY <2>3, ReportType DEF ReportOf
<1>2. CASE ~Accepted(id)
  <2>1. report = ReportOf(r, id, "LOST", "none")
    BY <1>2 DEF ReportsOn
  <2>2. "LOST" \in Verdict
    BY DEF Verdict
  <2> QED BY <2>1, <2>2, ReportType DEF ReportOf
<1> QED BY <1>1, <1>2

(* Each step keeps the types; a post has rows, and the poller has asked    *)
(* for jobs with an id.                                                    *)
LEMMA TypeStep == TypeOK /\ PostSound /\ PollSound /\ [Next]_vars => TypeOK'
<1> SUFFICES ASSUME TypeOK, PostSound, PollSound, [Next]_vars PROVE TypeOK'
  OBVIOUS
<1> USE DEF TypeOK
<1>1. ASSUME NEW group \in Groups, Submit(group) PROVE TypeOK'
  <2>1. group.rows \in Seq(Row) /\ group.overwrite \in BOOLEAN
    BY GroupShape
  <2> QED BY <1>1, <2>1 DEF Submit
<1>2. CASE FtsAccepts
  <2>1. sub.rows # <<>> /\ sub.id \in Id /\ sub.rows \in Seq(Row) /\ sub.overwrite \in BOOLEAN
    BY <1>2 DEF FtsAccepts, PostSound
  <2>2. [files |-> NewFiles(sub.rows), overwrite |-> sub.overwrite]
          \in [files : Seq(File), overwrite : BOOLEAN]
    BY <2>1, NewFilesShape
  <2> QED BY <1>2, <2>1, <2>2 DEF FtsAccepts
<1>3. CASE FtsRefuses
  BY <1>3 DEF FtsRefuses
<1>i. Idle \in [pc : {"idle", "posted"}, rows : Seq(Row), overwrite : BOOLEAN, id : Id \cup {NoId},
              expected : Id \cup {NoId}, answer : {"none", "accepted", "refused"}]
  BY EmptySeq DEF Idle
<1>4. CASE Answered
  <2>1. sub.id \in Id
    BY <1>4 DEF Answered, PostSound
  <2> QED BY <1>4, <1>i, <2>1, RecordType DEF Answered
<1>5. CASE TimesOut
  BY <1>5, <1>i DEF TimesOut
<1>6. CASE Unanswered
  <2>1. CASE sub.expected # NoId
    <3>1. sub.expected \in Id /\ Record(sub.rows, sub.expected)
      BY <1>6, <2>1 DEF Unanswered
    <3> QED BY <1>6, <1>i, <3>1, RecordType DEF Unanswered
  <2> QED BY <1>6, <1>i, <2>1 DEF Unanswered
<1>7. ASSUME NEW id \in Id, FtsMoves(id) PROVE TypeOK'
  <2>1. PICK i \in 1 .. Len(job[id].files), state \in FileState, found \in Found :
          /\ Moves(id, i, state, found)
          /\ \A m \in mail' : m \in mail \/ Tells(m, id, i, state, found)
    BY <1>7, FtsStep
  <2>2. mail' \subseteq Message
    BY <2>1 DEF Tells
  <2>3. /\ i \in 1 .. Len(job[id].files) /\ state \in FileState /\ found \in Found
        /\ SetFile(id, i, state, found)
    BY <2>1 DEF Moves, FileState
  <2>4. [files |-> Advance(job[id].files, i, state, found), overwrite |-> job[id].overwrite]
          \in [files : Seq(File), overwrite : BOOLEAN]
    <3>1. job[id].files \in Seq(File) /\ job[id].overwrite \in BOOLEAN
      BY FilesType
    <3>2. Advance(job[id].files, i, state, found) \in Seq(File)
      BY <2>3, <3>1, AdvanceShape
    <3> QED BY <3>1, <3>2
  <2>5. job' \in [Id -> [files : Seq(File), overwrite : BOOLEAN]]
    BY <2>3, <2>4 DEF SetFile
  <2>6. /\ dst' \in [Dest -> {"absent", "bad", "buffered", "stored"}]
        /\ UNCHANGED <<request, sub, poll>>
    BY <1>7, FtsStep
  <2> QED BY <2>2, <2>5, <2>6
<1>8. ASSUME NEW id \in Id, Cancelled(id) PROVE TypeOK'
  <2>1. [files |-> job'[id].files, overwrite |-> job[id].overwrite]
          \in [files : Seq(File), overwrite : BOOLEAN]
    BY <1>8, CancelledShape, FilesType
  <2>2. job' \in [Id -> [files : Seq(File), overwrite : BOOLEAN]]
    <3>1. job' = [job EXCEPT ![id] = [files |-> job'[id].files, overwrite |-> job[id].overwrite]]
      BY <1>8, CancelledShape
    <3> QED BY <2>1, <3>1
  <2> QED BY <1>8, <2>2 DEF Cancelled
<1>9. ASSUME NEW d \in Dest, Migrates(d) PROVE TypeOK'
  BY <1>9 DEF Migrates, SetDst
<1>10. ASSUME NEW m \in mail, Receive(m) PROVE TypeOK'
  <2> DEFINE verdict == MessageVerdict(m, Tape(m.row))
  <2>1. m.row \in Row /\ m.id \in Id
    BY DEF Message
  <2>2. verdict \in Verdict
    BY <1>10, VerdictType DEF Receive
  <2>3. ReportOf(m.row, m.id, verdict, m.found) \in Report
        /\ ReportOf(m.row, m.id, verdict, m.found).row = m.row
    BY <2>1, <2>2, ReportType DEF ReportOf
  <2>4. Update(m.row, ReportOf(m.row, m.id, verdict, m.found))
        /\ UNCHANGED <<job, dst, mail, sub, poll>>
    BY <1>10 DEF Receive
  <2> HIDE DEF verdict
  <2>5. request' \in [Row -> [state : RequestState, eid : Id \cup {NoId}, overwrite : BOOLEAN]]
    BY <2>3, <2>4, UpdateType
  <2> QED BY <2>4, <2>5
<1>11. CASE PollReads
  <2>1. {<<r, request[r].eid>> : r \in {r \in Row : request[r].state = "SUBMITTED"}}
          \subseteq Row \X (Id \cup {NoId})
    OBVIOUS
  <2> QED BY <1>11, <2>1 DEF PollReads
<1>12. CASE PollAnswered
  <2>1. \A s \in poll.rows : s[1] \in Row /\ s[2] \in Id
    BY DEF PollSound
  <2>2. UNION {ReportsOn(s[1], s[2]) : s \in poll.rows} \subseteq Report
    BY <2>1, ReportsType
  <2> QED BY <1>12, <2>2 DEF PollAnswered
<1>13. CASE PollApplies
  <2>1. PICK report \in poll.reports : /\ Update(report.row, report)
                                       /\ poll' = [poll EXCEPT !.reports = @ \ {report}]
    BY <1>13 DEF PollApplies
  <2>2. report \in Report
    OBVIOUS
  <2>3. request' \in [Row -> [state : RequestState, eid : Id \cup {NoId}, overwrite : BOOLEAN]]
    BY <2>1, <2>2, UpdateType
  <2> QED BY <1>13, <2>1, <2>3 DEF PollApplies
<1>14. CASE PollEnds
  BY <1>14 DEF PollEnds, NoPoll
<1>15. CASE PollFails
  BY <1>15 DEF PollFails, NoPoll
<1>16. ASSUME NEW r \in Row, Requeue(r) PROVE TypeOK'
  <2>1. <<r[1], r[2] + 1>> \in Row
    <3>1. r[1] \in Dest /\ r[2] \in Nat /\ r[2] + 1 \in 1 .. MaxAttempt
      BY <1>16, Constants, ConveyorAssumption DEF Requeue, Attempt
    <3> QED BY <3>1 DEF Row, Attempt
  <2>2. request[r].overwrite \in BOOLEAN /\ request[r].eid \in Id \cup {NoId}
    OBVIOUS
  <2> QED BY <1>16, <2>1, <2>2 DEF Requeue, RequestState
<1>17. CASE UNCHANGED vars
  BY <1>17 DEF vars
<1> QED
  BY <1>1, <1>2, <1>3, <1>4, <1>5, <1>6, <1>7, <1>8, <1>9, <1>10, <1>11, <1>12, <1>13, <1>14,
     <1>15, <1>16, <1>17 DEF Next

----------------------------------------------------------------------------
(* What a step leaves as it is. *)

(* A job keeps its files; one that ended, or is in a job that is over, is  *)
(* never touched again.                                                    *)
Keeps(id) ==
  Accepted(id) =>
    /\ Accepted(id)'
    /\ Len(job'[id].files) = Len(job[id].files)
    /\ \A i \in 1 .. Len(job[id].files) :
         /\ job'[id].files[i].row = job[id].files[i].row
         /\ job[id].files[i].state \in {"FAILED", "CANCELED", "FINISHED"} \/ Over(id) =>
              job'[id].files[i] = job[id].files[i]

(* No step changes the rows of a job that FTS has, nor a file that ended.  *)
LEMMA JobsKeep ==
  ASSUME TypeOK, PostSound, [Next]_vars
  PROVE  \A id \in Id : Keeps(id)
<1> SUFFICES ASSUME NEW id \in Id, Accepted(id) PROVE Keeps(id)
  BY DEF Keeps
<1>f. /\ job[id].files \in Seq(File) /\ Len(job[id].files) \in Nat \ {0}
      /\ DOMAIN job[id].files = 1 .. Len(job[id].files)
  BY FilesType
<1>1. CASE job'[id] = job[id]
  BY <1>1 DEF Keeps, Accepted
<1>2. CASE FtsAccepts
  <2>1. sub.id # id /\ job' = [job EXCEPT ![sub.id] = [files |-> NewFiles(sub.rows),
                                                       overwrite |-> sub.overwrite]]
    BY <1>2 DEF FtsAccepts
  <2> QED BY <1>1, <2>1 DEF TypeOK
<1>3. ASSUME NEW j \in Id, FtsMoves(j) PROVE Keeps(id)
  <2>1. PICK i \in 1 .. Len(job[j].files), state \in FileState, found \in Found :
          Moves(j, i, state, found)
    BY <1>3, FtsStep
  <2>2. /\ i \in 1 .. Len(job[j].files) /\ job[j].files[i].state \in Pending
        /\ state \in FileState /\ found \in Found
        /\ job' = [job EXCEPT ![j] = [files |-> Advance(job[j].files, i, state, found),
                                      overwrite |-> job[j].overwrite]]
    BY <2>1 DEF Moves, SetFile, FileState
  <2>3. CASE j # id
    BY <1>1, <2>2, <2>3 DEF TypeOK
  <2>4. CASE j = id
    <3> DEFINE moved == Advance(job[id].files, i, state, found)
    <3>0. moved = Advance(job[id].files, i, state, found)
      OBVIOUS
    <3>1. job'[id].files = moved
      BY <2>2, <2>4 DEF TypeOK
    <3> HIDE DEF moved
    <3>i. i \in 1 .. Len(job[id].files) /\ state \in FileState /\ found \in Found
      BY <2>2, <2>4
    <3>2. /\ Len(moved) = Len(job[id].files)
          /\ \A k \in 1 .. Len(job[id].files) : moved[k].row = job[id].files[k].row
          /\ \A k \in 1 .. Len(job[id].files) : k # i =>
               moved[k] = job[id].files[k] \/ job[id].files[k].state = "NOT_USED"
      <4>1. /\ Len(moved) = Len(job[id].files)
            /\ \A k \in 1 .. Len(job[id].files) :
                 /\ moved[k] = Advanced(job[id].files, i, state, found, k)
                 /\ Advanced(job[id].files, i, state, found, k).row = job[id].files[k].row
        BY <1>f, <3>0, <3>i, AdvanceShape
      <4> QED BY <4>1 DEF Advanced
    <3>3. ~Over(id)
      BY <1>f, <2>2, <2>4 DEF Over
    <3>4. moved \in Seq(File)
      BY <1>f, <3>0, <3>i, AdvanceShape
    <3>5. job'[id].files # <<>>
      BY <1>f, <3>1, <3>2, <3>4, EmptySeq
    <3>6. job[id].files[i].state \notin {"FAILED", "CANCELED", "FINISHED"}
      BY <2>2, <2>4 DEF Pending
    <3> QED BY <3>1, <3>2, <3>3, <3>5, <3>6 DEF Keeps, Accepted
  <2> QED BY <2>3, <2>4
<1>4. ASSUME NEW j \in Id, Cancelled(j) PROVE Keeps(id)
  <2>1. /\ Len(job'[j].files) = Len(job[j].files) /\ job'[j].files \in Seq(File)
        /\ job' = [job EXCEPT ![j] = [files |-> job'[j].files, overwrite |-> job[j].overwrite]]
        /\ \A i \in 1 .. Len(job[j].files) :
              /\ job[j].files[i].state \in Pending =>
                   job'[j].files[i] =
                     [row |-> job[j].files[i].row, state |-> "CANCELED", found |-> "none"]
              /\ job[j].files[i].state \notin Pending => job'[j].files[i] = job[j].files[i]
    BY <1>4, CancelledShape
  <2>2. CASE j # id
    BY <1>1, <2>1, <2>2 DEF TypeOK
  <2>3. CASE j = id
    <3>1. job'[id].files # <<>>
      BY <1>f, <2>1, <2>3, EmptySeq
    <3>2. \A i \in 1 .. Len(job[id].files) : job'[id].files[i].row = job[id].files[i].row
      <4> SUFFICES ASSUME NEW i \in 1 .. Len(job[id].files)
                   PROVE  job'[id].files[i].row = job[id].files[i].row
        OBVIOUS
      <4>1. CASE job[id].files[i].state \in Pending
        <5>1. job'[id].files[i] =
                [row |-> job[id].files[i].row, state |-> "CANCELED", found |-> "none"]
          BY <2>1, <2>3, <4>1
        <5> QED BY <5>1
      <4>2. CASE job[id].files[i].state \notin Pending
        BY <2>1, <2>3, <4>2
      <4> QED BY <4>1, <4>2
    <3>3. \A i \in 1 .. Len(job[id].files) : job[id].files[i].state \notin Pending =>
             job'[id].files[i] = job[id].files[i]
      BY <2>1, <2>3
    <3>4. \A i \in 1 .. Len(job[id].files) :
            job[id].files[i].state \in {"FAILED", "CANCELED", "FINISHED"} \/ Over(id) =>
              job[id].files[i].state \notin Pending
      BY <1>f DEF Over, Pending
    <3> QED BY <2>1, <2>3, <3>1, <3>2, <3>3, <3>4 DEF Keeps, Accepted
  <2> QED BY <2>2, <2>3
<1> QED
  BY <1>1, <1>2, <1>3, <1>4
  DEF Next, vars, Submit, FtsRefuses, Answered, TimesOut, Unanswered, Migrates, Receive,
      PollReads, PollAnswered, PollApplies, PollEnds, PollFails, Requeue

(* An id that is recorded stays. *)
LEMMA IdsKeep ==
  ASSUME TypeOK, OneAttempt, PostSound, [Next]_vars
  PROVE  \A r \in Row : request[r].eid # NoId => request'[r].eid = request[r].eid
<1> SUFFICES ASSUME NEW r \in Row, request[r].eid # NoId
             PROVE  request'[r].eid = request[r].eid
  OBVIOUS
<1>1. CASE request' = request
  BY <1>1
<1>2. ASSUME NEW id \in Id, Record(sub.rows, id), sub.pc = "posted"
      PROVE  request'[r].eid = request[r].eid
  <2>1. ~\E i \in DOMAIN sub.rows : sub.rows[i] = r
    BY <1>2 DEF PostSound, OneAttempt
  <2> QED BY <1>2, <2>1 DEF Record
<1>3. CASE Answered
  BY <1>2, <1>3 DEF Answered, PostSound
<1>4. CASE Unanswered
  <2>1. CASE sub.expected # NoId
    <3>1. sub.expected \in Id /\ Record(sub.rows, sub.expected) /\ sub.pc = "posted"
      BY <1>4, <2>1 DEF Unanswered, PostSound
    <3> QED BY <3>1, <1>2
  <2> QED BY <1>1, <1>4, <2>1 DEF Unanswered
<1>5. ASSUME NEW q \in Row, NEW report, Update(q, report)
      PROVE  request'[r].eid = request[r].eid
  <2>1. CASE request' = request
    BY <2>1
  <2>2. CASE Applies(q, report)
    <3>1. PICK overwrite :
            request' = [request EXCEPT ![q] = [state |-> report.verdict, eid |-> report.id,
                                               overwrite |-> overwrite]]
      BY <1>5, <2>2 DEF Update, SetRequest
    <3>2. report.id = request[q].eid
      BY <2>2 DEF Applies
    <3> QED BY <3>1, <3>2 DEF TypeOK
  <2> QED BY <1>5, <2>1, <2>2 DEF Update
<1>6. ASSUME NEW m \in mail, Receive(m) PROVE request'[r].eid = request[r].eid
  <2>1. m.row \in Row
    BY DEF TypeOK, Message
  <2> QED BY <1>5, <1>6, <2>1 DEF Receive
<1>7. CASE PollApplies
  <2>1. PICK report \in poll.reports : Update(report.row, report)
    BY <1>7 DEF PollApplies
  <2>2. report.row \in Row
    BY DEF TypeOK, Report
  <2> QED BY <1>5, <2>1, <2>2
<1>8. ASSUME NEW q \in Row, Requeue(q) PROVE request'[r].eid = request[r].eid
  <2> DEFINE next == <<q[1], q[2] + 1>>
  <2>1. q[1] \in Dest /\ q[2] \in Attempt /\ q[2] + 1 \in Attempt /\ q[2] < q[2] + 1
        /\ q = <<q[1], q[2]>>
    BY <1>8, Constants, ConveyorAssumption DEF Requeue, Attempt
  <2>2. request[q].state # "GONE"
    BY <1>8 DEF Requeue
  <2>3. next \in Row /\ request[next].eid = NoId
    BY <2>1, <2>2, Constants DEF OneAttempt
  <2>4. r # next
    BY <2>3
  <2>5. request' = [request EXCEPT
          ![q] = [state |-> "GONE", eid |-> request[q].eid, overwrite |-> request[q].overwrite],
          ![next] = [state |-> "QUEUED", eid |-> NoId, overwrite |-> request[q].overwrite]]
    BY <1>8 DEF Requeue
  <2> HIDE DEF next
  <2> QED BY <2>3, <2>4, <2>5 DEF TypeOK
<1>9. ASSUME NEW id \in Id, FtsMoves(id) PROVE request'[r].eid = request[r].eid
  BY <1>9, FtsStep
<1> QED
  BY <1>1, <1>3, <1>4, <1>6, <1>7, <1>8, <1>9
  DEF Next, vars, Submit, FtsAccepts, FtsRefuses, TimesOut, Cancelled, Migrates,
      PollReads, PollAnswered, PollEnds, PollFails

(* What a job says of a request, it says for ever. *)
LEMMA RecordedKeeps ==
  ASSUME TypeOK, OneAttempt, PostSound, [Next]_vars, NEW id \in Id, Recorded(id)
  PROVE  Recorded(id)'
<1>1. CASE Accepted(id)
  BY <1>1, JobsKeep DEF Keeps, Recorded
<1>2. CASE Deterministic /\ request[id].eid # NoId
  BY <1>2, IdsKeep, Constants DEF Recorded
<1> QED BY <1>1, <1>2 DEF Recorded

(* A request is LOST for good: FTS never gets the job of a recorded id     *)
(* later.                                                                  *)
LEMMA LostKeeps ==
  ASSUME TypeOK, OneAttempt, PostSound, [Next]_vars, NEW id \in Id, Recorded(id), ~Accepted(id)
  PROVE  ~Accepted(id)'
<1>1. Deterministic /\ id \in Row /\ request[id].eid # NoId
  BY Constants DEF Recorded
<1>2. CASE job'[id] = job[id]
  BY <1>2 DEF Accepted
<1>3. CASE FtsAccepts
  <2>1. sub.rows # <<>> /\ sub.rows \in Seq(Row) /\ sub.id = sub.rows[1]
        /\ \A i \in DOMAIN sub.rows : request[sub.rows[i]].state = "QUEUED"
    BY <1>1, <1>3 DEF FtsAccepts, PostSound, TypeOK
  <2>2. 1 \in DOMAIN sub.rows
    BY <2>1, EmptySeq
  <2>3. sub.rows[1] \in Row
    BY <2>1, <2>2
  <2>4. request[sub.id].eid = NoId
    BY <2>1, <2>2, <2>3 DEF OneAttempt
  <2> QED BY <1>1, <1>2, <1>3, <2>4 DEF FtsAccepts, TypeOK
<1>4. ASSUME NEW j \in Id, FtsMoves(j) PROVE ~Accepted(id)'
  <2>1. PICK i \in 1 .. Len(job[j].files), state \in FileState, found \in Found :
          Moves(j, i, state, found)
    BY <1>4, FtsStep
  <2>2. j # id
    BY <2>1, FilesType DEF Moves, Accepted
  <2> QED BY <1>2, <2>1, <2>2 DEF Moves, SetFile, TypeOK
<1>5. ASSUME NEW j \in Id, Cancelled(j) PROVE ~Accepted(id)'
  <2>1. j # id
    BY <1>5, FilesType DEF Cancelled, Accepted
  <2> QED BY <1>2, <1>5, <2>1, CancelledShape DEF TypeOK
<1> QED
  BY <1>2, <1>3, <1>4, <1>5
  DEF Next, vars, Submit, FtsRefuses, Answered, TimesOut, Unanswered, Migrates, Receive,
      PollReads, PollAnswered, PollApplies, PollEnds, PollFails, Requeue

=============================================================================
