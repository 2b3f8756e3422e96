------------------------------ MODULE Submission ------------------------------
(***************************************************************************)
(* How the FTS3 transfertool turns transfers into FTS jobs                 *)
(* (src/shared/patches/rucio/fts3.py): which hops of a path it takes and   *)
(* for which server, how it authenticates, the parameters of a job, which  *)
(* transfers share one, and the files it posts.  Two caches outlive a      *)
(* round of the submitter: the scitags ids of a public registry, and what  *)
(* whoami told of each server, from which the ids of jobs are derived.     *)
(*                                                                         *)
(* The submitter calls these functions in turn and is external, as are the *)
(* registry and FTS.  What becomes of a posted job is in Conveyor.         *)
(***************************************************************************)
EXTENDS Integers, Sequences, FiniteSets

CONSTANTS
  Attr,                    (* the attributes of each RSE                    *)
  Path,                    (* the paths: sequences of transfers             *)
  Round,                   (* the rounds: sequences of paths, each once     *)
  Policy,                  (* the group policies that may be configured     *)
  GroupBulk,               (* group_bulk: transfers in one job, at most     *)
  ArchiveTimeoutOverride,  (* archive_timeout_override: none, zero, set     *)
  MaxVersion,              (* bound: versions of the registry               *)
  Tagged,                  (* the activities that have a scitag             *)
  NoHost, NoId,
  Checksum, PREFERRED_CHECKSUM, MaxHops, NoChecksum

(* The choice of checksums, for a file with known ones. *)
C(known) == INSTANCE ChecksumStrategy
              WITH path <- <<>>, path_strategy <- "both", known <- known, picked <- <<>>

RSE == DOMAIN Attr
Host == {Attr[r].fts : r \in RSE} \ {NoHost}
Transfer == UNION {{path[i] : i \in DOMAIN path} : path \in Path}
Version == 0 .. MaxVersion   \* 0: no ids

(* A transfer is an object, made for its hop of its path.  No path goes    *)
(* through a tape (the comment fts3.py:448).                               *)
ASSUME SubmissionAssumption ==
  /\ \A r \in RSE : Attr[r].checks \in C({})!Rse
  /\ \A t \in Transfer : t.sources \in Seq(RSE) \ {<<>>} /\ t.dst \in RSE
  /\ \A path \in Path :
       /\ path \in Seq(Transfer) \ {<<>>} /\ Len(path) <= MaxHops
       /\ \A i \in 1 .. Len(path) - 1 :
            ~Attr[path[i].dst].tape /\ ~Attr[path[i + 1].sources[1]].tape
  /\ \A p, q \in Path : \A i \in DOMAIN p, k \in DOMAIN q : p[i] = q[k] => p = q /\ i = k
  /\ Policy \subseteq {"rule", "dest", "src_dest", "rule_src_dest",
                       "activity_dest", "activity_src_dest"}
  /\ \A paths \in Round : /\ paths \in Seq(Path) \ {<<>>}
                          /\ \A i, k \in DOMAIN paths : paths[i] = paths[k] => i = k
  /\ GroupBulk \in Nat \ {0} /\ MaxVersion \in Nat \ {0}
  /\ ArchiveTimeoutOverride \in {"none", "zero", "set"}
  /\ NoId \notin Host \X Transfer

VARIABLES
  policy,    (* group_policy                                                *)
  registry,  (* the registry of scitags: the version of its ids, and how it *)
             (* answers                                                     *)
  scitags,   (* the ids known, and whether they are due to be fetched       *)
  baseids,   (* REGION_SHORT: the server whose identity is cached for each  *)
  pc,        (* where the submitter is                                      *)
  batch,     (* the sub-paths of this round                                 *)
  tool,      (* the transfertool: its server, token and scitags             *)
  jobs,      (* the jobs of this round                                      *)
  todo,      (* those not posted yet                                        *)
  posted     (* the last job posted: its files and its expected id          *)

caches == <<scitags, baseids>>
vars == <<policy, registry, caches, pc, batch, tool, jobs, todo, posted>>

----------------------------------------------------------------------------
(* The path: servers and tokens. *)

Src(t) == t.sources[1]
Endpoints(t) == {t.sources[i] : i \in DOMAIN t.sources} \cup {t.dst}

(* _use_tokens *)
UseTokens(t) ==
  \A r \in Endpoints(t) : Attr[r].oidc /\ Attr[r].scheme \in {"davs", "https", "http"}

(* _pick_fts_servers, of which the first is used. *)
Server(t) ==
  IF NoHost \in {Attr[Src(t)].fts, Attr[t.dst].fts} THEN NoHost
  ELSE IF Attr[Src(t)].gcs THEN Attr[Src(t)].fts ELSE Attr[t.dst].fts

(* submission_builder_for_path: the hops up to the first without a server. *)
SubPath(path) ==
  LET n == CHOOSE n \in 0 .. Len(path) :
             /\ \A i \in 1 .. n : Server(path[i]) # NoHost
             /\ n < Len(path) => Server(path[n + 1]) = NoHost
  IN  SubSeq(path, 1, n)

(* The server is that of the last of these hops; tokens are for all of     *)
(* them or none.                                                           *)
Builder(subpath) ==
  [host |-> Server(subpath[Len(subpath)]),
   oidc |-> \A i \in DOMAIN subpath : UseTokens(subpath[i])]

----------------------------------------------------------------------------
(* The parameters of a job. *)

CheckHop(t) == [src |-> Attr[Src(t)].checks, dst |-> Attr[t.dst].checks]

(* _path_checksum_validation_strategy *)
PathStrategy(path) ==
  LET upto[n \in 0 .. Len(path)] ==
        IF n = 0 THEN "both"
        ELSE C({})!Merge(upto[n - 1], C({})!HopStrategy(CheckHop(path[n])))
  IN  upto[Len(path)]

(* build_job_params.  Values that the code only copies from the last       *)
(* request (lifetime, priority, max_time_in_queue by activity) are its     *)
(* terms; the account and what stays in job_metadata is left out.          *)
JobParams(path) ==
  LET last == path[Len(path)]
      src == Attr[Src(path[1])]
      dst == Attr[last.dst]
      onlyOnDisk == dst.tape /\ dst.overwrite_when_only_on_disk
      allowed == \/ last.overwrite = "yes"
                 \/ ~dst.tape
                 \/ ~onlyOnDisk /\ dst.overwrite
      hops == Len(path) > 1 /\ \A i \in 1 .. Len(path) - 1 : path[i].overwrite # "no"
      overwrite == allowed /\ (Len(path) > 1 => hops)
      archived == dst.tape /\ dst.archive_timeout = "valid"
  IN  [verify_checksum |-> PathStrategy(path),
       terms |-> last.terms,
       bring_online |-> src.tape,
       multihop |-> Len(path) > 1,
       multi_sources |-> Len(path) = 1 /\ Len(last.sources) > 1,
       overwrite |-> overwrite,
       overwrite_hop |-> hops /\ ~overwrite,
       overwrite_when_only_on_disk |-> onlyOnDisk,
       spacetoken |-> dst.spacetoken,
       strict_copy |-> dst.strict_copy,
       ipv4 |-> \E r \in Endpoints(last) : Attr[r].ipv4,
       s3alternate |-> ~src.s3host /\ ~dst.s3host,
       archive_timeout |-> CASE archived /\ ArchiveTimeoutOverride = "none" -> "own"
                             [] archived /\ ArchiveTimeoutOverride = "set" -> "override"
                             [] OTHER -> "none",
       dst_file_report |-> archived]

----------------------------------------------------------------------------
(* bulk_group_transfers *)

Alone(path) == JobParams(path).multihop \/ JobParams(path).multi_sources

(* Mutant: the destination is forgotten where the source is named too. *)
PolicyKeySource(t) ==
  CASE policy = "rule"              -> <<t.rule>>
    [] policy = "activity_src_dest" -> <<t.activity, Src(t)>>

PolicyKey(t) ==
  CASE policy = "rule"              -> <<t.rule>>
    [] policy = "dest"              -> <<t.dst>>
    [] policy = "src_dest"          -> <<Src(t), t.dst>>
    [] policy = "rule_src_dest"     -> <<t.rule, Src(t), t.dst>>
    [] policy = "activity_dest"     -> <<t.activity, t.dst>>
    [] policy = "activity_src_dest" -> <<t.activity, Src(t), t.dst>>

(* Mutant: the key leaves the checksum strategy out. *)
ParamsKeyUnchecked(path) ==
  LET p == JobParams(path)
  IN  <<p.spacetoken, p.terms, p.bring_online,
        p.overwrite_when_only_on_disk, p.overwrite, UseTokens(path[1])>>

(* The parameters that transfers of one job must have in common. *)
ParamsKey(path) ==
  LET p == JobParams(path)
  IN  <<p.verify_checksum, p.spacetoken, p.terms, p.bring_online,
        p.overwrite_when_only_on_disk, p.overwrite, UseTokens(path[1])>>

GroupKey(path) == <<ParamsKey(path), PolicyKey(path[1])>>

(* Mutant: the last transfers, too few to fill a job, are forgotten. *)
ChunksFull(s) ==
  {SubSeq(s, k * GroupBulk + 1, (k + 1) * GroupBulk) : k \in 0 .. (Len(s) \div GroupBulk) - 1}

(* chunks: a sequence in pieces of group_bulk. *)
Chunks(s) ==
  {SubSeq(s, k * GroupBulk + 1,
             IF Len(s) < (k + 1) * GroupBulk THEN Len(s) ELSE (k + 1) * GroupBulk) :
     k \in 0 .. (Len(s) - 1) \div GroupBulk}

(* Mutant: one hop too many. *)
CutLonger(path) ==
  SubSeq(path, 1, IF Len(path) < GroupBulk + 1 THEN Len(path) ELSE GroupBulk + 1)

Cut(path) == SubSeq(path, 1, IF Len(path) < GroupBulk THEN Len(path) ELSE GroupBulk)

(* The loop over the paths puts those with a key into one group, in order. *)
Group(paths, key) ==
  LET upto[n \in 0 .. Len(paths)] ==
        IF n = 0 THEN <<>>
        ELSE IF ~Alone(paths[n]) /\ GroupKey(paths[n]) = key THEN Append(upto[n - 1], paths[n])
        ELSE upto[n - 1]
  IN  upto[Len(paths)]

(* A path of several hops or sources is a job of its own, cut to           *)
(* group_bulk.  The others share jobs with those of the same key, with the *)
(* parameters of the first of them.                                        *)
JobsOf(paths) ==
  LET each == {paths[i] : i \in DOMAIN paths}
      groups == {Group(paths, GroupKey(p)) : p \in {p \in each : ~Alone(p)}}
  IN  {[transfers |-> Cut(p), params |-> JobParams(p)] : p \in {p \in each : Alone(p)}}
      \cup UNION {{[transfers |-> chunk, params |-> JobParams(group[1])] :
                     chunk \in Chunks([i \in DOMAIN group |-> group[i][1]])} :
                   group \in groups}

----------------------------------------------------------------------------
NoTool == [host |-> NoHost, token |-> FALSE, tags |-> 0]
NotPosted == [files |-> <<>>, params |-> NoId, id |-> NoId, sid |-> NoId]

Init ==
  /\ policy \in Policy
  /\ registry = [version |-> 1, answer |-> "ok"]
  /\ scitags = [ids |-> 0, due |-> TRUE]
  /\ baseids = [h \in Host |-> NoHost]
  /\ pc = "idle" /\ batch = <<>> /\ tool = NoTool
  /\ jobs = {} /\ todo = {} /\ posted = NotPosted

(* Mutant: known ids are never fetched again. *)
FetchedOnce ==
  IF ~scitags.due \/ scitags.ids # 0 THEN scitags
  ELSE [ids |-> IF registry.answer = "ok" THEN registry.version ELSE 0, due |-> FALSE]

(* _scitags_ids: ids that are due are fetched.  An exception keeps those   *)
(* known; an answer other than 200 replaces them by none.                  *)
Fetched ==
  IF ~scitags.due THEN scitags
  ELSE [ids |-> CASE registry.answer = "ok" -> registry.version
                  [] registry.answer = "error" -> 0
                  [] registry.answer = "timeout" -> scitags.ids,
        due |-> FALSE]

(* The paths of a round: those that have the same transfertool.           *)
Batches ==
  {[i \in DOMAIN paths |-> SubPath(paths[i])] :
     paths \in {paths \in Round :
       \A i, k \in DOMAIN paths :
         /\ SubPath(paths[i]) # <<>>
         /\ Builder(SubPath(paths[i])) = Builder(SubPath(paths[k]))}}

(* A round begins: the constructor of the transfertool, and                *)
(* group_into_submit_jobs.  A token for FTS may not be had: then a         *)
(* certificate is used, and the files get no tokens.                       *)
Construct(paths) ==
  /\ pc = "idle"
  /\ batch' = paths
  /\ scitags' = Fetched
  /\ \E token \in {Builder(paths[1]).oidc, FALSE} :
       tool' = [host |-> Builder(paths[1]).host, token |-> token, tags |-> Fetched.ids]
  /\ \E groups \in {JobsOf(paths)} : jobs' = groups /\ todo' = groups
  /\ pc' = "submitting"
  /\ UNCHANGED <<policy, registry, baseids, posted>>

(* _file_from_transfer, with any of the checksums that _pick_fts_checksum  *)
(* may choose.                                                             *)
FilesOf(job) ==
  LET picks(t) == C(t.known)!Picks(CheckHop(t), job.params.verify_checksum)
      file(t, c) ==
        [transfer |-> t, checksum |-> c, tokens |-> tool.token,
         tag |-> IF t.activity \in Tagged THEN tool.tags ELSE 0,
         staging |-> Attr[Src(t)].tape]
  IN  {[i \in DOMAIN job.transfers |-> file(job.transfers[i], c[i])] :
         c \in {c \in [DOMAIN job.transfers -> Checksum \cup {NoChecksum}] :
                  \A i \in DOMAIN c : c[i] \in picks(job.transfers[i])}}

(* Mutant: one entry of the cache for all servers. *)
LooksUpAny(h, known) ==
  IF \E g \in Host : baseids[g] # NoHost
  THEN known = baseids[CHOOSE g \in Host : baseids[g] # NoHost] /\ UNCHANGED baseids
  ELSE /\ known \in {h, NoHost}
       /\ baseids' = [baseids EXCEPT ![h] = known]

(* __get_transfer_baseid_voname: from the cache, or from whoami, which may *)
(* fail and is not cached then.                                            *)
LooksUp(h, known) ==
  IF baseids[h] # NoHost THEN known = baseids[h] /\ UNCHANGED baseids
  ELSE /\ known \in {h, NoHost}
       /\ baseids' = [baseids EXCEPT ![h] = known]

(* submit, up to the post: the files, and the id expected of the job. *)
Submit(job) ==
  /\ pc = "submitting" /\ job \in todo
  /\ \E known \in Host \cup {NoHost} :
       /\ LooksUp(tool.host, known)
       /\ \E files \in FilesOf(job) :
            posted' = [files |-> files, params |-> job.params, sid |-> job.transfers[1],
                       id |-> IF known = NoHost THEN NoId ELSE <<known, job.transfers[1]>>]
  /\ todo' = todo \ {job}
  /\ UNCHANGED <<policy, registry, scitags, pc, batch, tool, jobs>>

(* The round is over: the transfertool is dropped. *)
Finish ==
  /\ pc = "submitting" /\ todo = {}
  /\ pc' = "idle" /\ batch' = <<>> /\ tool' = NoTool /\ jobs' = {}
  /\ posted' = NotPosted
  /\ UNCHANGED <<policy, registry, caches, todo>>

(* fetch_interval has passed, or five minutes after an exception.  A round *)
(* looks at the ids and at the registry when it begins only: what changes  *)
(* during a round is left to its end.                                      *)
ScitagsDue ==
  /\ pc = "idle" /\ ~scitags.due
  /\ scitags' = [ids |-> scitags.ids, due |-> TRUE]
  /\ UNCHANGED <<policy, registry, baseids, pc, batch, tool, jobs, todo, posted>>

(* The entry of REGION_SHORT expires. *)
BaseidExpires(h) ==
  /\ baseids[h] # NoHost
  /\ baseids' = [baseids EXCEPT ![h] = NoHost]
  /\ UNCHANGED <<policy, registry, scitags, pc, batch, tool, jobs, todo, posted>>

(* The registry publishes other ids, or answers in another way. *)
RegistryChanges ==
  /\ pc = "idle"
  /\ \/ /\ registry.version < MaxVersion
        /\ registry' = [registry EXCEPT !.version = registry.version + 1]
     \/ \E answer \in {"ok", "error", "timeout"} \ {registry.answer} :
          registry' = [registry EXCEPT !.answer = answer]
  /\ UNCHANGED <<policy, caches, pc, batch, tool, jobs, todo, posted>>

Next ==
  \/ \E paths \in Batches : Construct(paths)
  \/ Finish
  \/ \E job \in todo : Submit(job)
  \/ ScitagsDue \/ RegistryChanges
  \/ \E h \in Host : BaseidExpires(h)

Spec == Init /\ [][Next]_vars

(* Time passes, and a round that has its transfertool goes on.  Nothing    *)
(* makes transfers come or the registry answer.                            *)
FairSpec == Spec /\ SF_vars(ScitagsDue) /\ WF_vars(Finish)
                 /\ WF_vars(\E job \in todo : Submit(job))

----------------------------------------------------------------------------

TypeOK ==
  /\ policy \in Policy
  /\ registry \in [version : Version, answer : {"ok", "error", "timeout"}]
  /\ scitags \in [ids : Version, due : BOOLEAN]
  /\ baseids \in [Host -> Host \cup {NoHost}]
  /\ pc \in {"idle", "submitting"}
  /\ batch \in Batches \cup {<<>>}
  /\ tool \in [host : Host \cup {NoHost}, token : BOOLEAN, tags : Version]
  /\ (pc = "idle") = (tool.host = NoHost)
  /\ todo \subseteq jobs
  /\ \A job \in jobs : 0 < Len(job.transfers) /\ Len(job.transfers) <= GroupBulk

(* FTS validates a file on the sides that the job names: only those that   *)
(* can be validated for its own hop, and all of these unless the job is a  *)
(* path; and with a checksum known of it that the RSEs there support.      *)
ChecksumFits(file) ==
  LET hop == CheckHop(file.transfer)
      own == C({})!Sides(C({})!HopStrategy(hop))
      named == C({})!Sides(posted.params.verify_checksum)
  IN  /\ named \subseteq own
      /\ ~posted.params.multihop => named = own
      /\ file.checksum # NoChecksum =>
           /\ file.checksum \in file.transfer.known
           /\ \A side \in named : file.checksum \in C({})!Checksums(hop, side)

(* Tokens are sent only if all the RSEs of the transfer take them. *)
TokensFit(file) == file.tokens => UseTokens(file.transfer)

(* A file on tape is overwritten only if its RSE or its own request allows *)
(* it (the comment fts3.py:440-443).                                       *)
OverwriteFits(file) ==
  LET dst == Attr[file.transfer.dst] IN
  dst.tape /\ posted.params.overwrite =>
    \/ file.transfer.overwrite = "yes"
    \/ dst.overwrite /\ ~dst.overwrite_when_only_on_disk

(* A file that is staged from tape is in a job with bring_online. *)
StagingFits(file) == file.staging => posted.params.bring_online

(* What is computed for a path, or for the first transfer of a group,      *)
(* suits every file of the job it ends up in.                              *)
FilesFit ==
  \A i \in DOMAIN posted.files :
    LET file == posted.files[i] IN
    ChecksumFits(file) /\ TokensFit(file) /\ OverwriteFits(file) /\ StagingFits(file)

(* The job's parameters that the group key leaves out depend on the RSEs.  *)
(* A policy that names the destination makes those of the destination the  *)
(* same for all transfers of a job, one that names the source too makes    *)
(* all of them the same.                                                   *)
SharedParams ==
  \A job \in jobs : ~(job.params.multihop \/ job.params.multi_sources) =>
    \A i \in DOMAIN job.transfers :
      LET own == JobParams(<<job.transfers[i]>>) IN
      /\ policy # "rule" =>
           \A p \in {"strict_copy", "archive_timeout", "dst_file_report"} : job.params[p] = own[p]
      /\ policy \in {"src_dest", "rule_src_dest", "activity_src_dest"} => job.params = own

(* Every hop of the round is in exactly one job, but for those of a path   *)
(* beyond group_bulk, which are in none.                                   *)
EachHopOnce ==
  pc = "submitting" =>
    \A i \in DOMAIN batch : \A k \in DOMAIN batch[i] :
      Cardinality({place \in jobs \X (1 .. GroupBulk) :
                     LET s == place[1].transfers IN
                     place[2] \in DOMAIN s /\ s[place[2]] = batch[i][k]})
        = IF k <= GroupBulk THEN 1 ELSE 0

(* The id expected of a job is the one its own server derives from its     *)
(* first file: an id derived for another server would be recorded for a    *)
(* job that does not exist.                                                *)
IdsRight == posted.id # NoId => posted.id = <<tool.host, posted.sid>>

(* The tags of files follow the registry: when it answers from some time   *)
(* on, all files are tagged with its ids sooner or later, whatever its     *)
(* answers did to the ids before.                                          *)
TagsFollow ==
  /\ <>[](registry.answer = "ok")
  /\ []<>(pc = "submitting")
  => <>[](pc = "submitting" => tool.tags = registry.version)
=============================================================================
