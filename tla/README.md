# Verification of the Rucio storage testbed

TLA+ specifications of the programs this repository carries, with TLC
configurations and TLAPS proofs. The repository assembles a testbed (Rucio, FTS,
XRootD, StoRM, Teapot, Keycloak, MinIO) from container images; its own program
logic is in the patched sources it mounts into them and in the test suite:

| part | source | state | module |
|---|---|---|---|
| Teapot, a proxy that runs one storm-webdav JVM per user | `src/shared/patches/teapot/teapot.py` | `sw_state`, `session_state`, the session store, the processes | `Teapot` over `InstanceLifecycle`, proofs in `TeapotProofs` |
| FTS3 transfertool of Rucio: from paths to jobs | `src/shared/patches/rucio/fts3.py` 182-244, 403-673, 1123-1395, 1823-1893 | the scitags ids and the identities of servers, both cached; one round of the submitter | `Submission`, proofs in `SubmissionProofs` |
| FTS3 transfertool: post, cancel | `fts3.py` 1354-1477 | requests in the database, FTS jobs | `Conveyor` over `RequestLifecycle`, proofs in `ConveyorProofs` and `ConveyorRefinement` |
| FTS3 transfertool: status reports and bulk query | `fts3.py` 676-1111, 1581-1631, 1895-1950, `constants.py` | verdicts on requests | `StatusReports` (pure), `Conveyor` |
| FTS3 transfertool: checksums | `fts3.py` 148-170, 289-396 | none | `ChecksumStrategy`, proofs in `ChecksumProofs` |
| Transfer tests and helpers | `src/shared/tests/testbed.py`, `test-rucio-*.py` | a rule, requests, a storage that is stopped and started | `TransferTests`, proofs in `TransferTestsProofs` |
| FTS REST patches | `src/shared/patches/fts/*.py` | provider clients, set up once per process; their keys, cached | `Providers`, proofs in `ProvidersProofs` |
| SE configuration, `query`, `whoami`, `version`, priorities | `fts3.py` 1479-1580, 1633-1815 | none | not modelled |
| protocol tests, scripts, deployment | `test-fts-with-*.py`, `scripts/`, compose, Helm | none of their own | not modelled |

Run any configuration with `tlc -config X.cfg M`, where `PROJECT.json` pairs
configurations and modules, and check the proofs with `tlapm` on each of
`TeapotProofs.tla`, `ConveyorInvariant.tla`, `ConveyorProofs.tla`,
`ConveyorRefinement.tla`, `SubmissionProofs.tla`, `ChecksumProofs.tla`,
`ProvidersProofs.tla` and `TransferTestsProofs.tla`.

## How the parts interact, and what is hard

*Teapot* is one asyncio event loop. Requests, a reaper and a startup/shutdown
function share the state of each user (`sw_state`, guarded by one condition for
all users), the sessions (guarded by a lock of their own) and a JSON file. The
JVMs are separate processes that outlive Teapot and die by themselves. Hard: what
changes between two locked sections; a wake-up meant for another user; a crash
between truncating and writing the store; stops and starts that fail half-way.
Correct: one starter per user, RUNNING means there is an instance, the right
process is killed, no start, stop or request lasts for ever.

*The conveyor* is four daemons around one database: a submitter groups queued
requests into FTS jobs, a poller asks FTS for jobs, a receiver gets FTS's
messages, a finisher retries what failed. They call `fts3.py`, and share nothing
but the requests. Hard: an answer that is lost after FTS accepted a job; a message
that comes before its job is recorded, or after the request was submitted again;
poller and receiver judging one transfer from different data; files that are
written but not yet on tape; jobs of several sources or hops. Correct: a verdict
is what the job says, is kept, DONE means stored, every request gets one.

*The submission* is a class the submitter makes anew for every round and server.
What outlives a round is in two caches: the scitags ids of a public registry, in
module globals, and what `whoami` said of a server, in a shared cache. Hard: whatever
is computed once, for a path or for the first transfer of a group, is used for all
files of the job; a cache that is wrong after a failure. Correct: what a job says
suits each of its files, every hop is in one job, a cached value is used for what it
was fetched for, and bad answers are recovered from.

*The FTS REST server* runs in several Apache processes, each of which reads the
providers from the database and asks them for their discovery documents while it
starts. Hard: a provider or the database that fails at that moment; two spellings of
one issuer; keys that rotate while they are cached. Correct: only keys of the issuer
verify its tokens, and a provider that works is accepted sooner or later.

*The transfer tests* run each daemon once per turn while FTS and the pods go on.
Hard: what FTS has done by the time the poller runs; a pod that serves traffic
while it is deleted; requests that are archived before a test looks at them; a
helper that fails half-way and leaves the next test without its source. Correct: a
test that passes has seen what its docstring claims, its loop ends, and the testbed
is left as it was.

*Across*: the transfer tests drive the conveyor's daemons, FTS and, for TEAPOT1/2,
Teapot. The models meet at the same abstraction (a request, a job, its verdict)
but are not composed; that composition is in the plan.

## Teapot

`InstanceLifecycle` is the promise of the docstring of `storm_webdav_state`
(866-886) for one user each: NOT RUNNING, STARTING, RUNNING, STOPPING, the
transitions between them, and a published instance that does not change while
RUNNING. `Teapot` is the code, and implements it under the refinement mapping
`phase` (ABSENT counts as NOT RUNNING) and `published` (pid and port while
RUNNING).

A task gives way only where it awaits, so an action of `Teapot` is the code from
one await to the next. The body of a section under `state_lock` never awaits, and
neither `sw_state` nor the pid and port of a session change outside
`sw_condition`; a locked section with the session update nested in it is therefore
one action (the module's header gives the argument). `asyncio.Condition.notify()`
wakes the longest waiter, of whatever user; `waiters` is that queue.

| actions | code |
|---|---|
| `EnterAndStart`, `EnterRunning`, `EnterAndWait` | a request enters `storm_webdav_state`, 883-926 |
| `RejectUnmapped`, `SpawnFail`, `Spawn`, `GetProc*`, `StartFailed` | `_start_webdav_instance`, the directories, the port and `_get_proc`, 928-955 and the functions called there |
| `ProbeAnswered`, `ProbeMissed`, `StartTimedOut`, `StartRaises`, `StartSucceeded` | the probe loop and its ends, 957-1018 |
| `Lookup`, `Count`, `Send`, `Respond` and their failures | `root`: the port, `active_requests`, the proxied request, 1020-1300 |
| `Sweep`, `Check`, `Stop*` | `stop_expired_instances` and `_stop_webdav_instance` |
| `ShutdownStarts` to `ShutdownFails`, `Forget`, `Saving`, `Crash`, `Boot` | `lifespan`, the session store |
| `ProcUp`, `ProcPortTaken`, `ProcExits`, `ProcDies`, `Age` | the JVMs and the time |

`Faults` says which faults an instance may meet (`FaultNames` lists them), so that
liveness is asked only where the code handles what goes wrong and safety
everywhere. `idle` abstracts `last_accessed`: a recorded user may become idle at
any time, and any touch ends it. `STARTUP_TIMEOUT` counts probes.

Runs:

- `teapot_faults`: two requests of any two of three users (two with an account,
  interchangeable; one without), two processes, all eleven faults. `SoleStarter`,
  `InstanceRecorded`, `StoreMatchesMemory`, `OwnProcess`, the refinement
  `LifecycleSpec`, and the inductive invariant `Inv`.
- `teapot_live`: three requests and three processes of one user. `StartEnds`,
  `StopEnds`, `IdleInstanceStopped`, `RequestEnds`. Faults are those the code
  handles (missing directories, a proxied request that fails).
- `teapot_port_race` and `teapot_stale_check` refute what a text of the repository
  says (below).

Three more things the model shows, which no run asks for:

- With the fault `read` a response of the instance cannot be read to its end: `aread`
  (1281) raises, the background task that decrements `active_requests` (1321-1324) is
  never attached, and every sweep skips an instance that nobody uses (660), although the
  docstring says that it is stopped (642-643). Add `"read"` to the faults of
  `teapot_live` and `IdleInstanceStopped` is violated.
- With the fault `linger` a stopped process takes time to exit, `sudo kill` (595)
  returns at once, and the next start finds the old process first (549-555, same
  command line, lower pid) and records it. When that session expires the kill fails
  (592), nothing resets STOPPING, and the user's requests sleep for ever: `StopEnds`
  holds only without that fault.
- After `Crash` and `Boot` the sessions are loaded (773) but `sw_state` (140) is
  empty: the first stop raises `KeyError` in `state[username]` (563), which ends the
  reaper task (`StopRaises`), although teapot.py:638 says that it "continuously
  checks".

Bounds: two requests suffice for every race between two tasks of a user and for
two users, the third process of the liveness run for start, stop, start. A
request never depends on more than one other but through `waiters`, which three
requests fill with two sleepers. The proofs have no bounds.

Fairness is weak and only on what a scheduler does: the event loop runs tasks that
can run, time passes, processes boot and exit. Nothing makes clients send requests
or faults happen.

## Conveyor

`StatusReports` has the decisions of both status reports as operators: what
`_dst_file_set_and_file_corrupted`/`_correct` and
`_is_recoverable_fts_overwrite_error` say of a found file, `MessageVerdict` and
`ApiVerdict`, when a report asks for `overwrite`, and which file of a multi-source
job is reported (`Reported`). `Conveyor` puts them between submitter, FTS, poller,
receiver and finisher. A row of the database is a destination and an attempt.

- A call over HTTP is several steps: `Submit` (post), `FtsAccepts`/`FtsRefuses`,
  and one of `Answered`, `TimesOut`, `Unanswered`. The post arrives at the latest
  when the client gives up. `PollReads`, `PollAnswered`, `PollApplies` are the
  poller's snapshot, query and updates, with the receiver and FTS in between.
- `mail` is every message FTS ever sent: messages are late, repeated or lost by not
  being received. The receiver passes the last error of a multi-source job only;
  it is not in the repository, and the hazard list names this assumption.
- `Applies` and `Update` are the comparison of the external id in each report. For
  the poller Rucio's core compares the row once more before the update.
- FTS takes one active file per destination and answers 409 otherwise. `requests`
  holds that a response with an error status is false, so `submit` treats 409 as
  any failed answer: with a deterministic id the submission counts as made.
- `PathGroups` and `BulkGroups` are `bulk_group_transfers`, whose parameters are
  abstracted to `overwrite`; `Submission` has all of them.
- A retry inherits the attributes of its predecessor (so does Rucio, outside the
  repository). `overwrite_when_only_on_disk` and the RSE attribute `overwrite` are
  at their defaults. A file's size and checksum are abstracted to corrupted or
  correct, at disk or tape (`Found`).

`RequestLifecycle` is what a rule may rely on: a request is submitted, decided once
for each attempt, DONE only while its destination holds the file, which nothing
touches after that. `Conveyor` implements it (`RequestSpec`), with the last attempt
of a destination as the request; jobs the database has forgotten, and messages and
polls that come late, map to steps that change nothing a rule sees.

Runs: `conveyor_tape` (two files on tape, in jobs of one or both, two attempts, ids
given by FTS, two jobs at most), `conveyor_sources` (two sources, ids given by FTS, four jobs at most, so that
submissions time out and are repeated), `conveyor_live` (a path of three hops cut
to two by `group_bulk`, two attempts, nothing received: the poller alone must
settle everything; ids are deterministic). Two attempts are one retry: every
confusion of an attempt with its predecessor needs just two. Four jobs are an orphan
and a recorded job for each attempt. `OverwriteWasCorrupted` says who may get the
attribute `overwrite`; that later attempts keep it is what fts3.py:442-443 allows,
and no property forbids it.

Fairness (`conveyor_live`): FTS works on its jobs and the daemons run for ever
(weak); a poll or submission that is repeated does not fail every time (strong,
since each failure disables it). Nothing is assumed of messages.

## Submission

A round of the submitter begins with `Construct`: the paths of the round, all for one
server and way to authenticate (`SubPath`, `Builder`), the transfertool, which fetches
scitags ids that are due (`Fetched`), and `bulk_group_transfers` (`JobsOf`). `Submit`
makes the files of a job (`FilesOf`, with `Picks` of `ChecksumStrategy`), and looks the
identity of the server up (`LooksUp`), from which a deterministic id is derived; the
post itself is in `Conveyor`. `Finish` drops the transfertool. RSEs are records of the
attributes the code reads (`Attr`); what a parameter only copies from a request
(lifetime, priority, time in queue) is its `terms`.

`SubmissionAssumption` has what a round may rely on: a transfer is an object made for
its hop of its path, so none occurs twice; and no path goes through a tape, as the
comment fts3.py:448 says of multihop ("We don't allow multihop via a tape, so
bring_online should not be set on any other hop"). Without the latter `FilesFit` would
be wrong: `bring_online` and `overwrite` look at the two ends of a path only.

| definitions | code |
|---|---|
| `UseTokens`, `Server`, `SubPath`, `Builder` | `_use_tokens`, `_pick_fts_servers`, `submission_builder_for_path` |
| `PathStrategy`, `JobParams` | `_path_checksum_validation_strategy`, `build_job_params` |
| `ParamsKey`, `PolicyKey`, `Group`, `Chunks`, `Cut`, `JobsOf` | `bulk_group_transfers` |
| `Fetched`, `ScitagsDue`, `RegistryChanges` | `_scitags_ids`, its interval, the registry |
| `FilesOf`, `Submit`, `LooksUp`, `BaseidExpires` | `_file_from_transfer`, `submit`, `__get_transfer_baseid_voname`, the cache time of `REGION_SHORT` |

`submission` checks rounds of one path, of two in any order, and of three that need a
second job, out of thirteen paths: disks, a tape, two sources, two and three hops, a hop
without server, other checksums, tokens and strict copy; the policies `rule` (the
default) and `activity_src_dest`, two servers, two versions of the registry. Any two
transfers either share a job or do not, so two decide the grouping; `group_bulk` is 2,
which cuts the path of three hops and splits the group of three.

- `FilesFit`: every file of a posted job is validated on the sides its own hop can
  validate, and on all of them unless it is in a path; has tokens only for RSEs that
  take them; overwrites a tape only if allowed there; is staged in a job with
  `bring_online`.
- `SharedParams`: the key of a group leaves out `strict_copy`, `archive_timeout`,
  `ipv4` and `s3alternate`. They are right for all transfers of a job if the policy
  names source and destination, those of the destination if it names that. With `rule`
  they are those of the first transfer; the model has such a job.
- `EachHopOnce`: every hop is in exactly one job, but those beyond `group_bulk`.
- `IdsRight`: the expected id of a job is that of its own server. The cache key is the
  server alone, and the name cached is the first VO of whoever asked: several VOs at
  one server are outside the model, and would break it.
- `TagsFollow` (liveness): once the registry answers for good, tags follow it, whatever
  its failures did before: an exception keeps the ids for five minutes more, an answer
  other than 200 replaces them by none for `fetch_interval` (48 hours).

Fairness: an interval that has begun ends (strong, as rounds come in between), and a
round that has begun goes on. That transfers come is a premise of `TagsFollow`.

Seen on the way: `dst_file_report` is set although `archive_timeout_override` is 0, when
no `archive_timeout` is sent (comment fts3.py:551: "FTS only supports dst_file metadata
if archive_timeout is set"); only the first source of a transfer is asked for its
checksums (294), while FTS may validate the one picked on another source; a token
`request_token` could not get is sent as null (1321-1334).

## Providers

`Providers` is one process of the FTS REST server. `Load` and `LoadFails` read the
table (68-98 of `middleware.py`; an exception keeps what was read so far), `Configure`
and `ConfigureFails` take one provider each, in any order, as the database gives them
(30-48 of `openidconnect.py`), `RetrieveKeys` ends the start (50-60). `Request` is what a
token leaves behind: keys asked for again when they are older than `JWKCacheSeconds`
(`Cached`, PyOIDC, external). `Verified` is the check of the signature with `Filtered`
(`filter_provider_keys`); `Accepts` is the lookup in `fts3.Providers` besides, external
and under the `iss` as it is, because the comments of `middleware.py` (70-72, 83-85) say
that the key stored must match it. `Recycle` is Apache's `maximum-requests` (3000,
`config/fts/fts3rest.conf:64`) or a restart; `StoreRow`, `Switch`, `Rotate` are
operators and providers.

`fts_tokens` has two providers, the first stored with and without a trailing slash, as
the setup script stores it, and two generations of keys. Two providers show one that
fails before or after one that does not, and a rotation needs two keys; the proofs have
no bounds.

- `VerifiedByIssuer`: what is verified is signed with a key its issuer has published,
  although a kid that matches no cached key falls back to all of them.
- `ProviderAccepted`: a provider that is stored in the spelling of its tokens and answers
  is accepted again and again by a process that is recycled again and again, whether or
  not it is stored in another spelling too: a failure is forgotten with the process.
  Without recycling it is not, as setup runs once. One stored with a trailing slash
  only has a client, and is never accepted.
- `RotationFollowed`: a process that knows a provider verifies with its new key sooner or
  later, without a restart.

Fairness: the start goes on, a query does not fail for ever (strong), the cache time
passes. Requests, recycling and answers of providers are not promised; the properties
name those they need.

## Checksums

`ChecksumStrategy` builds a path hop by hop: `HopStrategy` is the strategy of two
RSEs (310-343), `LookAt` merges it into that of the path (345-362), `Pick` gives
each hop a checksum (364-396), in any order of Python's set iteration. `checksums`
checks
all paths of up to two hops over two checksums. `StrategyIsCommon`: a path
validates a side only if every hop can, in whatever order they are merged.
`PickedIsSupported`, `PreferredIsUsed`: no hop gets a checksum for a side that does
not know it, and the preferred one is used when it is possible.

## Transfer tests

`TransferTests` is a test as a program of its own (`pc`, `todo`), chosen in `Init`
from the five kinds: the plain transfers (files or a dataset), token expiry, wrong
checksum, source declared unavailable, source stopped. `Turn` takes the next daemon
of `run_daemons` or of the loop's shorter list; the daemons (`Submits`, `Polls`,
`Finishes`) are external and one step each, since nothing else touches the
database. `ValidateRule`, `ExpiryTest`, `ChecksumTest`, `UnavailableTest` and
`DownTest` are what each test makes of the rule. `Stop`, `Waited`, `Start`, `Ready`
are `svc_stop`, `svc_start` and their waiting loops on compose and k8s; retries of
a waiting loop are abstracted to giving up at any time. The deadline is a clock
that may strike whenever it likes, or never. `RuleMissing` is `RuleNotFound`, after
which three of the loops go on and the other two tests fail; `ClientFails` is any
other exception of the Rucio client; `GetRequest` may come back empty, as
`_get_request` swallows exceptions. A job ends as finished, refused for its checksum
(`JobRefused`), or failed for another reason (`JobFails`).

`transfer_tests` checks rules of one and two files and three retries, as
`retry_count` has it. `PassMeansStored`, `PassMeansFailed`, `PassMeansNotSent`,
`DownNeverOk`: what is true when a test passes. Two of them are less than what the
tests say of themselves. The checksum test proves that FTS had a job that failed, not
that the checksum made it fail: `checksum_mechanism` refutes that (below). And the
docstring of the test of a stopped source (282-286) speaks of a `previous_attempt_id`,
which the test prints and does not assert; nothing is claimed of it here.
`SourceRestored`, `StoredPasses`, `EndsByItself`: the testbed is restored, and a loop
ends without the help of its deadline where it can. Fairness: the test, the pods and
FTS go on (weak); FTS does not leave a daemon without answer for ever, and a rule that
exists is found sooner or later (strong, since a failure disables the step).

What the model shows beyond its properties:

- `validate_rule` runs poller and finisher between two looks (262-267; its
  docstring says "cycle daemons each loop"). A request the finisher queues again is
  never submitted, so a transfer that fails once ends in `TimeoutError` after 180 s.
  For the same reason the test of an unavailable source is sound although its
  assertion on `external_id` is not: `_get_request` does not see archived requests,
  but a transfer that was sent by mistake never gets to its last attempt. The mutant
  of `PassMeansNotSent` runs all the daemons, and the test passes after four
  dispatched attempts.
- The checksum test polls once, right after the submission. If FTS has not refused
  the file by then the test fails, with the message that nothing was dispatched;
  ROADMAP.md:40 says "no timing dependencies".

## Findings

| run | what the code does | what the text says |
|---|---|---|
| `teapot_port_race` | two users starting together are given one port | adr-001:66 "per-user JVM isolation" |
| `teapot_stale_check` | the reaper stops an instance that became active after it looked | teapot.py:661 "skipping shut down" |
| `checksum_mechanism` | the checksum test passes when the transfer failed at FTS for any reason | test-rucio-checksum-mismatch.py:135-140 "rejected on checksum" |

## Proofs

`TeapotProofs` proves for every number of requests, users, processes and probes,
and any faults, from the assumptions `ConstantsAssumption` and
`NoSessionAssumption` of `Teapot` only: `TypeCorrect`, `InvCorrect`, `SoleStarterCorrect`,
`InstanceRecordedCorrect`, `StoreCorrect`, `OwnProcessCorrect`,
`SleepersWokenCorrect`, and `LifecycleCorrect`, that `Teapot` implements the safety part of
`InstanceLifecycle`.

The invariant is `Inv`. None of its parts is inductive alone:

- type correctness needs `ActorsKnown` (a request that is past `idle` has a user, a
  task that stops an instance has a victim), or `swState[user[r]]` is undefined;
- `InstanceRecorded` needs `StarterHolds`: between the start of a process and the
  session that records it, pid and port live in local variables of the starter, and
  `SoleStarter`, or another starter could overwrite them;
- `OwnProcess` follows from `SessionsSound`, which also speaks of the store, because
  a restart loads it; and that needs `StoreMatchesMemory`, and `UnusedIsNobodys` for
  a pid that is used for the first time;
- `DownIsBlank` is what a restart starts from.

The proof has two halves: `TypeStep` and `ActorsStep` first (`TypeCorrect` rests on
them alone), then one `Core...` lemma per group of actions, joined in `InvStep`.
`LifecycleStep` is the refinement: each action changes the phase of one user along
a transition of the abstract specification, of none, or of all (`Crash`, `Boot`).

`SleepersWokenCorrect` is the safety half of `RequestEnds`, for all users and
whatever happens but five steps: while a request sleeps in `sw_condition.wait()` (924), somebody is left
who will notify. One condition serves all users and `notify()` wakes one waiter (of any
user), so this is not local to a user; `Watch` is the invariant that carries it. The
queue holds exactly the sleepers, each once; nobody sleeps when every state is NOT
RUNNING, unless somebody is about to look (`NotForgotten`); whoever set STARTING or
STOPPING is still at it; the reaper lives. The theorem is about behaviours without the
steps of `Silent`: a user without account (930), an exception while starting, a start
that times out (975), a kill that fails after STOPPING was set (592), and the `KeyError`
that ends the reaper (563). Each of these leaves its state behind, or changes it,
without a `notify()`. That the sleeper is then woken in fact needs fairness and is left
to `teapot_live`. No run checks `SleepersWoken` itself.

`ChecksumProofs` proves `ChecksumTypeCorrect`, `StrategyCorrect`, `PickCorrect` and
`PreferenceCorrect` for any set of checksums and paths of any length. `MergeIsMeet`
carries it: merging strategies is taking the sides they have in common, a meet, so
the order of the hops does not matter. The invariant says of a path under
construction what its sides are so far.

`ProvidersProofs` proves `ProvidersTypeCorrect` and `VerifiedCorrect`, for any issuers in
any spelling and any number of rotations, from `ProvidersAssumption`. `KeysPublished` is
the inductive part: a client caches only keys its issuer has published. What is verified
now may be asked for in the same step, so `VerifiedCorrect` needs it of `Published` too.

`ConveyorInvariant` and `ConveyorProofs` prove `InvCorrect`, `TypeCorrect`,
`VerdictCorrect` and `OverwriteCorrect` for any files, sources, attempts, bulk sizes and
kinds of ids, from `ConveyorAssumption` only. What a verdict rests on reached it by a
message, or by a poll that read the database, asked FTS and came back later, so `Inv`
says of everything under way what it knows:

- `MailSound`: a message tells how a file ended; `PollSound`: the id in the poller's
  snapshot was recorded, and a report that it is about to apply says what the job says;
- `IdsRecorded`: a recorded id is that of a job, or of one that FTS will never have;
- `PostSound`: what is posted is queued, in order, and short enough; `JobsSound`: the
  files of a job are of different destinations, or the sources of one request tried in
  turn, so at most one of them decides;
- `OneAttempt`: a destination has one attempt at a time, and one yet to come has no id;
- `VerdictSound` and `OverwriteSound`: the two properties for every attempt, those that
  the database has forgotten included.

The proof divides what the steps do by what they change. A job never takes back what it
said of a file that ended (`FilesKeep`, `SaysKeeps`), so what is known of it stays
true, however late it arrives. And the requests change in three ways only
(`RequestStep`): a submission is recorded, a report is applied, a failed attempt is
queued again; the invariant is proved of these, not of each daemon.

`ConveyorRefinement` proves `RefInvCorrect` and `RefinementCorrect` (`Conveyor`
implements `RequestLifecycle`), and `DoneCorrect`: a request that is DONE stays DONE with
its file in place. A refused or timed out post leaves orphans, jobs that the database
does not know. `Alone` says that while a job is, or can come to be, that of a request,
no other job writes its destination: FTS takes one active file per destination, and
refuses the rest. `DoneIsSafe` follows the file from the job to the request. With
deterministic ids an orphan has the id of a job to come; that it is then the same job
is `OneJob`, from `SingleJobs` (a job of one request) or `PathJobs` (the hops that
are left of a path are cut to the same job each time).

Its hypothesis `Unregrouped` leaves one configuration out: deterministic ids (off by
default, fts3.py:1180) with jobs that share several requests (`group_bulk` is 1 by
default), of single files. There the refinement is false. A request is submitted alone,
its job J2 finishes, but the answer times out; next it is grouped with another, and
that job J1 is accepted, its answer lost as well; the third time it is alone again, FTS
refuses (409), and the expected id J2 is recorded: the request is DONE while J1, which
no row names, still writes its destination. No text of the repository excludes this, so
no run reports it as a finding.

`SubmissionProofs` proves all the safety properties of `Submission`:
`SubmissionTypeCorrect`, `FilesCorrect`, `SharedCorrect`, `OnceCorrect` and `IdsCorrect`,
for any RSEs, paths, rounds and length of jobs. Most of it is about the operators:

- the loops over the hops of a path (`PathStrategy`) and over the paths of a round
  (`Group`) are recursive functions. The library's theorems on these take an operator as
  a parameter and cannot be used; instead `SetInduction` is proved from the
  well-foundedness of the naturals, with a set for the predicate, and `Recursion` from
  it: every loop of N steps has the function that its recursive definition chooses.
  `StrategySides` and `GroupIs` are what the two loops compute;
- `SuitsPath` and `SuitsGroup`: the parameters of a path suit each of its hops, and those
  of a path of a group every other one, by what is in `ParamsKey`;
- `JobFrom`, `PlacesOfAlone`, `PlacesOfShared`: where the transfers of a job come from,
  and the one place a hop has; the division of a group into chunks is `InOneChunk`.

The invariant itself is small: the jobs of a round suit their transfers with the token
in use (`JobsSound`), a cached identity is of its own server (`CacheSound`), nothing is
left between two rounds (`IdleSound`). Its step for `Construct` is the lemmas above.

`TransferTestsProofs` proves `TestsTypeCorrect`, `StoredCorrect`, `FailedCorrect`,
`DownCorrect` and `NotSentCorrect` for any files and any number of retries. `RuleSound`
relates locks, requests, jobs and storage: a file is stored when its job, its request
or its lock says so. `PhaseSound` is what the program of the test has done so far;
`DownSound`: nothing can be written while the source is stopped. `ChecksumSound`: in one
turn of the daemons only the finisher, the last, makes a request with a predecessor, so
the job of that request is still the one that failed. `NotSentCorrect` needs `MaxRetry # 0`
(`UnavailableSound`): without a retry a file that was sent and failed would be STUCK,
which the test takes for success. The testbed has three
(`test-rucio-checksum-mismatch.py:19`).

Model-checked only: the liveness properties (`StartEnds`, `StopEnds`, `RequestEnds`,
`IdleInstanceStopped`, `Settles`, `Ends`, `TagsFollow`, `ProviderAccepted`,
`RotationFollowed`, `SourceRestored`, `StoredPasses`, `EndsByItself`), as proofs of
fairness are out of the prover's reach, and the three violations. Every safety property
that a passing run checks is proved.

## Not modelled, and why

- Headers, bodies, metadata, logging and error texts: no property depends on them.
- Identity mapping of Teapot (file, VO, Alise): a function of the subject; its result
  is the set `Unmapped`.
- The SE configuration, `query`, `whoami`, `version`, `update_priority` (`fts3.py`
  1479-1580, 1633-1815) and `introspect`: single HTTP requests without state.
- Seeding of files, HTTP readiness loops, FTS job pollers of the tests, protocol
  tests: sequences of single requests.
- Scripts and deployment: provisioning with command line tools, and data.

## Plan

1. Done: all the modules above, and proofs of all their safety properties and of both
   refinements.
2. The safety side of liveness as invariants with proofs, as done for the waiters of
   Teapot's condition (`SleepersWokenCorrect`): which daemon still owes a request a step.
3. `StatusReports`: what message and poll may disagree on, as theorems about its
   operators.
4. Teapot and the WebDAV warm-up of the tests (`webdav_warm_up`), composed.
