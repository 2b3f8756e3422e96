---------------------------- MODULE StatusReports ----------------------------
(***************************************************************************)
(* What the FTS3 transfertool concludes from the state of an FTS job       *)
(* (src/shared/patches/rucio/fts3.py): the answer to a bulk query, as the  *)
(* poller reads it, and a completion message, as the receiver reads it.    *)
(* Pure operators, over the files of a job.                                *)
(*                                                                         *)
(* A file of a job is [row, state, found]: the request it serves, its FTS  *)
(* state, and what its error says of the destination.                      *)
(***************************************************************************)
EXTENDS Integers, Sequences

(* What file_metadata["dst_file"] says when the error is that the          *)
(* destination exists: it differs from the request, it is the right file   *)
(* (on disk only, or on tape too), or nothing, because the job did not ask *)
(* for a report.  "none": the error is another one, or there is no error.  *)
Found == {"none", "unreported", "bad", "buffered", "stored"}

FileState ==
  {"SUBMITTED", "ACTIVE", "ARCHIVING", "FAILED", "FINISHED", "CANCELED", "NOT_USED"}
FINAL_FTS_FILE_STATES == {"FAILED", "CANCELED", "FINISHED", "NOT_USED"}
FINAL_FTS_JOB_STATES == {"FAILED", "CANCELED", "FINISHED", "FINISHEDDIRTY"}

(* The state of a job, from those of its files. *)
JobState(files, multiSources) ==
  LET states == {files[i].state : i \in DOMAIN files}
  IN  IF states \cap {"SUBMITTED", "ACTIVE", "ARCHIVING"} # {} THEN "ACTIVE"
      ELSE IF "CANCELED" \in states THEN "CANCELED"
      ELSE IF states = {"FINISHED"} THEN "FINISHED"
      ELSE IF "FINISHED" \notin states THEN "FAILED"
      ELSE IF multiSources THEN "FINISHED" ELSE "FINISHEDDIRTY"

(* _dst_file_set_and_file_corrupted, _dst_file_set_and_file_correct *)
Corrupted(found) == found = "bad"
Correct(found) == found \in {"buffered", "stored"}

(* _is_recoverable_fts_overwrite_error: the file to write is there already. *)
Recoverable(found, tape) == Correct(found) /\ (~tape \/ found = "stored")
(* Mutant: any file that exists already is taken for the right one. *)
VerdictOfErrorExists(found, tape) == IF found # "none" THEN "DONE" ELSE "FAILED"
VerdictOfError(found, tape) == IF Recoverable(found, tape) THEN "DONE" ELSE "FAILED"

(* Mutant: every failure makes the next attempt overwrite. *)
AsksOverwriteAlways(verdict, found) == verdict = "FAILED"

(* _find_attribute_updates: the next attempt shall overwrite the destination. *)
AsksOverwrite(verdict, found) == verdict = "FAILED" /\ Corrupted(found)

(* Mutant: a file that is written counts, although it is not on tape yet. *)
MessageVerdictEarly(m, tape) ==
  IF m.final = "Ok" THEN "DONE" ELSE VerdictOfError(m.found, tape)

(* FTS3CompletionMessageTransferStatusReport.initialize, up to the request *)
MessageVerdict(m, tape) ==
  CASE m.final = "Ok" /\ ~m.archiving -> "DONE"
    [] m.final = "Error" -> VerdictOfError(m.found, tape)
    [] OTHER -> "none"

(* FTS3ApiTransferStatusReport.initialize, up to the request *)
ApiVerdict(file, jobState, multiSources, tape) ==
  LET jobIsFinal == jobState \in FINAL_FTS_JOB_STATES
  IN  CASE file.state = "FINISHED" -> "DONE"
        [] file.state = "FAILED" /\ (jobIsFinal \/ ~multiSources) ->
             VerdictOfError(file.found, tape)
        [] file.state = "CANCELED" /\ jobIsFinal -> "FAILED"
        [] file.state = "NOT_USED" /\ jobIsFinal ->
             IF jobState = "FINISHED" THEN "DONE" ELSE "FAILED"
        [] OTHER -> "none"

(* __bulk_query_responses: the files of an answered job that are looked    *)
(* at.  Those of a multi-source job are alternatives for one request:      *)
(* nothing until the job is final, no unused source, and none beyond the   *)
(* source that was used.                                                   *)
Reported(files, multiSources) ==
  {i \in DOMAIN files :
     multiSources => /\ JobState(files, TRUE) \in FINAL_FTS_JOB_STATES
                     /\ files[i].state # "NOT_USED"
                     /\ \A k \in 1 .. i - 1 : files[k].state # "FINISHED"}

(* resps[request_id] = ...: the last of them counts for each request. *)
Responses(files, multiSources) ==
  {i \in Reported(files, multiSources) :
     \A k \in Reported(files, multiSources) : files[k].row = files[i].row => k <= i}
=============================================================================
