---------------------------- MODULE MCSubmission ----------------------------
(* Two servers; disks with and without tokens, of IPv4 only, without        *)
(* checksums, with strict copy; a tape, and an RSE without FTS.  Paths of   *)
(* one to three hops, one of two sources.                                   *)
EXTENDS Submission
CONSTANTS h1, h2, adler32, md5

Disk == [fts |-> h1, gcs |-> FALSE, oidc |-> TRUE, scheme |-> "davs", tape |-> FALSE,
         overwrite |-> FALSE, overwrite_when_only_on_disk |-> FALSE, spacetoken |-> "none",
         strict_copy |-> FALSE, ipv4 |-> FALSE, s3host |-> FALSE, archive_timeout |-> "unset",
         checks |-> [verify |-> TRUE, supported |-> {adler32, md5}]]
Attributes ==
  [disk |-> Disk,
   old  |-> [Disk EXCEPT !.ipv4 = TRUE, !.checks.supported = {md5}, !.oidc = FALSE,
                         !.strict_copy = TRUE],
   web  |-> [Disk EXCEPT !.scheme = "https", !.checks.supported = {adler32}],
   bare |-> [Disk EXCEPT !.checks.verify = FALSE],
   copy |-> [Disk EXCEPT !.strict_copy = TRUE],
   far  |-> [Disk EXCEPT !.fts = h2],
   tape |-> [Disk EXCEPT !.tape = TRUE, !.archive_timeout = "valid"],
   none |-> [Disk EXCEPT !.fts = NoHost]]

Moves(id, sources, dst, rule, overwrite) ==
  [id |-> id, sources |-> sources, dst |-> dst, rule |-> rule, overwrite |-> overwrite,
   activity |-> IF id % 2 = 0 THEN "even" ELSE "odd", terms |-> 0,
   known |-> {adler32, md5}]
Paths ==
  {<<Moves(1, <<"disk">>, "web", 1, "unset")>>,
   <<Moves(2, <<"disk">>, "tape", 1, "unset")>>,
   <<Moves(3, <<"web">>, "tape", 1, "yes")>>,
   <<Moves(4, <<"tape">>, "disk", 1, "unset")>>,
   <<Moves(5, <<"disk", "web">>, "tape", 1, "unset")>>,
   <<Moves(6, <<"disk">>, "web", 1, "no"), Moves(7, <<"web">>, "disk", 1, "unset"),
     Moves(8, <<"disk">>, "tape", 1, "unset")>>,
   <<Moves(9, <<"disk">>, "old", 2, "unset")>>,
   <<Moves(10, <<"disk">>, "bare", 1, "unset")>>,
   <<Moves(11, <<"disk">>, "old", 2, "unset")>>,
   <<Moves(19, <<"disk">>, "copy", 1, "unset")>>,
   <<Moves(13, <<"disk">>, "old", 2, "unset")>>,
   <<Moves(14, <<"disk">>, "web", 2, "unset"), Moves(15, <<"web">>, "old", 2, "unset")>>,
   <<Moves(16, <<"disk">>, "far", 2, "unset"), Moves(17, <<"disk">>, "none", 2, "unset")>>}

(* Rounds of one path, of two in any order, and one of three paths that    *)
(* share everything and need a second job.                                 *)
Alike == {p \in Paths : p[1].dst = "old"}
Some == {p \in Paths : p[1].id \notin {11, 13}}
Rounds ==
  {<<p>> : p \in Some}
  \cup {paths \in Some \X Some : paths[1] # paths[2]}
  \cup {CHOOSE paths \in Alike \X Alike \X Alike :
          Cardinality({paths[i] : i \in 1 .. 3}) = 3}
TwoPolicies == {"rule", "activity_src_dest"}
=============================================================================
