------------------------------- MODULE Status -------------------------------
(***************************************************************************)
(* `svc-deploy status <service>`: Operation.Run of internal/status, which  *)
(* takes no lock and reads the links one after the other while a deploy or *)
(* a rollback may be moving them.                                          *)
(***************************************************************************)
EXTENDS Links, Integers

VARIABLES
  stpc,        \* where the reader is
  stCurrent,   \* result.CurrentVersion
  stMetadata,  \* the release whose metadata is in the result
  stPrevious,  \* result.PreviousVersion
  calls,       \* history: calls of the manager the reader overlaps; 2: or more
  pairs        \* history: the pairs of links it overlaps, while calls <= 1

result == <<stCurrent, stMetadata, stPrevious>>
stvars == <<stpc, result, calls, pairs>>

StatusTypeOK ==
  /\ LinkTypeOK
  /\ stpc \in {"idle", "metadata", "previous", "unit", "path", "done"}
  /\ stCurrent \in MaybeVersion
  /\ stMetadata \in MaybeVersion
  /\ stPrevious \in MaybeVersion
  /\ calls \in 0..2
  /\ pairs \subseteq MaybeVersion \X MaybeVersion

StatusInit ==
  /\ LinkInit
  /\ stpc = "idle"
  /\ stCurrent = NoVersion /\ stMetadata = NoVersion /\ stPrevious = NoVersion
  /\ calls = 0
  /\ pairs = {}

Read(here, there) == stpc = here /\ stpc' = there

Now == <<current, previous>>

\* It has read `current`, and not yet `previous`.
Reading == stpc \in {"metadata", "previous"}

-----------------------------------------------------------------------------

\* Readlink of `current`.
StatusCurrent ==
  /\ Read("idle", IF current = NoVersion THEN "previous" ELSE "metadata")
  /\ stCurrent' = current
  /\ calls' = IF Quiet THEN 0 ELSE 1
  /\ pairs' = {Now}
  /\ UNCHANGED <<smvars, stMetadata, stPrevious>>

\* Variant: the path goes through the link, which is resolved again.
StatusMetadataOfLink ==
  /\ Read("metadata", "previous")
  /\ stMetadata' \in {current, NoVersion}
  /\ UNCHANGED <<smvars, stCurrent, stPrevious, calls, pairs>>

\* The file release.json below the target that was read.  It may not be
\* there yet, be half written, or have been removed with its release.
StatusMetadata ==
  /\ Read("metadata", "previous")
  /\ stMetadata' \in {stCurrent, NoVersion}
  /\ UNCHANGED <<smvars, stCurrent, stPrevious, calls, pairs>>

\* Variant: the error of Readlink is not looked at, and Base gives ".".
StatusPreviousBase ==
  /\ Read("previous", "unit")
  /\ stPrevious' = IF previous = NoVersion THEN "." ELSE previous
  /\ UNCHANGED <<smvars, stCurrent, stMetadata, calls, pairs>>

\* Readlink of `previous`.
StatusPrevious ==
  /\ Read("previous", "unit")
  /\ stPrevious' = previous
  /\ UNCHANGED <<smvars, stCurrent, stMetadata, calls, pairs>>

\* systemctl show, its error ignored.
StatusUnit ==
  /\ Read("unit", "path")
  /\ UNCHANGED <<smvars, result, calls, pairs>>

\* The error of a service that was never deployed, or the result.
StatusPath ==
  /\ \/ Read("path", "done") /\ UNCHANGED <<result, calls, pairs>>
     \/ /\ Now = <<NoVersion, NoVersion>>
        /\ Read("path", "idle")
        /\ stCurrent' = NoVersion /\ stMetadata' = NoVersion /\ stPrevious' = NoVersion
        /\ calls' = 0
        /\ pairs' = {}
  /\ UNCHANGED smvars

\* It is printed, and the process ends.
StatusPrinted ==
  /\ Read("done", "idle")
  /\ stCurrent' = NoVersion /\ stMetadata' = NoVersion /\ stPrevious' = NoVersion
  /\ calls' = 0
  /\ pairs' = {}
  /\ UNCHANGED smvars

StatusStep ==
  \/ StatusCurrent \/ StatusMetadata \/ StatusPrevious
  \/ StatusUnit \/ StatusPath \/ StatusPrinted

\* The other commands, with what the reader's histories note of them until
\* it has read both links.
Witness ==
  /\ calls' = IF Reading /\ Quiet /\ ~Quiet' THEN IF calls = 0 THEN 1 ELSE 2
              ELSE calls
  /\ pairs' = IF calls' = 2 THEN {}
              ELSE IF Reading THEN pairs \cup {Now'} ELSE pairs
  /\ UNCHANGED <<stpc, result>>

StatusNext == StatusStep \/ (LinkNext /\ Witness)

StatusSpec == StatusInit /\ [][StatusNext]_<<smvars, stvars>>

-----------------------------------------------------------------------------

\* What `status` prints while at most one SetCurrent or RollbackCurrent runs
\* beside it: a previous release that a rollback would not have gone back
\* to, from the current one it prints, at any moment meanwhile, is never
\* shown beside it (none, or the current one twice, may be); and
\* the metadata is that of the release it prints as current.  The manager
\* writes `previous` before `current` and the reader reads them the other
\* way round.
StatusIsCoherent ==
  stpc = "done" =>
    /\ stMetadata \in {stCurrent, NoVersion}
    /\ calls <= 1 =>
         \/ <<stCurrent, stPrevious>> \in pairs
         \/ stPrevious \in {stCurrent, NoVersion}
=============================================================================
