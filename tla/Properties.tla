----------------------------- MODULE Properties -----------------------------
(***************************************************************************)
(* What makes svc-deploy correct, for one service.  Which faults and which *)
(* processes a property survives is the subject of the MC modules and of   *)
(* the theorems: each states its own.                                      *)
(***************************************************************************)
EXTENDS SvcDeploy, Links

-----------------------------------------------------------------------------
(* The lock                                                                *)

\* A deploy or rollback that is past Acquire holds the service's lock until
\* it returns or dies, so that no two of them are ever in progress together.
MutualExclusion == \A p \in Operators : pc[p] # "idle" <=> lock = p

-----------------------------------------------------------------------------
(* The result a command reports                                            *)

\* A command that reports success leaves its release as `current`, and the
\* process that runs (if it has not exited since) was started from it: the
\* health check cannot have been answered by the release it replaced.
SuccessIsServed ==
  \A p \in Operators :
    pc[p] = "succeeded" => current = target[p] /\ running \in {target[p], NoVersion}

\* A command that reports failure after it had found a current release has
\* put that release back, through an automatic rollback if it came so far.
FailureRestores ==
  \A p \in Operators :
    pc[p] = "failed" /\ from[p] # NoVersion => current = from[p]

\* After a successful command a bare `rollback` returns to the release that
\* was current before it.
SuccessIsUndoable ==
  \A p \in Operators :
    pc[p] = "succeeded" /\ from[p] # NoVersion => previous = from[p]

\* When no command is in progress the service is stopped or runs `current`:
\* every switch of the link, forward or back, is followed by a restart.
AtRestRunsCurrent == lock = NoOperator => running \in {current, NoVersion}

\* A command that has moved `current` and has yet to restart the service.
OwesRestart(p) ==
  \/ pc[p] \in {"restart", "rollback", "rollingBack", "restartOld",
                "restartTarget", "restore", "restoring"}
  \/ pc[p] \in {"switching", "switchingBack"} /\ smpc[p] = "ok"

\* Otherwise the process that runs is that of `current`, also after a call
\* that failed.
RunsFollow ==
  (\A p \in Operators : ~OwesRestart(p)) => running \in {current, NoVersion}

\* The last restart of a command does not reach systemd.
GivesUpRestart(p) ==
  /\ "systemctl" \in Faults
  /\ pc[p] \in {"restartOld", "restartTarget"} /\ pc'[p] = "failed"
  /\ UNCHANGED running

\* Once the process that runs is that of `current`, as after every command
\* that succeeds, nothing leaves another one behind but a kill between a
\* switch and its restart, or a systemctl that does not reach systemd: no
\* failing call on the links, no later command that fails or is killed
\* before it has switched, no prune, and not systemd itself.
StaleOnlyByFault ==
  [][RunsFollow /\ ~RunsFollow' =>
       \E p \in Operators : OwesRestart(p) /\ (Kill(p) \/ GivesUpRestart(p))]_vars

-----------------------------------------------------------------------------
(* The releases the links name                                             *)

\* Neither link dangles: what `current` and `previous` name has a file at
\* BinaryPath, so that systemd has something to start, also after any number
\* of deploys that were killed.  That the file is whole is more than this says.
LinkedCanStart == {current, previous} \ {NoVersion} \subseteq binaries

\* Releases of which only a part is there: the archive was not extracted, or
\* an extraction or a removal broke off.  Nothing in the directory tells.
HalfMade == (dirs \ binaries) \cup torn

LinkedWhole == {current, previous} \cap HalfMade = {}

\* A deploy never makes a link name a half-made release, nor makes a linked
\* release a half-made one, whatever fails and wherever it is killed, and
\* also when it finds what a killed deploy of the same version has left.  A
\* rollback does, because it tests only that files exist; so no step but a
\* rollback's own (the switch to its target, or back from it) breaks this.
DeployLinksWhole ==
  [][LinkedWhole /\ ~LinkedWhole' =>
       \E p \in Operators : pc[p] \in {"switchingBack", "restoring"}]_vars

\* A deploy that has yet to replace or to remove what is half made.
Tending == {"extract", "checkBinary", "cleanup"}

AllTended ==
  \A v \in HalfMade : \E p \in Operators : target[p] = v /\ pc[p] \in Tending

\* A RemoveAll of a command, in its cleanup or its pruning loop, fails.
FailsToRemove(p) ==
  /\ "removeall" \in Faults
  /\ \E v \in HalfMade' :
       /\ RemoveAll(v)
       /\ \/ pc[p] = "cleanup" /\ v = target[p]
          \/ pc[p] = "pruning" /\ v \in doomed[p]

\* A half-made release that no deploy will see to comes from two things only:
\* a deploy killed while it is at work on it, and a removal that fails.  A
\* deploy that fails, at whatever place, goes to remove its release again.
HalfMadeOnlyByFault ==
  [][AllTended /\ ~AllTended' =>
       \E p \in Operators :
         (Kill(p) /\ pc[p] \in Tending) \/ FailsToRemove(p)]_vars

\* "The tool never deletes the releases referenced by `current` or
\* `previous`", neither when it prunes nor when it cleans up.
LinkedReleaseStays ==
  [][\A v \in {current, previous} : v \in dirs => v \in dirs']_vars

\* The database of a linked release, once the service has written to it, is
\* neither removed nor truncated nor replaced by a deploy.
LinkedDataStays ==
  [][\A v \in {current, previous} \cap Versions :
       db[v] = "live" => db'[v] = "live"]_vars

\* "Copies the current release database into the new release": between the
\* copy and the cutover the new release has no half of a database, when the
\* current release has one.
CopyIsWhole ==
  \A p \in Operators :
    /\ pc[p] \in {"preflight", "cutover"}
    /\ current # NoVersion
    /\ db[current] # "absent"
    => db[target[p]] # "partial"

-----------------------------------------------------------------------------
(* The cutover                                                             *)

Holder == lock

Undoing(p) ==
  \/ pc[p] = "rollingBack" /\ smpc[p] \in {"rbDropTemp", "rbLinkTemp", "rbRename"}
  \/ pc[p] = "restoring" /\ smpc[p] \in InSetCurrent

HasSwitched(p) == pc[p] \in {"switching", "switchingBack"} /\ smpc[p] = "ok"

PhaseOf(p) ==
  CASE pc[p] \in {"fetch", "extract", "checkBinary", "copyDb", "copyingDb",
                  "preflight", "cleanup", "cutover", "validate", "switch"}
         -> "open"
    [] pc[p] \in {"switching", "switchingBack"} /\ ~HasSwitched(p) -> "open"
    [] pc[p] \in {"restart", "health", "rollback", "restartTarget",
                  "healthTarget", "restore"} \/ HasSwitched(p) \/ Undoing(p)
         -> "switched"
    [] pc[p] \in {"record", "list", "pruning", "succeeded"} -> "committed"
    [] OTHER -> "aborted"

Phase == IF Holder = NoOperator THEN "idle" ELSE PhaseOf(Holder)

Switched == Phase \in {"switched", "committed"}

Base == IF Switched THEN from[Holder] ELSE current
Goal == IF Switched THEN target[Holder] ELSE NoVersion

Promise ==
  INSTANCE Cutover
  WITH active <- current, phase <- Phase, base <- Base, goal <- Goal

\* Where the calls on links do not fail, every command is all or nothing:
\* it commits its release or goes back to the one before, once, and nobody
\* else moves `current` meanwhile.
AllOrNothing == Promise!Spec

-----------------------------------------------------------------------------
(* Progress                                                                *)

\* How many steps of its own are left at each place, at most, and inside a call
\* on the links.
CourseLeft ==
  [idle |-> 0, succeeded |-> 1, failed |-> 1,
   fetch |-> 24, extract |-> 23, checkBinary |-> 22, copyDb |-> 21, copyingDb |-> 20,
   preflight |-> 19, cleanup |-> 2, cutover |-> 18, switching |-> 12, restart |-> 11,
   health |-> 10, rollback |-> 9, rollingBack |-> 3, restartOld |-> 2,
   record |-> 4, list |-> 3, pruning |-> 2,
   validate |-> 19, switch |-> 18, switchingBack |-> 12, restartTarget |-> 11,
   healthTarget |-> 10, restore |-> 9, restoring |-> 3]
CallLeft ==
  [idle |-> 0, ok |-> 0, err |-> 0,
   setDropPrevious |-> 5, setLinkPrevious |-> 4, setDropTemp |-> 3, setLinkTemp |-> 2,
   setRename |-> 1,
   rbDropTemp |-> 5, rbLinkTemp |-> 4, rbRename |-> 3, rbDropPrevious |-> 2,
   rbLinkPrevious |-> 1]
PruneLeft == [idle |-> 0, readPrevious |-> 3, list |-> 2, pruning |-> 1]

\* The releases that there may still be to remove.
RemovalsLeft(place, toRemove) ==
  CASE place \in {"idle", "succeeded", "failed"} -> {}
    [] place = "pruning" -> toRemove
    [] OTHER -> Versions

StepsLeft(p) ==
  CourseLeft[pc[p]] + CallLeft[smpc[p]] + Cardinality(RemovalsLeft(pc[p], doomed[p]))
PruneStepsLeft(q) ==
  PruneLeft[prunepc[q]] + Cardinality(RemovalsLeft(prunepc[q], victims[q]))

\* A command comes to its end in a number of steps that is known when it
\* starts, whatever fails, whoever else removes releases or moves links, and
\* however often the service exits: no step is taken twice, a release that
\* cannot be removed is not tried again, and nobody adds to what is left.
\* And so does a prune.
StepsRunOut ==
  [][/\ \A p \in Operators :
          pc[p] # "idle" =>
            /\ StepsLeft(p)' <= StepsLeft(p)
            /\ Progress(p) => StepsLeft(p)' < StepsLeft(p)
     /\ \A q \in Pruners :
          prunepc[q] # "idle" =>
            /\ PruneStepsLeft(q)' <= PruneStepsLeft(q)
            /\ PruneNext(q) => PruneStepsLeft(q)' < PruneStepsLeft(q)]_vars

\* Every command ends and gives the lock back, however it is interleaved
\* with pruners and a service that comes and goes.
CommandsEnd == \A p \in Operators : pc[p] # "idle" ~> pc[p] = "idle"

\* Every prune ends.
PrunesEnd == \A q \in Pruners : prunepc[q] # "idle" ~> prunepc[q] = "idle"
=============================================================================
