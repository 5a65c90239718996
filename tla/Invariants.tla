----------------------------- MODULE Invariants -----------------------------
(***************************************************************************)
(* The inductive invariants behind the properties: what else is true in    *)
(* every state, and makes each step keep them.                             *)
(***************************************************************************)
EXTENDS Properties

\* Where a command waits for a call of the symlink manager.
InCall == {"switching", "switchingBack", "restoring", "rollingBack"}

\* Only a command that waits for it is in a call, and in the call it made.
CallsOfCommands ==
  \A p \in Operators :
    /\ smpc[p] # "idle" => pc[p] \in InCall
    /\ smpc[p] \in InSetCurrent => pc[p] # "rollingBack"
    /\ smpc[p] \in InRollbackCurrent => pc[p] = "rollingBack"

\* Past its validation a command has a version; it restores one only if
\* there was one.
VersionsKnown ==
  \A p \in Operators :
    /\ pc[p] \notin {"idle", "validate", "failed"} => target[p] \in Versions
    /\ pc[p] \in {"restore", "restoring"} => from[p] \in Versions

BaseInv ==
  /\ LinkInv
  /\ HostTypeOK /\ CommandTypeOK /\ PruneTypeOK
  /\ MutualExclusion
  /\ CallsOfCommands
  /\ VersionsKnown

\* Where `current` names the release the command is about.
OnTarget ==
  {"restart", "health", "rollback", "record", "list", "pruning", "succeeded",
   "restartTarget", "healthTarget"}

\* Where the service has been restarted since.
Restarted ==
  {"health", "record", "list", "pruning", "succeeded", "healthTarget"}

\* From its switch to its end (or to its way back), the command finds its
\* release in `current`, and from the restart on nothing older runs.
TargetFollows ==
  \A p \in Operators :
    /\ pc[p] \in {"switching", "switchingBack"} =>
         /\ smver[p] = target[p]
         /\ smpc[p] = "ok" => current = target[p]
    /\ pc[p] \in OnTarget => current = target[p]
    /\ pc[p] \in Restarted => running \in {current, NoVersion}

-----------------------------------------------------------------------------
(* Where the calls on links do not fail.                                   *)

LinksDoNotFail == Faults \cap {"remove", "symlink", "rename"} = {}

\* What a call has done to `current` and `previous` at each of its steps;
\* only a RollbackCurrent that finds no `previous` fails.
LinksFollow ==
  /\ previous # NoVersion => current # NoVersion
  /\ \A p \in Operators :
       /\ smpc[p] \in InSetCurrent \cup {"rbDropTemp", "rbLinkTemp", "rbRename"} =>
            current = smold[p]
       /\ smpc[p] \in {"setDropPrevious", "setLinkPrevious"} => smold[p] # NoVersion
       /\ smpc[p] \in {"setLinkPrevious", "rbLinkPrevious"} => previous = NoVersion
       /\ smpc[p] \in {"setDropTemp", "setLinkTemp", "setRename", "ok"} =>
            previous = smold[p]
       /\ smpc[p] = "setLinkTemp" => newLink = NoVersion
       /\ smpc[p] = "rbLinkTemp" => rollbackLink = NoVersion
       /\ smpc[p] \in {"rbDropPrevious", "rbLinkPrevious", "ok"} =>
            current = smver[p] /\ smver[p] \in Versions
       /\ smpc[p] = "err" => smver[p] = NoVersion

BeforeSwitch ==
  {"idle", "fetch", "extract", "checkBinary", "copyDb", "copyingDb", "preflight",
   "cleanup", "cutover", "validate", "switch"}

\* Where the release that was current before the command is kept at each of
\* its steps: in `current`, in `previous`, in the call that restores it.
FromFollows ==
  \A p \in Operators :
    /\ pc[p] \in BeforeSwitch => from[p] = NoVersion
    /\ pc[p] \in InCall => smpc[p] # "idle"
    /\ pc[p] \in {"switching", "switchingBack"} => smold[p] = from[p]
    /\ pc[p] \in OnTarget \cup {"restore"} => previous = from[p]
    /\ pc[p] = "restore" => current = target[p]
    /\ pc[p] \in {"rollingBack", "restoring"} => smver[p] = from[p]
    /\ pc[p] \in {"restartOld", "failed"} /\ from[p] # NoVersion =>
         current = from[p]

CutoverInv == BaseInv /\ TargetFollows /\ LinksFollow /\ FromFollows

-----------------------------------------------------------------------------
(* Where operators deploy only releases that no link names, and no prune   *)
(* runs beside their commands.                                             *)

OnlyFresh == DeployScope = {"fresh"} /\ Pruners = {}

Unpacked(v) == v = NoVersion \/ v \in binaries

\* A deploy that may still take its release away again.
Unswitched ==
  {"fetch", "extract", "checkBinary", "copyDb", "copyingDb", "preflight",
   "cleanup", "cutover"}

\* A command that has found its release to have a binary.
Checked == {"copyDb", "copyingDb", "preflight", "cutover", "switch"}

\* A rollback that may have to restore.
MayRestore == {"switchingBack", "restartTarget", "healthTarget", "restore"}

\* Whatever a link names or a call is about to link has been unpacked, and
\* what a command may remove no link names or is about to.
ReleasesFollow ==
  /\ Unpacked(current) /\ Unpacked(previous)
  /\ \A p \in Operators :
       /\ smpc[p] \in InSetCurrent \cup InRollbackCurrent =>
            Unpacked(smver[p]) /\ Unpacked(smold[p])
       /\ pc[p] \in Checked => target[p] \in binaries
       /\ pc[p] \in MayRestore => Unpacked(from[p])
       /\ pc[p] \in Unswitched => target[p] \notin {current, previous}
       /\ pc[p] = "switching" /\ smpc[p] # "ok" =>
            target[p] \notin {current, previous, smold[p]}
       /\ doomed[p] \cap {current, previous} = {}
       /\ doomed[p] # {} => pc[p] = "pruning"

ReleasesInv == BaseInv /\ TargetFollows /\ ReleasesFollow

-----------------------------------------------------------------------------
(* Where no command is killed half-way, and systemctl reaches systemd.     *)

CommandsRestart == Faults \cap {"kill", "systemctl"} = {}

-----------------------------------------------------------------------------
(* Where no prune runs beside the commands.                                *)

\* A deploy that counts on what it has extracted.
Extracted == {"copyDb", "copyingDb", "preflight", "cutover", "switching",
              "restart", "health", "rollback", "record"}

\* That is whole until the deploy prunes, which is the last it does.
MadeFollow ==
  \A p \in Operators :
    /\ pc[p] = "checkBinary" => target[p] \notin torn
    /\ pc[p] \in Extracted => target[p] \in binaries \ torn

MadeInv == BaseInv /\ MadeFollow

\* What a call is about to link is linked already or whole.
CallsFollow ==
  \A p \in Operators :
    /\ smpc[p] \in InSetCurrent => smold[p] = current
    /\ smpc[p] \in {"rbDropTemp", "rbLinkTemp", "rbRename"} => smver[p] = previous
    /\ smpc[p] \in InRollbackCurrent => smold[p] \notin HalfMade

LinkedInv == ReleasesInv /\ MadeFollow /\ CallsFollow

-----------------------------------------------------------------------------
(* Where no command is killed half-way, no removal fails, and operators    *)
(* deploy neither the current release nor beside a prune.                  *)

RemovalsComplete ==
  /\ Faults \cap {"kill", "removeall"} = {}
  /\ "current" \notin DeployScope
  /\ Pruners = {}

\* A deploy on its way to the cutover that has not failed.
Making == {"fetch", "extract", "checkBinary", "copyDb", "copyingDb", "preflight",
           "cutover"}

\* Only the release that a deploy is making, or is about to remove, has half
\* a database; and the one it copies from is there, and another one.
WholeFollow ==
  /\ \A v \in Versions :
       db[v] = "partial" =>
         \E p \in Operators : target[p] = v /\ pc[p] \in {"copyingDb", "cleanup"}
  /\ \A p \in Operators :
       /\ pc[p] \in Making => target[p] # current
       /\ pc[p] = "copyingDb" => current # NoVersion /\ db[current] # "absent"

WholeInv == BaseInv /\ WholeFollow
=============================================================================
