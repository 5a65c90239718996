------------------------------- MODULE Deploy -------------------------------
(***************************************************************************)
(* `svc-deploy deploy <service> <version>`: Operation.Run of               *)
(* internal/deploy, one action per side effect, each with the outcomes     *)
(* that lead to different code.                                            *)
(***************************************************************************)
EXTENDS Host, FiniteSets, Integers

CONSTANTS
  ShipsDb,      \* the versions whose archive has a file data/<DBFilename>
  DeployScope,  \* which releases operators deploy: "fresh", "previous", "current"
  Rank,         \* Rank[v]: the place of v in the order of semver.Compare
  KeepReleases  \* cfg.KeepReleases

ASSUME DeployAssumption ==
  /\ Rank \in [Versions -> Nat]
  /\ KeepReleases \in Nat
  /\ ShipsDb \subseteq Versions
  /\ ~UsesDb => ShipsDb = {}

VARIABLES
  pc,      \* pc[p]: where process p is
  target,  \* target[p]: the version it deploys or rolls back to
  from,    \* from[p]: previousVersion (deploy), currentVersion (rollback)
  doomed   \* doomed[p]: releases that p's pruning loop has yet to remove

opvars == <<pc, target, from, doomed>>

Step(p, here, next) ==
  /\ pc[p] = here
  /\ pc' = [pc EXCEPT ![p] = next]

-----------------------------------------------------------------------------
(* Retention                                                               *)

INSTANCE Retention

\* Variant: a release that could not be removed is tried again.
RemoveUntilGone(p) ==
  \E v \in doomed[p] :
    /\ \A w \in doomed[p] : Rank[v] >= Rank[w]
    /\ RemoveAll(v)
    /\ doomed' = [doomed EXCEPT ![p] = @ \cap dirs']

\* The loop removes newest first and goes on when RemoveAll fails.
RemoveNextDoomed(p) ==
  \E v \in doomed[p] :
    /\ \A w \in doomed[p] : Rank[v] >= Rank[w]
    /\ RemoveAll(v)
    /\ doomed' = [doomed EXCEPT ![p] = @ \ {v}]

-----------------------------------------------------------------------------
(* Up to the cutover                                                       *)

InScope(v) ==
  \/ "fresh" \in DeployScope /\ v \notin {current, previous}
  \/ "previous" \in DeployScope /\ v = previous /\ v # current
  \/ "current" \in DeployScope /\ v = current

DeployBegin(p, v) ==
  /\ Step(p, "idle", "fetch")
  /\ InScope(v)
  /\ Acquire(p)
  /\ target' = [target EXCEPT ![p] = v]
  /\ UNCHANGED <<smvars, files, running, from, doomed>>

\* Fetcher.Fetch, which also verifies the checksum; MkdirAll of the release.
DeployFetch(p) ==
  /\ \/ Step(p, "fetch", "extract") /\ MkdirAll(target[p])
     \/ Step(p, "fetch", "failed") /\ UNCHANGED dirs
  /\ UNCHANGED <<smvars, lock, binaries, torn, db, running, target, from, doomed>>

\* Variant: the error of an extraction that breaks off is not returned.
DeployExtractAnyhow(p) ==
  /\ Step(p, "extract", "checkBinary")
  /\ MkdirAll(target[p])
  /\ binaries' \in {binaries, binaries \cup {target[p]}}
  /\ torn' \in {torn \ {target[p]}, (torn \cup {target[p]}) \cap binaries'}
  /\ IF target[p] \in ShipsDb THEN SetDb(target[p], "fresh") ELSE UNCHANGED db
  /\ UNCHANGED <<smvars, lock, running, target, from, doomed>>

\* ExtractTar truncates and rewrites the files that are there already.  An
\* archive need not have a file at BinaryPath, and may fail before its first
\* entry or after any, which leaves the files it has come to.
DeployExtract(p) ==
  /\ \/ /\ Step(p, "extract", "checkBinary")
        /\ MkdirAll(target[p])
        /\ binaries' \in {binaries, binaries \cup {target[p]}}
        /\ torn' = torn \ {target[p]}
        /\ IF target[p] \in ShipsDb THEN SetDb(target[p], "fresh") ELSE UNCHANGED db
     \/ /\ Step(p, "extract", "cleanup")
        /\ UNCHANGED files
     \/ /\ Step(p, "extract", "cleanup")
        /\ MkdirAll(target[p])
        /\ binaries' \in {binaries, binaries \cup {target[p]}}
        /\ torn' = (torn \cup {target[p]}) \cap binaries'
        /\ \/ UNCHANGED db
           \/ target[p] \in ShipsDb /\ \E s \in {"partial", "fresh"} : SetDb(target[p], s)
  /\ UNCHANGED <<smvars, lock, running, target, from, doomed>>

\* Variant: whatever the archive held is taken for a release.
DeployCheckNothing(p) ==
  /\ Step(p, "checkBinary", IF UsesDb THEN "copyDb" ELSE "preflight")
  /\ UNCHANGED <<smvars, hostvars, target, from, doomed>>

\* Variant: the error path does not take the release away.
DeployCheckBinaryKeep(p) ==
  /\ IF target[p] \in binaries
       THEN Step(p, "checkBinary", IF UsesDb THEN "copyDb" ELSE "preflight")
       ELSE Step(p, "checkBinary", "failed")
  /\ UNCHANGED <<smvars, hostvars, target, from, doomed>>

DeployCheckBinary(p) ==
  /\ IF target[p] \in binaries
       THEN Step(p, "checkBinary", IF UsesDb THEN "copyDb" ELSE "preflight")
       ELSE Step(p, "checkBinary", "cleanup")
  /\ UNCHANGED <<smvars, hostvars, target, from, doomed>>

\* Variant: the arguments of CopyFile are swapped.
DeployCopyDbSwapped(p) ==
  /\ \/ current = NoVersion /\ Step(p, "copyDb", "preflight") /\ UNCHANGED db
     \/ /\ current # NoVersion
        /\ Step(p, "copyDb", "copyingDb")
        /\ SetDb(current, "partial")
  /\ UNCHANGED <<smvars, lock, dirs, binaries, torn, running, target, from, doomed>>

\* copyDatabase up to CopyFile's os.Create, which truncates the destination.
\* Deploying the current release makes source and destination one file.
DeployCopyDb(p) ==
  /\ \/ /\ current = NoVersion
        /\ Step(p, "copyDb", "preflight")
        /\ UNCHANGED files
     \/ /\ current # NoVersion
        /\ MkdirAll(target[p])
        /\ UNCHANGED <<binaries, torn>>
        /\ IF db[current] = "absent"
             THEN Step(p, "copyDb", "preflight") /\ UNCHANGED db
             ELSE Step(p, "copyDb", "copyingDb") /\ SetDb(target[p], "partial")
     \/ /\ current # NoVersion
        /\ Step(p, "copyDb", "cleanup")
        /\ UNCHANGED files
  /\ UNCHANGED <<smvars, lock, running, target, from, doomed>>

\* io.Copy of the database and of its -wal and -shm files, or an error.  A
\* destination removed meanwhile stays removed; a source removed meanwhile
\* is still open, and whatever it held is copied.
DeployCopyDbRest(p) ==
  /\ \/ /\ Step(p, "copyingDb", "preflight")
        /\ IF db[target[p]] = "absent"
             THEN UNCHANGED db
             ELSE \E s \in DbStates \ {"absent"} :
                    db[current] \in {s, "absent"} /\ SetDb(target[p], s)
     \/ Step(p, "copyingDb", "cleanup") /\ UNCHANGED db
  /\ UNCHANGED <<smvars, lock, dirs, binaries, torn, running, target, from, doomed>>

\* createBackup (best effort), setupRuntimeConfig and runPreflights: no
\* effect on what this module keeps, other than to let the deploy go on.
DeployPreflight(p) ==
  /\ Step(p, "preflight", "cutover") \/ Step(p, "preflight", "cleanup")
  /\ UNCHANGED <<smvars, hostvars, target, from, doomed>>

\* The RemoveAll(releasePath) of every error path before the cutover.
DeployCleanup(p) ==
  /\ Step(p, "cleanup", "failed")
  /\ RemoveAll(target[p])
  /\ UNCHANGED <<smvars, lock, running, target, from, doomed>>

-----------------------------------------------------------------------------
(* The cutover and the automatic rollback                                  *)

DeployCutover(p) ==
  /\ Step(p, "cutover", "switching")
  /\ from' = [from EXCEPT ![p] = current]
  /\ SetCurrent(p, target[p])
  /\ UNCHANGED <<hostvars, target, doomed>>

DeploySwitched(p) ==
  /\ Return(p)
  /\ \/ smpc[p] = "ok" /\ Step(p, "switching", "restart")
     \/ smpc[p] = "err" /\ Step(p, "switching", "cleanup")
  /\ UNCHANGED <<hostvars, target, from, doomed>>

DeployRestart(p) ==
  /\ \/ Step(p, "restart", "health") /\ RestartOk
     \/ Step(p, "restart", "rollback") /\ RestartErr
  /\ UNCHANGED <<smvars, lock, files, target, from, doomed>>

\* Variant: the poll has no deadline.
DeployHealthForever(p) ==
  /\ Step(p, "health", "record") /\ Healthy
  /\ UNCHANGED <<smvars, hostvars, target, from, doomed>>

\* waitForHealth: a poll succeeds, or the startup timeout expires.
DeployHealth(p) ==
  /\ \/ Step(p, "health", "record") /\ Healthy
     \/ Step(p, "health", "rollback")
  /\ UNCHANGED <<smvars, hostvars, target, from, doomed>>

\* Variant: the failed release is restarted, `current` stays.
DeployRollbackNothing(p) ==
  /\ Step(p, "rollback", "restartOld")
  /\ UNCHANGED <<smvars, hostvars, target, from, doomed>>

DeployRollback(p) ==
  /\ Step(p, "rollback", "rollingBack")
  /\ RollbackCurrent(p)
  /\ UNCHANGED <<hostvars, target, from, doomed>>

\* The error of RollbackCurrent is ignored.
DeployRolledBack(p) ==
  /\ Step(p, "rollingBack", "restartOld")
  /\ Return(p)
  /\ UNCHANGED <<hostvars, target, from, doomed>>

DeployRestartOld(p) ==
  /\ Step(p, "restartOld", "failed")
  /\ RestartOk \/ RestartErr
  /\ UNCHANGED <<smvars, lock, files, target, from, doomed>>

-----------------------------------------------------------------------------
(* After success: metadata and history (warnings only), then pruning       *)

\* Writing metadata/release.json makes the release's directory if need be.
DeployRecord(p) ==
  /\ Step(p, "record", "list")
  /\ MkdirAll(target[p]) \/ UNCHANGED dirs
  /\ UNCHANGED <<smvars, lock, binaries, torn, db, running, target, from, doomed>>

DeployList(p) ==
  /\ \/ /\ Step(p, "list", "pruning")
        /\ \E victims \in PruneVictims(dirs, {current, previous}, KeepReleases) :
             doomed' = [doomed EXCEPT ![p] = victims]
     \/ Step(p, "list", "succeeded") /\ UNCHANGED doomed
  /\ UNCHANGED <<smvars, hostvars, target, from>>

DeployPrune(p) ==
  /\ pc[p] = "pruning"
  /\ RemoveNextDoomed(p)
  /\ UNCHANGED <<smvars, lock, running, pc, target, from>>

DeployPruned(p) ==
  /\ doomed[p] = {}
  /\ Step(p, "pruning", "succeeded")
  /\ UNCHANGED <<smvars, hostvars, target, from, doomed>>

DeployStep(p) ==
  \/ DeployFetch(p) \/ DeployExtract(p) \/ DeployCheckBinary(p)
  \/ DeployCopyDb(p) \/ DeployCopyDbRest(p) \/ DeployPreflight(p)
  \/ DeployCleanup(p)
  \/ DeployCutover(p) \/ DeploySwitched(p) \/ DeployRestart(p)
  \/ DeployHealth(p) \/ DeployRollback(p) \/ DeployRolledBack(p)
  \/ DeployRestartOld(p)
  \/ DeployRecord(p) \/ DeployList(p) \/ DeployPrune(p) \/ DeployPruned(p)

\* Run returns: the deferred release() of the lock.
Finish(p) ==
  /\ pc[p] \in {"succeeded", "failed"}
  /\ pc' = [pc EXCEPT ![p] = "idle"]
  /\ Unlock(p)
  /\ target' = [target EXCEPT ![p] = NoVersion]
  /\ from' = [from EXCEPT ![p] = NoVersion]
  /\ UNCHANGED <<smvars, files, running, doomed>>
=============================================================================
