------------------------------ MODULE Rollback ------------------------------
(***************************************************************************)
(* `svc-deploy rollback <service> [target-version]`: Operation.Run of      *)
(* internal/rollback, one action per side effect.                          *)
(***************************************************************************)
EXTENDS Deploy

\* v is the command's argument, NoVersion when there is none.
RollbackBegin(p, v) ==
  /\ Step(p, "idle", "validate")
  /\ Acquire(p)
  /\ target' = [target EXCEPT ![p] = v]
  /\ UNCHANGED <<smvars, files, running, from, doomed>>

Resolved(p) == IF target[p] = NoVersion THEN previous ELSE target[p]

Deployed(v) ==
  /\ v \in binaries
  /\ UsesDb => db[v] # "absent"

\* GetPrevious when no version was given, then the Exists checks.
RollbackValidate(p) ==
  /\ IF Resolved(p) # NoVersion /\ Deployed(Resolved(p))
       THEN Step(p, "validate", "switch")
       ELSE Step(p, "validate", "failed")
  /\ target' = [target EXCEPT ![p] = Resolved(p)]
  /\ UNCHANGED <<smvars, hostvars, from, doomed>>

RollbackSwitch(p) ==
  /\ Step(p, "switch", "switchingBack")
  /\ from' = [from EXCEPT ![p] = current]
  /\ SetCurrent(p, target[p])
  /\ UNCHANGED <<hostvars, target, doomed>>

RollbackSwitched(p) ==
  /\ Return(p)
  /\ \/ smpc[p] = "ok" /\ Step(p, "switchingBack", "restartTarget")
     \/ smpc[p] = "err" /\ Step(p, "switchingBack", "failed")
  /\ UNCHANGED <<hostvars, target, from, doomed>>

\* Variant: a rollback that fails stays where it is.
RestoreNever(p) == "failed"

\* Where the error paths go: there is nothing to restore without a current.
RestoreOrFail(p) == IF from[p] # NoVersion THEN "restore" ELSE "failed"

RollbackRestart(p) ==
  /\ \/ Step(p, "restartTarget", "healthTarget") /\ RestartOk
     \/ Step(p, "restartTarget", RestoreOrFail(p)) /\ RestartErr
  /\ UNCHANGED <<smvars, lock, files, target, from, doomed>>

\* waitForHealth, then appendHistory (a warning when it fails).
RollbackHealth(p) ==
  /\ \/ Step(p, "healthTarget", "succeeded") /\ Healthy
     \/ Step(p, "healthTarget", RestoreOrFail(p))
  /\ UNCHANGED <<smvars, hostvars, target, from, doomed>>

\* SetCurrent(currentVersion) and a restart, both errors ignored.
RollbackRestore(p) ==
  /\ Step(p, "restore", "restoring")
  /\ SetCurrent(p, from[p])
  /\ UNCHANGED <<hostvars, target, from, doomed>>

\* Variant: the link is put back, and the failed process runs on.
RollbackRestoredOnly(p) ==
  /\ Step(p, "restoring", "failed")
  /\ Return(p)
  /\ UNCHANGED <<hostvars, target, from, doomed>>

RollbackRestored(p) ==
  /\ Step(p, "restoring", "restartOld")
  /\ Return(p)
  /\ UNCHANGED <<hostvars, target, from, doomed>>

\* The restart that follows is DeployRestartOld, the same code.
RollbackStep(p) ==
  \/ RollbackValidate(p) \/ RollbackSwitch(p) \/ RollbackSwitched(p)
  \/ RollbackRestart(p) \/ RollbackHealth(p)
  \/ RollbackRestore(p) \/ RollbackRestored(p)
=============================================================================
