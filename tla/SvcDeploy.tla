------------------------------ MODULE SvcDeploy ------------------------------
(***************************************************************************)
(* The whole of svc-deploy for one service: operators who run deploy and   *)
(* rollback, pruners, the service under systemd, and commands that are     *)
(* killed half-way.                                                        *)
(***************************************************************************)
EXTENDS Prune

vars == <<smvars, hostvars, opvars, prunevars>>

DeployLabels ==
  {"fetch", "extract", "checkBinary", "copyDb", "copyingDb", "preflight",
   "cleanup", "cutover", "switching", "restart", "health", "rollback",
   "rollingBack", "restartOld", "record", "list", "pruning"}
RollbackLabels ==
  {"validate", "switch", "switchingBack", "restartTarget", "healthTarget",
   "restore", "restoring"}
Labels == {"idle", "succeeded", "failed"} \cup DeployLabels \cup RollbackLabels

CommandTypeOK ==
  /\ pc \in [Operators -> Labels]
  /\ target \in [Operators -> MaybeVersion]
  /\ from \in [Operators -> MaybeVersion]
  /\ doomed \in [Operators -> SUBSET Versions]

PruneTypeOK ==
  /\ prunepc \in [Pruners -> {"idle", "readPrevious", "list", "pruning"}]
  /\ protected \in [Pruners -> SUBSET Versions]
  /\ victims \in [Pruners -> SUBSET Versions]

TypeOK == LinkTypeOK /\ HostTypeOK /\ CommandTypeOK /\ PruneTypeOK

Init ==
  /\ LinkInit
  /\ HostInit
  /\ pc = [p \in Operators |-> "idle"]
  /\ target = [p \in Operators |-> NoVersion]
  /\ from = [p \in Operators |-> NoVersion]
  /\ doomed = [p \in Operators |-> {}]
  /\ prunepc = [q \in Pruners |-> "idle"]
  /\ protected = [q \in Pruners |-> {}]
  /\ victims = [q \in Pruners |-> {}]

\* An operator issues a command.
Command(p) ==
  /\ \/ \E v \in Versions : DeployBegin(p, v)
     \/ \E v \in MaybeVersion : RollbackBegin(p, v)
  /\ UNCHANGED prunevars

\* A command in progress goes on, by itself or inside the symlink manager.
Progress(p) ==
  /\ \/ DeployStep(p)
     \/ RollbackStep(p)
     \/ LinkStep(p) /\ UNCHANGED <<hostvars, opvars>>
     \/ Finish(p)
  /\ UNCHANGED prunevars

\* The process is killed: its lock goes, everything on disk stays.
Kill(p) ==
  /\ "kill" \in Faults
  /\ pc[p] # "idle"
  /\ pc' = [pc EXCEPT ![p] = "idle"]
  /\ target' = [target EXCEPT ![p] = NoVersion]
  /\ from' = [from EXCEPT ![p] = NoVersion]
  /\ doomed' = [doomed EXCEPT ![p] = {}]
  /\ Unlock(p)
  /\ LeaveCall(p)
  /\ UNCHANGED <<files, running, prunevars>>

\* A pruner is killed, or ListDirectory fails and it returns that error.
PruneAbandoned(q) ==
  /\ prunepc[q] # "idle"
  /\ prunepc' = [prunepc EXCEPT ![q] = "idle"]
  /\ protected' = [protected EXCEPT ![q] = {}]
  /\ victims' = [victims EXCEPT ![q] = {}]
  /\ UNCHANGED <<smvars, hostvars, opvars>>

Service ==
  /\ ServiceExits \/ SystemdRestarts \/ ServiceWrites
  /\ UNCHANGED <<smcalls, opvars, prunevars>>

Next ==
  \/ \E p \in Operators : Command(p) \/ Progress(p) \/ Kill(p)
  \/ \E q \in Pruners : PruneNext(q) \/ PruneAbandoned(q)
  \/ Service

Spec == Init /\ [][Next]_vars

\* Every call a command makes returns, or its timeout ends it: the client
\* and the health poll have deadlines, systemd bounds a restart.  Nobody is
\* obliged to issue a command, and no process is obliged to die.
Fairness ==
  /\ \A p \in Operators : WF_vars(Progress(p))
  /\ \A q \in Pruners : WF_vars(PruneNext(q))

FairSpec == Spec /\ Fairness
=============================================================================
