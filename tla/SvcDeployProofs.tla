-------------------------- MODULE SvcDeployProofs --------------------------
(***************************************************************************)
(* Proofs about the whole of svc-deploy, for any operators, pruners,       *)
(* versions, faults and settings.                                          *)
(***************************************************************************)
EXTENDS Invariants, LinkProofs, FiniteSetTheorems

-----------------------------------------------------------------------------
(* Lemmas about the operators the steps are built from                     *)

LEMMA RemoveAllType ==
  ASSUME HostTypeOK, NEW v \in Versions, RemoveAll(v)
  PROVE  /\ dirs' \subseteq Versions
         /\ binaries' \subseteq dirs'
         /\ torn' \subseteq binaries'
         /\ db' \in [Versions -> DbStates]
         /\ \A w \in Versions : db'[w] # "absent" => w \in dirs'
  BY DEF HostTypeOK, RemoveAll, SetDb, DbStates

\* What a pruning loop is given to remove are versions.
LEMMA PruneVictimsType ==
  ASSUME NEW S \in SUBSET Versions, NEW P, NEW n,
         NEW V \in PruneVictims(S, P, n)
  PROVE  V \in SUBSET Versions
  BY DEF PruneVictims, Newest

LEMMA PruneRemovalsType ==
  ASSUME NEW S \in SUBSET Versions, NEW P, NEW n, NEW V \in PruneRemovals(S, P, n)
  PROVE  V \in SUBSET Versions
  BY DEF PruneRemovals, Newest

LEMMA InitBase == Init => BaseInv
<1> SUFFICES ASSUME Init PROVE BaseInv
  OBVIOUS
<1>1. LinkInv
  BY LinkInitInv DEF Init
<1>2. HostTypeOK /\ CommandTypeOK /\ PruneTypeOK
  BY DEF Init, HostInit, HostTypeOK, CommandTypeOK, PruneTypeOK, DbStates,
         MaybeVersion, Labels
<1>3. MutualExclusion /\ CallsOfCommands /\ VersionsKnown
  BY HostAssumption
  DEF Init, HostInit, LinkInit, MutualExclusion, CallsOfCommands,
      VersionsKnown, InSetCurrent, InRollbackCurrent
<1> QED
  BY <1>1, <1>2, <1>3 DEF BaseInv

-----------------------------------------------------------------------------
(* The client of the symlink manager                                       *)

\* The commands are a client as LinkSpec has it: a call starts only when no
\* other is in progress, and what is not a step of a call leaves the links
\* alone.
LEMMA NextCalls == BaseInv /\ [Next]_vars => [LinkNext]_smvars
<1> SUFFICES ASSUME BaseInv, [Next]_vars
             PROVE  [LinkNext]_smvars
  OBVIOUS
<1> USE DEF BaseInv
<1>1. ASSUME NEW p \in Operators, pc[p] # "idle", smpc[p] = "idle"
      PROVE  Quiet
  BY <1>1 DEF MutualExclusion, CallsOfCommands, InCall, Quiet
<1>2. ASSUME NEW p \in Operators, Command(p)
      PROVE  UNCHANGED smvars
  BY <1>2 DEF Command, DeployBegin, RollbackBegin
<1>3. ASSUME NEW p \in Operators, DeployStep(p)
      PROVE  LinkNext \/ UNCHANGED smvars
  <2>1. CASE DeployCutover(p)
    BY <1>1, <2>1
    DEF DeployCutover, SetCurrent, Step, VersionsKnown, LinkNext, LinkCall
  <2>2. CASE DeployRollback(p)
    BY <1>1, <2>2 DEF DeployRollback, RollbackCurrent, Step, LinkNext, LinkCall
  <2>3. CASE DeploySwitched(p) \/ DeployRolledBack(p)
    BY <2>3 DEF DeploySwitched, DeployRolledBack, LinkNext
  <2>4. CASE DeployFetch(p) \/ DeployExtract(p) \/ DeployCheckBinary(p)
             \/ DeployCopyDb(p) \/ DeployCopyDbRest(p) \/ DeployPreflight(p)
             \/ DeployCleanup(p)
    BY <2>4
    DEF DeployFetch, DeployExtract, DeployCheckBinary, DeployCopyDb,
        DeployCopyDbRest, DeployPreflight, DeployCleanup
  <2>5. CASE DeployRestart(p) \/ DeployHealth(p) \/ DeployRestartOld(p)
             \/ DeployRecord(p) \/ DeployList(p) \/ DeployPrune(p)
             \/ DeployPruned(p)
    BY <2>5
    DEF DeployRestart, DeployHealth, DeployRestartOld, DeployRecord,
        DeployList, DeployPrune, DeployPruned
  <2> QED
    BY <1>3, <2>1, <2>2, <2>3, <2>4, <2>5 DEF DeployStep
<1>4. ASSUME NEW p \in Operators, RollbackStep(p)
      PROVE  LinkNext \/ UNCHANGED smvars
  <2>1. CASE RollbackSwitch(p) \/ RollbackRestore(p)
    BY <1>1, <2>1
    DEF RollbackSwitch, RollbackRestore, SetCurrent, Step, VersionsKnown,
        LinkNext, LinkCall
  <2>2. CASE RollbackSwitched(p) \/ RollbackRestored(p)
    BY <2>2 DEF RollbackSwitched, RollbackRestored, LinkNext
  <2>3. CASE RollbackValidate(p) \/ RollbackRestart(p) \/ RollbackHealth(p)
    BY <2>3 DEF RollbackValidate, RollbackRestart, RollbackHealth
  <2> QED
    BY <1>4, <2>1, <2>2, <2>3 DEF RollbackStep
<1>5. ASSUME NEW p \in Operators, Progress(p)
      PROVE  LinkNext \/ UNCHANGED smvars
  BY <1>3, <1>4, <1>5 DEF Progress, Finish, LinkNext
<1>6. ASSUME NEW p \in Operators, Kill(p)
      PROVE  LinkNext \/ UNCHANGED smvars
  <2>1. CASE smpc[p] = "idle"
    BY <1>6, <2>1
    DEF Kill, LeaveCall, LinkInv, LinkTypeOK, IdleHasNoLocals, smvars, smcalls
  <2>2. CASE smpc[p] # "idle"
    BY <1>6, <2>2 DEF Kill, Die, LinkNext
  <2> QED
    BY <2>1, <2>2
<1>7. ASSUME NEW q \in Pruners, PruneNext(q) \/ PruneAbandoned(q)
      PROVE  UNCHANGED smvars
  BY <1>7
  DEF PruneNext, PruneReadCurrent, PruneReadPrevious, PruneList, PruneRemove,
      PruneEnd, PruneAbandoned
<1>8. CASE Service
  BY <1>8 DEF Service, ServiceExits, SystemdRestarts, ServiceWrites, smvars
<1> QED
  BY <1>2, <1>5, <1>6, <1>7, <1>8 DEF Next, vars

\* So the links stay as LinkInv has them.
LEMMA NextLinkInv ==
  ASSUME BaseInv, [Next]_vars
  PROVE  LinkInv'
  BY NextCalls, LinkNextInv DEF BaseInv

-----------------------------------------------------------------------------
(* The types                                                               *)

\* A step of a deploy keeps the types of what it changes.
LEMMA DeployStepTypes ==
  ASSUME BaseInv, NEW p \in Operators, DeployStep(p)
  PROVE  HostTypeOK' /\ CommandTypeOK'
<1> USE DeployAssumption
<1> USE DEF BaseInv, LinkInv, LinkTypeOK, HostTypeOK, CommandTypeOK, Step, Labels,
            DeployLabels, RollbackLabels, MaybeVersion, DbStates, hostvars,
            files, MkdirAll, SetDb, VersionsKnown, smvars, links
<1>1. CASE DeployFetch(p)
  BY <1>1 DEF DeployFetch
<1>2. CASE DeployExtract(p)
  BY <1>2 DEF DeployExtract
<1>3. CASE DeployCheckBinary(p)
  BY <1>3 DEF DeployCheckBinary
<1>4. CASE DeployCopyDb(p)
  BY <1>4 DEF DeployCopyDb
<1>5. CASE DeployCopyDbRest(p)
  BY <1>5 DEF DeployCopyDbRest
<1>6. CASE DeployPreflight(p)
  BY <1>6 DEF DeployPreflight
<1>7. CASE DeployCleanup(p)
  BY <1>7, RemoveAllType DEF DeployCleanup
<1>8. CASE DeployCutover(p)
  BY <1>8 DEF DeployCutover, SetCurrent
<1>9. CASE DeploySwitched(p)
  BY <1>9 DEF DeploySwitched, Return, LeaveCall
<1>10. CASE DeployRestart(p)
  BY <1>10 DEF DeployRestart, RestartOk, RestartErr, Start, Stopped
<1>11. CASE DeployHealth(p)
  BY <1>11 DEF DeployHealth
<1>12. CASE DeployRollback(p)
  BY <1>12 DEF DeployRollback, RollbackCurrent
<1>13. CASE DeployRolledBack(p)
  BY <1>13 DEF DeployRolledBack, Return, LeaveCall
<1>14. CASE DeployRestartOld(p)
  BY <1>14 DEF DeployRestartOld, RestartOk, RestartErr, Start, Stopped
<1>15. CASE DeployRecord(p)
  BY <1>15 DEF DeployRecord
<1>16. CASE DeployList(p)
  BY <1>16, PruneVictimsType DEF DeployList
<1>17. CASE DeployPrune(p)
  <2>1. PICK v \in doomed[p] : /\ RemoveAll(v)
                               /\ doomed' = [doomed EXCEPT ![p] = @ \ {v}]
    BY <1>17 DEF DeployPrune, RemoveNextDoomed
  <2> QED
    BY <1>17, <2>1, RemoveAllType DEF DeployPrune
<1>18. CASE DeployPruned(p)
  BY <1>18 DEF DeployPruned
<1> QED
  BY <1>1, <1>2, <1>3, <1>4, <1>5, <1>6, <1>7, <1>8, <1>9, <1>10, <1>11,
     <1>12, <1>13, <1>14, <1>15, <1>16, <1>17, <1>18
  DEF DeployStep

\* So does a step of a rollback.
LEMMA RollbackStepTypes ==
  ASSUME BaseInv, NEW p \in Operators, RollbackStep(p)
  PROVE  HostTypeOK' /\ CommandTypeOK'
<1> USE DEF BaseInv, LinkInv, LinkTypeOK, HostTypeOK, CommandTypeOK, Step, Labels,
            DeployLabels, RollbackLabels, MaybeVersion, DbStates, hostvars, files
<1>1. CASE RollbackValidate(p)
  BY <1>1 DEF RollbackValidate, Resolved
<1>2. CASE RollbackSwitch(p)
  BY <1>2 DEF RollbackSwitch
<1>3. CASE RollbackSwitched(p)
  BY <1>3 DEF RollbackSwitched
<1>4. CASE RollbackRestart(p)
  BY <1>4 DEF RollbackRestart, RestoreOrFail, RestartOk, RestartErr, Start, Stopped
<1>5. CASE RollbackHealth(p)
  BY <1>5 DEF RollbackHealth, RestoreOrFail
<1>6. CASE RollbackRestore(p)
  BY <1>6 DEF RollbackRestore
<1>7. CASE RollbackRestored(p)
  BY <1>7 DEF RollbackRestored
<1> QED
  BY <1>1, <1>2, <1>3, <1>4, <1>5, <1>6, <1>7 DEF RollbackStep

\* Every step keeps the types of the host, the commands and the pruners.
LEMMA NextTypes ==
  ASSUME BaseInv, [Next]_vars
  PROVE  HostTypeOK' /\ CommandTypeOK' /\ PruneTypeOK'
<1> USE DEF BaseInv, LinkInv, LinkTypeOK, HostTypeOK, CommandTypeOK, PruneTypeOK,
            Labels, MaybeVersion, DbStates, hostvars, files, opvars, prunevars
<1>1. CASE UNCHANGED vars
  BY <1>1 DEF vars
<1>2. ASSUME NEW p \in Operators, Command(p)
      PROVE  HostTypeOK' /\ CommandTypeOK' /\ PruneTypeOK'
  BY <1>2
  DEF Command, DeployBegin, RollbackBegin, Acquire, Step, DeployLabels,
      RollbackLabels
<1>3. ASSUME NEW p \in Operators, Progress(p)
      PROVE  HostTypeOK' /\ CommandTypeOK' /\ PruneTypeOK'
  <2>1. CASE Finish(p)
    BY <1>3, <2>1 DEF Progress, Finish, Unlock
  <2>2. CASE LinkStep(p) /\ UNCHANGED <<hostvars, opvars>>
    BY <1>3, <2>2 DEF Progress
  <2>3. CASE DeployStep(p) \/ RollbackStep(p)
    BY <1>3, <2>3, DeployStepTypes, RollbackStepTypes DEF Progress
  <2> QED
    BY <1>3, <2>1, <2>2, <2>3 DEF Progress
<1>4. ASSUME NEW p \in Operators, Kill(p)
      PROVE  HostTypeOK' /\ CommandTypeOK' /\ PruneTypeOK'
  BY <1>4 DEF Kill, Unlock, LeaveCall
<1>5. ASSUME NEW q \in Pruners, PruneNext(q)
      PROVE  HostTypeOK' /\ CommandTypeOK' /\ PruneTypeOK'
  <2>1. CASE PruneReadCurrent(q)
    BY <2>1 DEF PruneReadCurrent, PruneStep, Protect
  <2>2. CASE PruneReadPrevious(q)
    BY <2>2 DEF PruneReadPrevious, PruneStep, Protect
  <2>3. CASE PruneList(q)
    BY <2>3, PruneRemovalsType DEF PruneList, PruneStep
  <2>4. CASE PruneRemove(q)
    <3>1. PICK v \in victims[q] : /\ RemoveAll(v)
                                  /\ victims' = [victims EXCEPT ![q] = @ \ {v}]
      BY <2>4 DEF PruneRemove
    <3> QED
      BY <2>4, <3>1, RemoveAllType DEF PruneRemove
  <2>5. CASE PruneEnd(q)
    BY <2>5 DEF PruneEnd, PruneStep
  <2> QED
    BY <1>5, <2>1, <2>2, <2>3, <2>4, <2>5 DEF PruneNext
<1>6. ASSUME NEW q \in Pruners, PruneAbandoned(q)
      PROVE  HostTypeOK' /\ CommandTypeOK' /\ PruneTypeOK'
  BY <1>6 DEF PruneAbandoned
<1>7. CASE Service
  BY <1>7
  DEF Service, ServiceExits, SystemdRestarts, ServiceWrites, Start, Stopped,
      SetDb, links
<1> QED
  BY <1>1, <1>2, <1>3, <1>4, <1>5, <1>6, <1>7 DEF Next

-----------------------------------------------------------------------------
(* The control of the commands                                             *)

ControlInv == MutualExclusion /\ CallsOfCommands /\ VersionsKnown

\* A step of a deploy goes on with the lock held, and is in the call it makes.
LEMMA DeployStepControl ==
  ASSUME BaseInv, NEW p \in Operators, DeployStep(p)
  PROVE  ControlInv'
<1> USE HostAssumption, NoVersionAssumption
<1> USE DEF BaseInv, ControlInv, LinkInv, LinkTypeOK, HostTypeOK, CommandTypeOK,
            Step, MutualExclusion, CallsOfCommands, VersionsKnown, InCall,
            hostvars, smvars, smcalls, InSetCurrent, InRollbackCurrent, Returned
<1>1. CASE DeployFetch(p)
  BY <1>1 DEF DeployFetch
<1>2. CASE DeployExtract(p)
  BY <1>2 DEF DeployExtract
<1>3. CASE DeployCheckBinary(p)
  BY <1>3 DEF DeployCheckBinary
<1>4. CASE DeployCopyDb(p)
  BY <1>4 DEF DeployCopyDb
<1>5. CASE DeployCopyDbRest(p)
  BY <1>5 DEF DeployCopyDbRest
<1>6. CASE DeployPreflight(p)
  BY <1>6 DEF DeployPreflight
<1>7. CASE DeployCleanup(p)
  BY <1>7 DEF DeployCleanup
<1>8. CASE DeployCutover(p)
  BY <1>8 DEF DeployCutover, SetCurrent, Goto
<1>9. CASE DeploySwitched(p)
  BY <1>9 DEF DeploySwitched, Return, LeaveCall
<1>10. CASE DeployRestart(p)
  BY <1>10 DEF DeployRestart
<1>11. CASE DeployHealth(p)
  BY <1>11 DEF DeployHealth
<1>12. CASE DeployRollback(p)
  BY <1>12 DEF DeployRollback, RollbackCurrent, Goto
<1>13. CASE DeployRolledBack(p)
  BY <1>13 DEF DeployRolledBack, Return, LeaveCall
<1>14. CASE DeployRestartOld(p)
  BY <1>14 DEF DeployRestartOld
<1>15. CASE DeployRecord(p)
  BY <1>15 DEF DeployRecord
<1>16. CASE DeployList(p)
  BY <1>16 DEF DeployList
<1>17. CASE DeployPrune(p)
  BY <1>17 DEF DeployPrune
<1>18. CASE DeployPruned(p)
  BY <1>18 DEF DeployPruned
<1> QED
  BY <1>1, <1>2, <1>3, <1>4, <1>5, <1>6, <1>7, <1>8, <1>9, <1>10, <1>11,
     <1>12, <1>13, <1>14, <1>15, <1>16, <1>17, <1>18
  DEF DeployStep

\* So does a step of a rollback.
LEMMA RollbackStepControl ==
  ASSUME BaseInv, NEW p \in Operators, RollbackStep(p)
  PROVE  ControlInv'
<1> USE HostAssumption, NoVersionAssumption
<1> USE DEF BaseInv, ControlInv, LinkInv, LinkTypeOK, HostTypeOK, CommandTypeOK,
            Step, MutualExclusion, CallsOfCommands, VersionsKnown, InCall,
            hostvars, smvars, smcalls, InSetCurrent, InRollbackCurrent, Returned,
            MaybeVersion
<1>1. CASE RollbackValidate(p)
  BY <1>1 DEF RollbackValidate, Resolved
<1>2. CASE RollbackSwitch(p)
  BY <1>2 DEF RollbackSwitch, SetCurrent, Goto
<1>3. CASE RollbackSwitched(p)
  BY <1>3 DEF RollbackSwitched, Return, LeaveCall
<1>4. CASE RollbackRestart(p)
  BY <1>4 DEF RollbackRestart, RestoreOrFail
<1>5. CASE RollbackHealth(p)
  BY <1>5 DEF RollbackHealth, RestoreOrFail
<1>6. CASE RollbackRestore(p)
  BY <1>6 DEF RollbackRestore, SetCurrent, Goto
<1>7. CASE RollbackRestored(p)
  BY <1>7 DEF RollbackRestored, Return, LeaveCall
<1> QED
  BY <1>1, <1>2, <1>3, <1>4, <1>5, <1>6, <1>7 DEF RollbackStep

\* A file-system call inside SetCurrent or RollbackCurrent stays inside it,
\* or returns.
LEMMA LinkStepStaysInCall ==
  ASSUME LinkTypeOK, NEW p \in Operators, LinkStep(p)
  PROVE  /\ smpc[p] # "idle"
         /\ smpc'[p] # "idle"
         /\ smpc'[p] \in InSetCurrent => smpc[p] \in InSetCurrent
         /\ smpc'[p] \in InRollbackCurrent => smpc[p] \in InRollbackCurrent
         /\ \A q \in Operators : q # p => smpc'[q] = smpc[q]
         /\ smver' = smver /\ smold' = smold
  BY DEF LinkTypeOK, LinkStep, Goto, SetDropPrevious, SetLinkPrevious,
         SetDropTemp, SetLinkTemp, SetRename, RbDropTemp, RbLinkTemp, RbRename,
         RbDropPrevious, RbLinkPrevious, InSetCurrent, InRollbackCurrent

\* Every step keeps the lock with the command in progress.
LEMMA NextControl ==
  ASSUME BaseInv, [Next]_vars
  PROVE  ControlInv'
<1> USE HostAssumption, NoVersionAssumption
<1> USE DEF BaseInv, ControlInv, LinkInv, LinkTypeOK, HostTypeOK, CommandTypeOK,
            MutualExclusion, CallsOfCommands, VersionsKnown, InCall, hostvars,
            smvars, smcalls, opvars
<1>1. CASE UNCHANGED vars
  BY <1>1 DEF vars
<1>2. ASSUME NEW p \in Operators, Command(p)
      PROVE  ControlInv'
  BY <1>2 DEF Command, DeployBegin, RollbackBegin, Acquire, Step
<1>3. ASSUME NEW p \in Operators, Progress(p)
      PROVE  ControlInv'
  <2>1. CASE Finish(p)
    BY <2>1 DEF Finish, Unlock
  <2>2. CASE LinkStep(p) /\ UNCHANGED <<hostvars, opvars>>
    BY <2>2, LinkStepStaysInCall
  <2>3. CASE DeployStep(p) \/ RollbackStep(p)
    BY <2>3, DeployStepControl, RollbackStepControl
  <2> QED
    BY <1>3, <2>1, <2>2, <2>3 DEF Progress
<1>4. ASSUME NEW p \in Operators, Kill(p)
      PROVE  ControlInv'
  BY <1>4 DEF Kill, Unlock, LeaveCall, InSetCurrent, InRollbackCurrent
<1>5. ASSUME NEW q \in Pruners, PruneNext(q) \/ PruneAbandoned(q)
      PROVE  UNCHANGED <<smvars, lock, opvars>>
  BY <1>5
  DEF PruneNext, PruneReadCurrent, PruneReadPrevious, PruneList, PruneRemove,
      PruneEnd, PruneAbandoned
<1>6. CASE Service
  BY <1>6 DEF Service, ServiceExits, SystemdRestarts, ServiceWrites
<1> QED
  BY <1>1, <1>2, <1>3, <1>4, <1>5, <1>6 DEF Next

LEMMA NextBase == BaseInv /\ [Next]_vars => BaseInv'
  BY NextLinkInv, NextTypes, NextControl DEF ControlInv, BaseInv

\* Whatever LinkSpec promises, it promises the commands: in particular their
\* `current` is switched atomically.
THEOREM CommandsAreClients == Spec => LinkSpec
<1>1. Init => LinkInit
  BY DEF Init
<1> QED
  BY InitBase, NextBase, NextCalls, <1>1, PTL DEF Spec, LinkSpec

\* Systemd, and whoever else follows `current`, finds the old release or the
\* new one there, whatever the commands do and wherever they fail or die.
THEOREM SystemSwitchesAtomically == Spec => AtomicSwitch
  BY CommandsAreClients, AtomicSwitchHolds

\* The types of the links, the host, the commands and the pruners.
THEOREM TypesHold == Spec => []TypeOK
<1>1. BaseInv => TypeOK
  BY DEF BaseInv, LinkInv, TypeOK
<1> QED
  BY InitBase, NextBase, <1>1, PTL DEF Spec

\* The flock excludes: whoever is past Acquire holds the lock until it
\* returns or dies, whatever else fails and however many operators there are.
THEOREM MutualExclusionHolds == Spec => []MutualExclusion
<1>1. BaseInv => MutualExclusion
  BY DEF BaseInv
<1> QED
  BY InitBase, NextBase, <1>1, PTL DEF Spec

-----------------------------------------------------------------------------
(* What success means                                                      *)

\* Every step keeps TargetFollows: the lock keeps the other commands from
\* `current`, and the service itself is only ever started from `current`.
LEMMA NextTargetFollows ==
  ASSUME BaseInv, TargetFollows, [Next]_vars
  PROVE  TargetFollows'
<1> USE HostAssumption, NoVersionAssumption
<1> USE DEF BaseInv, LinkInv, LinkTypeOK, HostTypeOK, CommandTypeOK, Step,
            MutualExclusion, CallsOfCommands, TempLinkIsMine, InCall,
            TargetFollows, OnTarget, Restarted, hostvars, smvars, smcalls, links,
            opvars
<1>1. CASE UNCHANGED vars
  BY <1>1 DEF vars
<1>2. ASSUME NEW p \in Operators, Command(p)
      PROVE  TargetFollows'
  BY <1>2 DEF Command, DeployBegin, RollbackBegin, Acquire
<1>3. ASSUME NEW p \in Operators, DeployStep(p)
      PROVE  TargetFollows'
  <2>1. CASE DeployFetch(p) \/ DeployExtract(p) \/ DeployCheckBinary(p)
             \/ DeployCopyDb(p) \/ DeployCopyDbRest(p) \/ DeployPreflight(p)
             \/ DeployCleanup(p)
    BY <2>1
    DEF DeployFetch, DeployExtract, DeployCheckBinary, DeployCopyDb,
        DeployCopyDbRest, DeployPreflight, DeployCleanup
  <2>2. CASE DeployCutover(p)
    BY <2>2 DEF DeployCutover, SetCurrent, Goto
  <2>3. CASE DeploySwitched(p)
    BY <2>3 DEF DeploySwitched, Return, LeaveCall
  <2>4. CASE DeployRestart(p)
    BY <2>4 DEF DeployRestart, RestartOk, Start, Stopped
  <2>5. CASE DeployHealth(p) \/ DeployRecord(p) \/ DeployList(p) \/ DeployPrune(p)
             \/ DeployPruned(p)
    BY <2>5 DEF DeployHealth, DeployRecord, DeployList, DeployPrune, DeployPruned
  <2>6. CASE DeployRollback(p)
    BY <2>6 DEF DeployRollback, RollbackCurrent, Goto
  <2>7. CASE DeployRolledBack(p) \/ DeployRestartOld(p)
    BY <2>7 DEF DeployRolledBack, DeployRestartOld, Return, LeaveCall
  <2> QED
    BY <1>3, <2>1, <2>2, <2>3, <2>4, <2>5, <2>6, <2>7 DEF DeployStep
<1>4. ASSUME NEW p \in Operators, RollbackStep(p)
      PROVE  TargetFollows'
  <2>1. CASE RollbackValidate(p)
    BY <2>1 DEF RollbackValidate
  <2>2. CASE RollbackSwitch(p)
    BY <2>2 DEF RollbackSwitch, SetCurrent, Goto, InSetCurrent
  <2>3. CASE RollbackSwitched(p)
    BY <2>3 DEF RollbackSwitched, Return, LeaveCall
  <2>4. CASE RollbackRestart(p)
    BY <2>4 DEF RollbackRestart, RestoreOrFail, RestartOk, Start, Stopped
  <2>5. CASE RollbackHealth(p)
    BY <2>5 DEF RollbackHealth, RestoreOrFail
  <2>6. CASE RollbackRestore(p) \/ RollbackRestored(p)
    BY <2>6 DEF RollbackRestore, RollbackRestored, SetCurrent, Goto, Return, LeaveCall
  <2> QED
    BY <1>4, <2>1, <2>2, <2>3, <2>4, <2>5, <2>6 DEF RollbackStep
<1>5. ASSUME NEW p \in Operators, LinkStep(p), UNCHANGED <<hostvars, opvars>>
      PROVE  TargetFollows'
  <2>1. CASE SetRename(p)
    BY <1>5, <2>1 DEF SetRename, Goto, InSetCurrent
  <2>2. CASE SetDropPrevious(p) \/ SetLinkPrevious(p) \/ SetDropTemp(p)
             \/ SetLinkTemp(p)
    BY <1>5, <2>2
    DEF SetDropPrevious, SetLinkPrevious, SetDropTemp, SetLinkTemp, Goto,
        InSetCurrent
  <2>3. CASE RbDropTemp(p) \/ RbLinkTemp(p) \/ RbRename(p) \/ RbDropPrevious(p)
             \/ RbLinkPrevious(p)
    BY <1>5, <2>3
    DEF RbDropTemp, RbLinkTemp, RbRename, RbDropPrevious, RbLinkPrevious, Goto,
        InRollbackCurrent
  <2> QED
    BY <1>5, <2>1, <2>2, <2>3 DEF LinkStep
<1>6. ASSUME NEW p \in Operators, Progress(p)
      PROVE  TargetFollows'
  <2>1. CASE Finish(p)
    BY <2>1 DEF Finish
  <2> QED
    BY <1>3, <1>4, <1>5, <1>6, <2>1 DEF Progress
<1>7. ASSUME NEW p \in Operators, Kill(p)
      PROVE  TargetFollows'
  BY <1>7 DEF Kill, LeaveCall
<1>8. ASSUME NEW q \in Pruners, PruneNext(q) \/ PruneAbandoned(q)
      PROVE  TargetFollows'
  BY <1>8
  DEF PruneNext, PruneReadCurrent, PruneReadPrevious, PruneList, PruneRemove,
      PruneEnd, PruneAbandoned
<1>9. CASE Service
  BY <1>9
  DEF Service, ServiceExits, SystemdRestarts, ServiceWrites, Start, Stopped
<1> QED
  BY <1>1, <1>2, <1>6, <1>7, <1>8, <1>9 DEF Next

\* "Restarts the service, waits for an HTTP health check": whatever fails,
\* and with pruners about, a command that reports success has its release in
\* `current`, and the process that runs was started from it.
THEOREM SuccessIsServedHolds == Spec => []SuccessIsServed
<1>1. Init => TargetFollows
  BY DEF Init, TargetFollows, OnTarget, Restarted
<1>2. BaseInv /\ TargetFollows /\ [Next]_vars => TargetFollows'
  BY NextTargetFollows
<1>3. TargetFollows => SuccessIsServed
  BY DEF TargetFollows, SuccessIsServed, OnTarget, Restarted
<1> QED
  BY InitBase, NextBase, <1>1, <1>2, <1>3, PTL DEF Spec

-----------------------------------------------------------------------------
(* What runs when nobody is at work                                        *)

\* A step of a deploy keeps RunsFollow: it owes the service a restart from
\* its switch on, and pays before it ends.
LEMMA DeployStepRuns ==
  ASSUME BaseInv, RunsFollow, NEW p \in Operators, DeployStep(p)
  PROVE  RunsFollow' \/ (OwesRestart(p) /\ GivesUpRestart(p))
<1> USE DEF BaseInv, LinkInv, LinkTypeOK, CommandTypeOK, Step,
            RunsFollow, OwesRestart, hostvars, smvars, smcalls, links
<1>1. CASE DeployFetch(p) \/ DeployExtract(p) \/ DeployCheckBinary(p)
           \/ DeployCopyDb(p) \/ DeployCopyDbRest(p) \/ DeployPreflight(p)
           \/ DeployCleanup(p)
  BY <1>1
  DEF DeployFetch, DeployExtract, DeployCheckBinary, DeployCopyDb,
      DeployCopyDbRest, DeployPreflight, DeployCleanup
<1>2. CASE DeployCutover(p)
  BY <1>2 DEF DeployCutover, SetCurrent, Goto
<1>3. CASE DeploySwitched(p)
  BY <1>3 DEF DeploySwitched, Return, LeaveCall
<1>4. CASE DeployRestart(p)
  BY <1>4 DEF DeployRestart, RestartOk, Start, Stopped
<1>5. CASE DeployHealth(p) \/ DeployRecord(p) \/ DeployList(p) \/ DeployPrune(p)
           \/ DeployPruned(p)
  BY <1>5 DEF DeployHealth, DeployRecord, DeployList, DeployPrune, DeployPruned
<1>6. CASE DeployRollback(p)
  BY <1>6 DEF DeployRollback, RollbackCurrent, Goto
<1>7. CASE DeployRolledBack(p)
  BY <1>7 DEF DeployRolledBack, Return, LeaveCall
<1>8. CASE DeployRestartOld(p)
  BY <1>8 DEF DeployRestartOld, RestartOk, RestartErr, Start, Stopped, GivesUpRestart
<1> QED
  BY <1>1, <1>2, <1>3, <1>4, <1>5, <1>6, <1>7, <1>8 DEF DeployStep

\* So does a step of a rollback.
LEMMA RollbackStepRuns ==
  ASSUME BaseInv, RunsFollow, NEW p \in Operators, RollbackStep(p)
  PROVE  RunsFollow' \/ (OwesRestart(p) /\ GivesUpRestart(p))
<1> USE DEF BaseInv, LinkInv, LinkTypeOK, CommandTypeOK, Step,
            RunsFollow, OwesRestart, hostvars, smvars, smcalls, links
<1>1. CASE RollbackValidate(p)
  BY <1>1 DEF RollbackValidate
<1>2. CASE RollbackSwitch(p)
  BY <1>2 DEF RollbackSwitch, SetCurrent, Goto
<1>3. CASE RollbackSwitched(p)
  BY <1>3 DEF RollbackSwitched, Return, LeaveCall
<1>4. CASE RollbackRestart(p)
  BY <1>4
  DEF RollbackRestart, RestoreOrFail, RestartOk, RestartErr, Start, Stopped,
      GivesUpRestart
<1>5. CASE RollbackHealth(p)
  BY <1>5 DEF RollbackHealth, RestoreOrFail
<1>6. CASE RollbackRestore(p) \/ RollbackRestored(p)
  BY <1>6
  DEF RollbackRestore, RollbackRestored, SetCurrent, Goto, Return, LeaveCall
<1> QED
  BY <1>1, <1>2, <1>3, <1>4, <1>5, <1>6 DEF RollbackStep

\* So does a file-system call on a link: only a rename moves `current`.
LEMMA LinkStepRuns ==
  ASSUME BaseInv, RunsFollow, NEW p \in Operators, LinkStep(p),
         UNCHANGED <<hostvars, opvars>>
  PROVE  RunsFollow'
<1> USE DEF BaseInv, LinkInv, LinkTypeOK, CommandTypeOK, CallsOfCommands, InCall,
            RunsFollow, OwesRestart, hostvars, opvars, Goto, InSetCurrent,
            InRollbackCurrent
<1>1. CASE SetRename(p)
  BY <1>1 DEF SetRename
<1>2. CASE RbRename(p)
  BY <1>2 DEF RbRename
<1>3. CASE SetDropPrevious(p) \/ SetLinkPrevious(p) \/ SetDropTemp(p)
           \/ SetLinkTemp(p)
  BY <1>3 DEF SetDropPrevious, SetLinkPrevious, SetDropTemp, SetLinkTemp
<1>4. CASE RbDropTemp(p) \/ RbLinkTemp(p) \/ RbDropPrevious(p) \/ RbLinkPrevious(p)
  BY <1>4 DEF RbDropTemp, RbLinkTemp, RbDropPrevious, RbLinkPrevious
<1> QED
  BY <1>1, <1>2, <1>3, <1>4 DEF LinkStep

\* Only what StaleOnlyByFault names breaks RunsFollow.
LEMMA NextRunsFollow ==
  ASSUME BaseInv, RunsFollow, [Next]_vars
  PROVE  \/ RunsFollow'
         \/ \E p \in Operators : OwesRestart(p) /\ (Kill(p) \/ GivesUpRestart(p))
<1> USE DEF BaseInv, CommandTypeOK, RunsFollow, OwesRestart
<1>1. CASE UNCHANGED vars
  BY <1>1 DEF vars, hostvars, opvars, smvars, smcalls, links
<1>2. ASSUME NEW p \in Operators, Command(p) \/ Finish(p)
      PROVE  RunsFollow'
  BY <1>2
  DEF Command, DeployBegin, RollbackBegin, Step, Finish, smvars, smcalls, links
<1>3. ASSUME NEW p \in Operators, Progress(p)
      PROVE  RunsFollow' \/ (OwesRestart(p) /\ GivesUpRestart(p))
  BY <1>2, <1>3, DeployStepRuns, RollbackStepRuns, LinkStepRuns DEF Progress
<1>4. ASSUME NEW p \in Operators, Kill(p)
      PROVE  RunsFollow' \/ OwesRestart(p)
  BY <1>4 DEF Kill, MutualExclusion, LeaveCall, links
<1>5. ASSUME NEW q \in Pruners, PruneNext(q) \/ PruneAbandoned(q)
      PROVE  UNCHANGED <<smvars, running, pc>>
  BY <1>5
  DEF PruneNext, PruneReadCurrent, PruneReadPrevious, PruneList, PruneRemove,
      PruneEnd, PruneAbandoned, hostvars, opvars
<1>6. CASE Service
  BY <1>6
  DEF Service, ServiceExits, SystemdRestarts, ServiceWrites, Start, Stopped,
      links, smcalls, opvars
<1> QED
  BY <1>1, <1>2, <1>3, <1>4, <1>5, <1>6 DEF Next, smvars, smcalls, links

\* Whatever else fails or is killed, and with pruners about, only a command
\* that dies owing a restart, or whose last restart does not reach systemd,
\* leaves a process of another release than `current`.
THEOREM StaleOnlyByFaultHolds == Spec => StaleOnlyByFault
  BY InitBase, NextBase, NextRunsFollow, PTL DEF Spec, StaleOnlyByFault

\* Where no command is killed half-way and systemctl reaches systemd, the
\* service is at rest stopped or runs `current`: whatever fails on the links
\* and in the releases, and with pruners about.
THEOREM AtRestRunsCurrentHolds ==
  ASSUME CommandsRestart
  PROVE  Spec => []AtRestRunsCurrent
<1>1. Init => RunsFollow
  BY DEF Init, HostInit, RunsFollow
<1>2. BaseInv /\ RunsFollow => AtRestRunsCurrent
  BY HostAssumption
  DEF BaseInv, MutualExclusion, RunsFollow, OwesRestart, AtRestRunsCurrent
<1>3. BaseInv /\ RunsFollow /\ [Next]_vars => RunsFollow'
  BY NextRunsFollow DEF CommandsRestart, Kill, GivesUpRestart
<1> QED
  BY InitBase, NextBase, <1>1, <1>2, <1>3, PTL DEF Spec

-----------------------------------------------------------------------------
(* Every command and every prune comes to its end                          *)

\* How far each place of a command is from its end.
LEMMA CourseNumbers ==
  /\ CourseLeft["idle"] = 0 /\ CourseLeft["succeeded"] = 1 /\ CourseLeft["failed"] = 1
  /\ CourseLeft["fetch"] = 24 /\ CourseLeft["extract"] = 23 /\ CourseLeft["checkBinary"] = 22
  /\ CourseLeft["copyDb"] = 21 /\ CourseLeft["copyingDb"] = 20 /\ CourseLeft["preflight"] = 19
  /\ CourseLeft["cleanup"] = 2 /\ CourseLeft["cutover"] = 18 /\ CourseLeft["switching"] = 12
  /\ CourseLeft["restart"] = 11 /\ CourseLeft["health"] = 10 /\ CourseLeft["rollback"] = 9
  /\ CourseLeft["rollingBack"] = 3 /\ CourseLeft["restartOld"] = 2 /\ CourseLeft["record"] = 4
  /\ CourseLeft["list"] = 3 /\ CourseLeft["pruning"] = 2 /\ CourseLeft["validate"] = 19
  /\ CourseLeft["switch"] = 18 /\ CourseLeft["switchingBack"] = 12
  /\ CourseLeft["restartTarget"] = 11 /\ CourseLeft["healthTarget"] = 10
  /\ CourseLeft["restore"] = 9 /\ CourseLeft["restoring"] = 3
  BY DEF CourseLeft

\* And each place of a call on the links from its own.
LEMMA CallNumbers ==
  /\ CallLeft["idle"] = 0 /\ CallLeft["ok"] = 0 /\ CallLeft["err"] = 0
  /\ CallLeft["setDropPrevious"] = 5 /\ CallLeft["setLinkPrevious"] = 4
  /\ CallLeft["setDropTemp"] = 3 /\ CallLeft["setLinkTemp"] = 2 /\ CallLeft["setRename"] = 1
  /\ CallLeft["rbDropTemp"] = 5 /\ CallLeft["rbLinkTemp"] = 4 /\ CallLeft["rbRename"] = 3
  /\ CallLeft["rbDropPrevious"] = 2 /\ CallLeft["rbLinkPrevious"] = 1
  BY DEF CallLeft

\* They are numbers, wherever a command is.
LEMMA LeftTypes ==
  /\ \A here \in Labels : CourseLeft[here] \in Nat
  /\ \A here \in {"idle"} \cup InSetCurrent \cup InRollbackCurrent \cup Returned :
       CallLeft[here] \in Nat
<1>1. \A here \in Labels : CourseLeft[here] \in Nat
  BY CourseNumbers DEF Labels, DeployLabels, RollbackLabels
<1>2. \A here \in {"idle"} \cup InSetCurrent \cup InRollbackCurrent \cup Returned :
        CallLeft[here] \in Nat
  BY CallNumbers DEF InSetCurrent, InRollbackCurrent, Returned
<1> QED
  BY <1>1, <1>2

\* A file-system call of a call on the links is one call less to make.
LEMMA LinkStepsRunOut ==
  ASSUME LinkTypeOK, NEW p \in Operators, LinkStep(p)
  PROVE  /\ CallLeft[smpc'[p]] < CallLeft[smpc[p]]
         /\ \A o \in Operators : o # p => smpc'[o] = smpc[o]
<1> USE CallNumbers DEF LinkTypeOK, Goto
<1>1. CASE SetDropPrevious(p) \/ SetLinkPrevious(p) \/ SetDropTemp(p) \/ SetLinkTemp(p)
           \/ SetRename(p)
  BY <1>1 DEF SetDropPrevious, SetLinkPrevious, SetDropTemp, SetLinkTemp, SetRename
<1>2. CASE RbDropTemp(p) \/ RbLinkTemp(p) \/ RbRename(p) \/ RbDropPrevious(p) \/ RbLinkPrevious(p)
  BY <1>2 DEF RbDropTemp, RbLinkTemp, RbRename, RbDropPrevious, RbLinkPrevious
<1> QED
  BY <1>1, <1>2 DEF LinkStep

\* What is left of a command but for the releases it removes.
OnTheWay(p) == CourseLeft[pc[p]] + CallLeft[smpc[p]]

\* Where a command goes on from, and where to.
Advances(p) ==
  /\ OnTheWay(p)' < OnTheWay(p)
  /\ \A o \in Operators \ {p} : UNCHANGED <<pc[o], smpc[o], doomed[o]>>
  /\ \/ pc'[p] \in {"succeeded", "failed", "idle"}
     \/ pc[p] \notin {"succeeded", "failed", "idle", "pruning"}
        /\ (pc'[p] = "pruning" => doomed'[p] \in SUBSET Versions)

\* A deploy, but for its pruning loop.
LEMMA DeployAdvances ==
  ASSUME BaseInv, NEW p \in Operators, DeployStep(p), ~DeployPrune(p)
  PROVE  Advances(p)
<1> USE CourseNumbers, CallNumbers
    DEF Advances, OnTheWay, BaseInv, LinkInv, LinkTypeOK, CommandTypeOK, Step, Return, LeaveCall,
        Returned, smvars, smcalls
<1>0. CallLeft[smpc[p]] \in Nat
  BY LeftTypes, Zenon DEF BaseInv, LinkInv, LinkTypeOK
<1>1. CASE DeployFetch(p) \/ DeployExtract(p) \/ DeployCheckBinary(p)
  BY <1>0, <1>1 DEF DeployFetch, DeployExtract, DeployCheckBinary
<1>2. CASE DeployCopyDb(p) \/ DeployCopyDbRest(p) \/ DeployPreflight(p) \/ DeployCleanup(p)
  BY <1>0, <1>2 DEF DeployCopyDb, DeployCopyDbRest, DeployPreflight, DeployCleanup
<1>3. CASE DeployCutover(p) \/ DeployRollback(p)
  BY <1>0, <1>3 DEF DeployCutover, SetCurrent, DeployRollback, RollbackCurrent, Goto
<1>4. CASE DeploySwitched(p) \/ DeployRolledBack(p)
  BY <1>0, <1>4 DEF DeploySwitched, DeployRolledBack
<1>5. CASE DeployRestart(p) \/ DeployHealth(p) \/ DeployRestartOld(p) \/ DeployRecord(p)
  BY <1>0, <1>5 DEF DeployRestart, DeployHealth, DeployRestartOld, DeployRecord
<1>6. CASE DeployList(p)
  <2>1. doomed' \in [Operators -> SUBSET Versions]
    BY DeployStepTypes, <1>6 DEF DeployStep
  <2> QED
    BY <1>0, <1>6, <2>1 DEF DeployList
<1>7. CASE DeployPruned(p)
  BY <1>0, <1>7 DEF DeployPruned
<1> QED
  BY <1>1, <1>2, <1>3, <1>4, <1>5, <1>6, <1>7 DEF DeployStep

\* A rollback.
LEMMA RollbackAdvances ==
  ASSUME BaseInv, NEW p \in Operators, RollbackStep(p)
  PROVE  Advances(p)
<1> USE CourseNumbers, CallNumbers
    DEF Advances, OnTheWay, BaseInv, LinkInv, LinkTypeOK, CommandTypeOK, Step, Return, LeaveCall,
        Returned, smvars, smcalls
<1>0. CallLeft[smpc[p]] \in Nat
  BY LeftTypes, Zenon DEF BaseInv, LinkInv, LinkTypeOK
<1>1. CASE RollbackSwitch(p) \/ RollbackRestore(p)
  BY <1>0, <1>1 DEF RollbackSwitch, SetCurrent, RollbackRestore, Goto
<1>2. CASE RollbackSwitched(p) \/ RollbackRestored(p)
  BY <1>0, <1>2 DEF RollbackSwitched, RollbackRestored
<1>3. CASE RollbackValidate(p) \/ RollbackRestart(p) \/ RollbackHealth(p)
  BY <1>0, <1>3 DEF RollbackValidate, RollbackRestart, RollbackHealth, RestoreOrFail
<1> QED
  BY <1>1, <1>2, <1>3 DEF RollbackStep

\* The releases that may still be to remove are versions, and finitely many.
LEMMA RemovalsLeftFinite ==
  ASSUME IsFiniteSet(Versions), NEW place, NEW R \in SUBSET Versions
  PROVE  /\ RemovalsLeft(place, R) \in SUBSET Versions
         /\ IsFiniteSet(RemovalsLeft(place, R))
         /\ Cardinality(RemovalsLeft(place, R)) \in Nat
<1>1. RemovalsLeft(place, R) \in SUBSET Versions
  BY DEF RemovalsLeft
<1> QED
  BY <1>1, FS_Subset, FS_CardinalityType

\* One of two sets of them that is part of the other.
LEMMA RemovalsLeftShrink ==
  ASSUME IsFiniteSet(Versions),
         NEW here, NEW R \in SUBSET Versions, NEW there, NEW S \in SUBSET Versions,
         RemovalsLeft(there, S) \subseteq RemovalsLeft(here, R)
  PROVE  Cardinality(RemovalsLeft(there, S)) <= Cardinality(RemovalsLeft(here, R))
  BY RemovalsLeftFinite, FS_Subset

\* One release less to remove.
LEMMA RemovalTakesOne ==
  ASSUME IsFiniteSet(Versions), NEW R \in SUBSET Versions, NEW v \in R
  PROVE  Cardinality(RemovalsLeft("pruning", R \ {v}))
           = Cardinality(RemovalsLeft("pruning", R)) - 1
<1>1. IsFiniteSet(R)
  BY FS_Subset
<1> QED
  BY <1>1, FS_RemoveElement DEF RemovalsLeft

\* A step of a command takes one from what is left of it, and nothing from
\* another command.
LEMMA ProgressTakesOne ==
  ASSUME IsFiniteSet(Versions), BaseInv, BaseInv', NEW p \in Operators, Progress(p)
  PROVE  /\ StepsLeft(p) \in Nat /\ StepsLeft(p)' \in Nat /\ StepsLeft(p)' < StepsLeft(p)
         /\ \A o \in Operators \ {p} : UNCHANGED <<pc[o], smpc[o], doomed[o]>>
<1> DEFINE Left == Cardinality(RemovalsLeft(pc[p], doomed[p]))
<1>1. /\ LinkTypeOK /\ CommandTypeOK /\ doomed[p] \in SUBSET Versions
      /\ LinkTypeOK' /\ CommandTypeOK' /\ doomed'[p] \in SUBSET Versions
  BY DEF BaseInv, LinkInv, CommandTypeOK
<1>2. /\ Left \in Nat /\ Left' \in Nat
      /\ CallLeft[smpc[p]] \in Nat /\ CallLeft[smpc'[p]] \in Nat
      /\ CourseLeft[pc[p]] \in Nat /\ CourseLeft[pc'[p]] \in Nat
  <2>1. Left \in Nat /\ Left' \in Nat
    BY <1>1, RemovalsLeftFinite
  <2>2. CallLeft[smpc[p]] \in Nat /\ CallLeft[smpc'[p]] \in Nat
    BY <1>1, LeftTypes, Zenon DEF LinkTypeOK
  <2>3. CourseLeft[pc[p]] \in Nat /\ CourseLeft[pc'[p]] \in Nat
    BY <1>1, LeftTypes, Zenon DEF CommandTypeOK
  <2> QED
    BY <2>1, <2>2, <2>3
<1>3. /\ StepsLeft(p) = CourseLeft[pc[p]] + CallLeft[smpc[p]] + Left
      /\ StepsLeft(p)' = CourseLeft[pc'[p]] + CallLeft[smpc'[p]] + Left'
  BY DEF StepsLeft
<1>4. StepsLeft(p) \in Nat /\ StepsLeft(p)' \in Nat
  <2> HIDE DEF Left
  <2> QED
    BY <1>2, <1>3
<1>5. ASSUME Advances(p)
      PROVE  /\ StepsLeft(p)' < StepsLeft(p)
             /\ \A o \in Operators \ {p} : UNCHANGED <<pc[o], smpc[o], doomed[o]>>
  <2>1. RemovalsLeft(pc'[p], doomed'[p]) \subseteq RemovalsLeft(pc[p], doomed[p])
    BY <1>1, <1>5 DEF Advances, RemovalsLeft
  <2>2. Left' <= Left
    BY <1>1, <2>1, RemovalsLeftShrink
  <2>3. CourseLeft[pc'[p]] + CallLeft[smpc'[p]] < CourseLeft[pc[p]] + CallLeft[smpc[p]]
    BY <1>5 DEF Advances, OnTheWay
  <2> HIDE DEF Left
  <2>4. StepsLeft(p)' < StepsLeft(p)
    BY <1>2, <1>3, <2>2, <2>3
  <2> QED
    BY <1>5, <2>4 DEF Advances
<1>6. CASE DeployPrune(p)
  <2>1. PICK v \in doomed[p] : doomed'[p] = doomed[p] \ {v}
    BY <1>1, <1>6 DEF DeployPrune, RemoveNextDoomed, CommandTypeOK
  <2>2. /\ pc' = pc /\ smpc' = smpc /\ pc[p] = "pruning"
        /\ \A o \in Operators \ {p} : doomed'[o] = doomed[o]
    BY <1>1, <1>6 DEF DeployPrune, RemoveNextDoomed, CommandTypeOK, smvars, smcalls
  <2>3. Left' = Left - 1
    BY <1>1, <2>1, <2>2, RemovalTakesOne
  <2> HIDE DEF Left
  <2> QED
    BY <1>2, <1>3, <2>2, <2>3
<1>7. CASE LinkStep(p) /\ UNCHANGED opvars
  <2>1. pc' = pc /\ doomed' = doomed /\ Left' = Left
    BY <1>7 DEF opvars
  <2>2. /\ CallLeft[smpc'[p]] < CallLeft[smpc[p]]
        /\ \A o \in Operators : o # p => smpc'[o] = smpc[o]
    BY <1>1, <1>7, LinkStepsRunOut
  <2> HIDE DEF Left
  <2> QED
    BY <1>2, <1>3, <2>1, <2>2
<1>8. CASE Finish(p)
  <2>1. /\ pc[p] \in {"succeeded", "failed"} /\ pc'[p] = "idle"
        /\ smpc' = smpc /\ doomed' = doomed /\ \A o \in Operators \ {p} : pc'[o] = pc[o]
    BY <1>1, <1>8 DEF Finish, CommandTypeOK, smvars, smcalls
  <2>2. CourseLeft[pc'[p]] < CourseLeft[pc[p]]
    BY <2>1, CourseNumbers
  <2>3. OnTheWay(p)' < OnTheWay(p)
    BY <1>2, <2>1, <2>2 DEF OnTheWay
  <2>4. Advances(p)
    BY <2>1, <2>3 DEF Advances
  <2> QED
    BY <1>4, <1>5, <2>4
<1> QED
  BY <1>4, <1>5, <1>6, <1>7, <1>8, DeployAdvances, RollbackAdvances DEF Progress

\* Nobody else adds to what is left of a command.
LEMMA NobodyAddsSteps ==
  ASSUME IsFiniteSet(Versions), BaseInv, BaseInv', [Next]_vars,
         NEW p \in Operators, pc[p] # "idle"
  PROVE  StepsLeft(p)' <= StepsLeft(p)
<1> DEFINE Same == UNCHANGED <<pc[p], smpc[p], doomed[p]>>
<1>1. StepsLeft(p) \in Nat
  <2>1. CallLeft[smpc[p]] \in Nat /\ CourseLeft[pc[p]] \in Nat
    BY LeftTypes, Zenon DEF BaseInv, LinkInv, LinkTypeOK, CommandTypeOK
  <2>2. Cardinality(RemovalsLeft(pc[p], doomed[p])) \in Nat
    BY RemovalsLeftFinite DEF BaseInv, CommandTypeOK
  <2> QED
    BY <2>1, <2>2 DEF StepsLeft
<1>2. ASSUME Same PROVE StepsLeft(p)' <= StepsLeft(p)
  <2>1. StepsLeft(p)' = StepsLeft(p)
    BY <1>2 DEF StepsLeft
  <2> QED
    BY <1>1, <2>1
<1>3. ASSUME NEW o \in Operators, Progress(o) PROVE StepsLeft(p)' <= StepsLeft(p)
  <2>1. CASE o = p
    <3>1. StepsLeft(p)' < StepsLeft(p) /\ StepsLeft(p)' \in Nat
      BY <1>3, <2>1, ProgressTakesOne
    <3> QED
      BY <1>1, <3>1
  <2>2. CASE o # p
    BY <1>2, <1>3, <2>2, ProgressTakesOne
  <2> QED
    BY <2>1, <2>2
<1>4. ASSUME NEW o \in Operators, Command(o) PROVE Same
  BY <1>4
  DEF Command, DeployBegin, RollbackBegin, Step, BaseInv, CommandTypeOK, smvars, smcalls
<1>5. ASSUME NEW o \in Operators, Kill(o) PROVE StepsLeft(p)' <= StepsLeft(p)
  <2>1. CASE o = p
    <3>1. pc'[p] = "idle" /\ smpc'[p] = "idle"
      BY <1>5, <2>1 DEF Kill, LeaveCall, BaseInv, LinkInv, LinkTypeOK, CommandTypeOK
    <3>2. StepsLeft(p)' = 0
      BY <3>1, CourseNumbers, CallNumbers, FS_EmptySet DEF StepsLeft, RemovalsLeft
    <3> QED
      BY <1>1, <3>2
  <2>2. CASE o # p
    <3>1. Same
      BY <1>5, <2>2 DEF Kill, LeaveCall, BaseInv, LinkInv, LinkTypeOK, CommandTypeOK
    <3> QED
      BY <1>2, <3>1
  <2> QED
    BY <2>1, <2>2
<1>6. ASSUME NEW q \in Pruners, PruneNext(q) \/ PruneAbandoned(q) PROVE Same
  BY <1>6
  DEF PruneNext, PruneReadCurrent, PruneReadPrevious, PruneList, PruneRemove, PruneEnd,
      PruneAbandoned, opvars, smvars, smcalls
<1>7. ASSUME Service \/ UNCHANGED vars PROVE Same
  BY <1>7 DEF Service, vars, opvars, smvars, smcalls
<1> HIDE DEF Same
<1> QED
  BY <1>2, <1>3, <1>4, <1>5, <1>6, <1>7 DEF Next

\* A step of a pruner takes one from what is left of it, and nothing from
\* another pruner.
LEMMA PruneTakesOne ==
  ASSUME IsFiniteSet(Versions), PruneTypeOK, PruneTypeOK',
         NEW q \in Pruners, PruneNext(q), prunepc[q] # "idle"
  PROVE  /\ PruneStepsLeft(q) \in Nat /\ PruneStepsLeft(q)' \in Nat
         /\ PruneStepsLeft(q)' < PruneStepsLeft(q)
<1> DEFINE Left == Cardinality(RemovalsLeft(prunepc[q], victims[q]))
<1>1. /\ victims[q] \in SUBSET Versions /\ victims'[q] \in SUBSET Versions
      /\ Left \in Nat /\ Left' \in Nat
  <2>1. victims[q] \in SUBSET Versions /\ victims'[q] \in SUBSET Versions
    BY DEF PruneTypeOK
  <2> QED
    BY <2>1, RemovalsLeftFinite
<1>2. /\ PruneLeft["idle"] = 0 /\ PruneLeft["readPrevious"] = 3
      /\ PruneLeft["list"] = 2 /\ PruneLeft["pruning"] = 1
  BY DEF PruneLeft
<1>3. /\ PruneStepsLeft(q) = PruneLeft[prunepc[q]] + Left
      /\ PruneStepsLeft(q)' = PruneLeft[prunepc'[q]] + Left'
  BY DEF PruneStepsLeft
<1>4. ASSUME PruneReadPrevious(q) \/ PruneList(q) \/ PruneEnd(q)
      PROVE  /\ prunepc[q] \in {"readPrevious", "list", "pruning"}
             /\ prunepc'[q] = CASE prunepc[q] = "readPrevious" -> "list"
                                [] prunepc[q] = "list" -> "pruning"
                                [] OTHER -> "idle"
  BY <1>4 DEF PruneReadPrevious, PruneList, PruneEnd, PruneStep, PruneTypeOK
<1>5. CASE PruneReadPrevious(q) \/ PruneList(q) \/ PruneEnd(q)
  <2>1. RemovalsLeft(prunepc'[q], victims'[q]) \subseteq RemovalsLeft(prunepc[q], victims[q])
    BY <1>1, <1>4, <1>5 DEF RemovalsLeft
  <2>2. Left' <= Left
    BY <1>1, <2>1, RemovalsLeftShrink
  <2> HIDE DEF Left
  <2>3. PruneLeft[prunepc'[q]] < PruneLeft[prunepc[q]]
        /\ PruneLeft[prunepc'[q]] \in Nat /\ PruneLeft[prunepc[q]] \in Nat
    BY <1>2, <1>4, <1>5
  <2> QED
    BY <1>1, <1>3, <2>2, <2>3
<1>6. CASE PruneRemove(q)
  <2>1. PICK v \in victims[q] : victims'[q] = victims[q] \ {v}
    BY <1>6 DEF PruneRemove, PruneTypeOK
  <2>2. prunepc' = prunepc /\ prunepc[q] = "pruning"
    BY <1>6 DEF PruneRemove
  <2>3. Left' = Left - 1
    BY <1>1, <2>1, <2>2, RemovalTakesOne
  <2> HIDE DEF Left
  <2> QED
    BY <1>1, <1>2, <1>3, <2>2, <2>3
<1>7. ~PruneReadCurrent(q)
  BY DEF PruneReadCurrent, PruneStep
<1> QED
  BY <1>5, <1>6, <1>7 DEF PruneNext

\* Nobody else adds to what is left of a prune.
LEMMA NobodyAddsPruneSteps ==
  ASSUME IsFiniteSet(Versions), BaseInv, BaseInv', [Next]_vars,
         NEW q \in Pruners, prunepc[q] # "idle"
  PROVE  PruneStepsLeft(q)' <= PruneStepsLeft(q)
<1> DEFINE Same == UNCHANGED <<prunepc[q], victims[q]>>
<1>1. PruneStepsLeft(q) \in Nat
  <2>1. Cardinality(RemovalsLeft(prunepc[q], victims[q])) \in Nat
    BY RemovalsLeftFinite DEF BaseInv, PruneTypeOK
  <2>2. PruneLeft[prunepc[q]] \in Nat
    BY DEF PruneLeft, BaseInv, PruneTypeOK
  <2> QED
    BY <2>1, <2>2 DEF PruneStepsLeft
<1>2. ASSUME Same PROVE PruneStepsLeft(q)' <= PruneStepsLeft(q)
  <2>1. PruneStepsLeft(q)' = PruneStepsLeft(q)
    BY <1>2 DEF PruneStepsLeft
  <2> QED
    BY <1>1, <2>1
<1>3. ASSUME NEW r \in Pruners, PruneNext(r), r # q PROVE Same
  BY <1>3
  DEF PruneNext, PruneReadCurrent, PruneReadPrevious, PruneList, PruneRemove, PruneEnd,
      PruneStep, BaseInv, PruneTypeOK
<1>4. ASSUME PruneNext(q) PROVE PruneStepsLeft(q)' <= PruneStepsLeft(q)
  <2>1. PruneStepsLeft(q)' < PruneStepsLeft(q) /\ PruneStepsLeft(q)' \in Nat
    BY <1>4, PruneTakesOne DEF BaseInv
  <2> QED
    BY <1>1, <2>1
<1>5. ASSUME NEW r \in Pruners, PruneAbandoned(r)
      PROVE  PruneStepsLeft(q)' <= PruneStepsLeft(q)
  <2>1. CASE r = q
    <3>1. prunepc'[q] = "idle"
      BY <1>5, <2>1 DEF PruneAbandoned, BaseInv, PruneTypeOK
    <3>2. PruneLeft["idle"] = 0
      BY DEF PruneLeft
    <3>3. PruneStepsLeft(q)' = 0
      BY <3>1, <3>2, FS_EmptySet DEF PruneStepsLeft, RemovalsLeft
    <3> QED
      BY <1>1, <3>3
  <2>2. CASE r # q
    <3>1. Same
      BY <1>5, <2>2 DEF PruneAbandoned, BaseInv, PruneTypeOK
    <3> QED
      BY <1>2, <3>1
  <2> QED
    BY <2>1, <2>2
<1>6. ASSUME NEW p \in Operators, Command(p) \/ Progress(p) \/ Kill(p) PROVE Same
  BY <1>6 DEF Command, Progress, Kill, prunevars
<1>7. ASSUME Service \/ UNCHANGED vars PROVE Same
  BY <1>7 DEF Service, vars, prunevars
<1> HIDE DEF Same
<1> QED
  BY <1>2, <1>3, <1>4, <1>5, <1>6, <1>7 DEF Next

\* A deploy takes at most 24 steps of its own and one for each release, a
\* prune four and as many: the variant functions of main's commands, for any
\* number of operators and pruners, and whatever fails or is killed.
THEOREM StepsRunOutHolds == ASSUME IsFiniteSet(Versions) PROVE Spec => StepsRunOut
<1>1. BaseInv /\ BaseInv' /\ [Next]_vars =>
        [/\ \A p \in Operators :
              pc[p] # "idle" =>
                /\ StepsLeft(p)' <= StepsLeft(p)
                /\ Progress(p) => StepsLeft(p)' < StepsLeft(p)
         /\ \A q \in Pruners :
              prunepc[q] # "idle" =>
                /\ PruneStepsLeft(q)' <= PruneStepsLeft(q)
                /\ PruneNext(q) => PruneStepsLeft(q)' < PruneStepsLeft(q)]_vars
  <2> SUFFICES ASSUME BaseInv, BaseInv', [Next]_vars
               PROVE  /\ \A p \in Operators :
                           pc[p] # "idle" =>
                             /\ StepsLeft(p)' <= StepsLeft(p)
                             /\ Progress(p) => StepsLeft(p)' < StepsLeft(p)
                      /\ \A q \in Pruners :
                           prunepc[q] # "idle" =>
                             /\ PruneStepsLeft(q)' <= PruneStepsLeft(q)
                             /\ PruneNext(q) => PruneStepsLeft(q)' < PruneStepsLeft(q)
    OBVIOUS
  <2>1. ASSUME NEW p \in Operators, pc[p] # "idle"
        PROVE  /\ StepsLeft(p)' <= StepsLeft(p)
               /\ Progress(p) => StepsLeft(p)' < StepsLeft(p)
    BY <2>1, NobodyAddsSteps, ProgressTakesOne
  <2>2. ASSUME NEW q \in Pruners, prunepc[q] # "idle"
        PROVE  /\ PruneStepsLeft(q)' <= PruneStepsLeft(q)
               /\ PruneNext(q) => PruneStepsLeft(q)' < PruneStepsLeft(q)
    BY <2>2, NobodyAddsPruneSteps, PruneTakesOne DEF BaseInv
  <2> QED
    BY <2>1, <2>2
<1> QED
  BY <1>1, InitBase, NextBase, PTL DEF Spec, StepsRunOut
=============================================================================
