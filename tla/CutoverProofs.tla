--------------------------- MODULE CutoverProofs ---------------------------
(***************************************************************************)
(* Proofs about what a command leaves behind.                              *)
(*                                                                         *)
(* The links: a command is all or nothing, where the calls on links do not *)
(* fail; everything else may, commands may be killed, and pruners and the  *)
(* service interleave as they like.                                        *)
(*                                                                         *)
(* The release directories: the releases the links name survive, with any  *)
(* fault and any kill, where operators deploy only releases that no link   *)
(* names and no prune runs beside their commands.  And where no command is *)
(* killed and no removal fails, every release is whole when no command is  *)
(* in progress.                                                            *)
(***************************************************************************)
EXTENDS SvcDeployProofs

-----------------------------------------------------------------------------
(* The links along a call                                                  *)

\* Every step of the symlink manager, under any client, keeps LinksFollow.
LEMMA CallLinksFollow ==
  ASSUME LinksDoNotFail, LinkInv, LinksFollow, [LinkNext]_smvars
  PROVE  LinksFollow'
<1> USE NoVersionAssumption
<1> USE DEF LinksDoNotFail, LinkInv, LinkTypeOK, OneCallAtATime, TempLinkIsMine,
            LinksFollow, Goto, links, Remove, TrySymlink, CanSymlink,
            MaybeVersion, InSetCurrent, InRollbackCurrent, Returned
<1>1. CASE UNCHANGED smvars
  BY <1>1 DEF smvars, smcalls
<1>2. ASSUME NEW p \in Operators, LinkCall(p)
      PROVE  LinksFollow'
  <2>1. CASE RollbackCurrent(p)
    BY <1>2, <2>1 DEF LinkCall, Quiet, RollbackCurrent
  <2>2. ASSUME NEW v \in Versions, SetCurrent(p, v)
        PROVE  LinksFollow'
    BY <1>2, <2>2 DEF LinkCall, Quiet, SetCurrent
  <2> QED
    BY <1>2, <2>1, <2>2 DEF LinkCall
<1>3. ASSUME NEW p \in Operators, LinkStep(p)
      PROVE  LinksFollow'
  <2>1. CASE SetDropPrevious(p)
    BY <2>1 DEF SetDropPrevious
  <2>2. CASE SetLinkPrevious(p)
    BY <2>2 DEF SetLinkPrevious
  <2>3. CASE SetDropTemp(p)
    BY <2>3 DEF SetDropTemp
  <2>4. CASE SetLinkTemp(p)
    BY <2>4 DEF SetLinkTemp
  <2>5. CASE SetRename(p)
    BY <2>5 DEF SetRename
  <2>6. CASE RbDropTemp(p)
    BY <2>6 DEF RbDropTemp
  <2>7. CASE RbLinkTemp(p)
    BY <2>7 DEF RbLinkTemp
  <2>8. CASE RbRename(p)
    BY <2>8 DEF RbRename
  <2>9. CASE RbDropPrevious(p)
    BY <2>9 DEF RbDropPrevious
  <2>10. CASE RbLinkPrevious(p)
    BY <2>10 DEF RbLinkPrevious
  <2> QED
    BY <1>3, <2>1, <2>2, <2>3, <2>4, <2>5, <2>6, <2>7, <2>8, <2>9, <2>10
    DEF LinkStep
<1>4. ASSUME NEW p \in Operators, Return(p) \/ Die(p)
      PROVE  LinksFollow'
  BY <1>4 DEF Return, Die, LeaveCall
<1> QED
  BY <1>1, <1>2, <1>3, <1>4 DEF LinkNext

-----------------------------------------------------------------------------
(* Where the old release is kept                                           *)

LEMMA InitCutover == Init => CutoverInv
<1> SUFFICES ASSUME Init PROVE CutoverInv
  OBVIOUS
<1>1. TargetFollows
  BY DEF Init, TargetFollows, OnTarget, Restarted
<1>2. LinksFollow
  BY DEF Init, LinkInit, LinksFollow, InSetCurrent
<1>3. FromFollows
  BY DEF Init, FromFollows, BeforeSwitch, InCall, OnTarget
<1> QED
  BY InitBase, <1>1, <1>2, <1>3 DEF CutoverInv

\* A step of a deploy keeps FromFollows.
LEMMA DeployStepFrom ==
  ASSUME CutoverInv, NEW p \in Operators, DeployStep(p)
  PROVE  FromFollows'
<1> USE NoVersionAssumption
<1> USE DEF CutoverInv, BaseInv, LinkInv, LinkTypeOK, CommandTypeOK, Step,
            MutualExclusion, CallsOfCommands, VersionsKnown, InCall,
            TargetFollows, FromFollows, BeforeSwitch, OnTarget, hostvars,
            smvars, smcalls, links
<1>1. CASE DeployFetch(p) \/ DeployExtract(p) \/ DeployCheckBinary(p)
           \/ DeployCopyDb(p) \/ DeployCopyDbRest(p) \/ DeployPreflight(p)
           \/ DeployCleanup(p)
  BY <1>1
  DEF DeployFetch, DeployExtract, DeployCheckBinary, DeployCopyDb,
      DeployCopyDbRest, DeployPreflight, DeployCleanup
<1>2. CASE DeployCutover(p)
  BY <1>2 DEF DeployCutover, SetCurrent, Goto
<1>3. CASE DeploySwitched(p)
  BY <1>3 DEF DeploySwitched, Return, LeaveCall, LinksFollow
<1>4. CASE DeployRestart(p) \/ DeployHealth(p) \/ DeployRecord(p)
           \/ DeployList(p) \/ DeployPrune(p) \/ DeployPruned(p)
  BY <1>4
  DEF DeployRestart, DeployHealth, DeployRecord, DeployList, DeployPrune,
      DeployPruned
<1>5. CASE DeployRollback(p)
  BY <1>5 DEF DeployRollback, RollbackCurrent, Goto
<1>6. CASE DeployRolledBack(p)
  BY <1>6 DEF DeployRolledBack, Return, LeaveCall, LinksFollow, Returned
<1>7. CASE DeployRestartOld(p)
  BY <1>7 DEF DeployRestartOld
<1> QED
  BY <1>1, <1>2, <1>3, <1>4, <1>5, <1>6, <1>7 DEF DeployStep

\* So does a step of a rollback.
LEMMA RollbackStepFrom ==
  ASSUME CutoverInv, NEW p \in Operators, RollbackStep(p)
  PROVE  FromFollows'
<1> USE NoVersionAssumption
<1> USE DEF CutoverInv, BaseInv, LinkInv, LinkTypeOK, CommandTypeOK, Step,
            MutualExclusion, CallsOfCommands, VersionsKnown, InCall,
            TargetFollows, FromFollows, BeforeSwitch, OnTarget, hostvars,
            smvars, smcalls, links
<1>1. CASE RollbackValidate(p)
  BY <1>1 DEF RollbackValidate
<1>2. CASE RollbackSwitch(p)
  BY <1>2 DEF RollbackSwitch, SetCurrent, Goto
<1>3. CASE RollbackSwitched(p)
  BY <1>3 DEF RollbackSwitched, Return, LeaveCall, LinksFollow
<1>4. CASE RollbackRestart(p) \/ RollbackHealth(p)
  BY <1>4 DEF RollbackRestart, RollbackHealth, RestoreOrFail
<1>5. CASE RollbackRestore(p)
  BY <1>5 DEF RollbackRestore, SetCurrent, Goto
<1>6. CASE RollbackRestored(p)
  BY <1>6 DEF RollbackRestored, Return, LeaveCall, LinksFollow, Returned
<1> QED
  BY <1>1, <1>2, <1>3, <1>4, <1>5, <1>6 DEF RollbackStep

\* So does a file-system call inside the symlink manager.
LEMMA LinkStepFrom ==
  ASSUME LinksDoNotFail, CutoverInv, NEW p \in Operators, LinkStep(p),
         UNCHANGED <<hostvars, opvars>>
  PROVE  FromFollows'
<1> USE NoVersionAssumption
<1> USE DEF LinksDoNotFail, CutoverInv, BaseInv, LinkInv, LinkTypeOK, CommandTypeOK,
            MutualExclusion, CallsOfCommands, InCall, LinksFollow, FromFollows,
            BeforeSwitch, OnTarget, hostvars, opvars, Goto, InSetCurrent,
            InRollbackCurrent
<1>1. CASE SetDropPrevious(p) \/ SetLinkPrevious(p) \/ SetDropTemp(p)
           \/ SetLinkTemp(p)
  BY <1>1 DEF SetDropPrevious, SetLinkPrevious, SetDropTemp, SetLinkTemp
<1>2. CASE SetRename(p)
  BY <1>2 DEF SetRename
<1>3. CASE RbDropTemp(p) \/ RbLinkTemp(p) \/ RbDropPrevious(p)
           \/ RbLinkPrevious(p)
  BY <1>3 DEF RbDropTemp, RbLinkTemp, RbDropPrevious, RbLinkPrevious
<1>4. CASE RbRename(p)
  BY <1>4 DEF RbRename
<1> QED
  BY <1>1, <1>2, <1>3, <1>4 DEF LinkStep

\* CutoverInv is inductive where the calls on links do not fail.
LEMMA NextCutoverInv ==
  ASSUME LinksDoNotFail
  PROVE  CutoverInv /\ [Next]_vars => CutoverInv'
<1> SUFFICES ASSUME CutoverInv, [Next]_vars
             PROVE  CutoverInv'
  OBVIOUS
<1>1. BaseInv' /\ TargetFollows'
  BY NextBase, NextTargetFollows DEF CutoverInv
<1>2. LinksFollow'
  BY NextCalls, CallLinksFollow DEF CutoverInv, BaseInv
<1>3. FromFollows'
  <2> USE DEF CutoverInv, BaseInv, LinkInv, LinkTypeOK, HostTypeOK, CommandTypeOK,
              MutualExclusion, CallsOfCommands, InCall, FromFollows,
              BeforeSwitch, OnTarget
  <2>1. CASE UNCHANGED vars
    BY <2>1 DEF vars, opvars, smvars, smcalls, links
  <2>2. ASSUME NEW p \in Operators, Command(p)
        PROVE  FromFollows'
    BY <2>2, HostAssumption
    DEF Command, DeployBegin, RollbackBegin, Step, Acquire, smvars, smcalls, links
  <2>3. ASSUME NEW p \in Operators, Finish(p)
        PROVE  FromFollows'
    BY <2>3 DEF Finish, smvars, smcalls, links
  <2>4. ASSUME NEW p \in Operators, Progress(p)
        PROVE  FromFollows'
    BY <2>3, <2>4, DeployStepFrom, RollbackStepFrom, LinkStepFrom DEF Progress
  <2>5. ASSUME NEW p \in Operators, Kill(p)
        PROVE  FromFollows'
    BY <2>5 DEF Kill, LeaveCall
  <2>6. ASSUME NEW q \in Pruners, PruneNext(q) \/ PruneAbandoned(q)
        PROVE  FromFollows'
    BY <2>6
    DEF PruneNext, PruneReadCurrent, PruneReadPrevious, PruneList, PruneRemove,
        PruneEnd, PruneAbandoned, opvars, smvars, smcalls, links
  <2>7. CASE Service
    BY <2>7
    DEF Service, ServiceExits, SystemdRestarts, ServiceWrites, opvars, smcalls,
        links
  <2> QED
    BY <2>1, <2>2, <2>4, <2>5, <2>6, <2>7 DEF Next
<1> QED
  BY <1>1, <1>2, <1>3 DEF CutoverInv

\* "Restart failure or unhealthy service after cutover: automatic rollback to
\* `previous`": where the calls on links do not fail, a command that reports
\* failure has put back the release it found, whatever else failed and
\* whoever prunes.
THEOREM FailureRestoresHolds ==
  ASSUME LinksDoNotFail
  PROVE  Spec => []FailureRestores
<1>1. CutoverInv => FailureRestores
  BY DEF CutoverInv, FromFollows, FailureRestores
<1> QED
  BY InitCutover, NextCutoverInv, <1>1, PTL DEF Spec

\* Under the same assumption a successful command leaves the release it
\* replaced in `previous`, where a bare rollback finds it.
THEOREM SuccessIsUndoableHolds ==
  ASSUME LinksDoNotFail
  PROVE  Spec => []SuccessIsUndoable
<1>1. CutoverInv => SuccessIsUndoable
  BY DEF CutoverInv, FromFollows, OnTarget, SuccessIsUndoable
<1> QED
  BY InitCutover, NextCutoverInv, <1>1, PTL DEF Spec

-----------------------------------------------------------------------------
(* The refinement of Cutover                                               *)

LEMMA InitRefines == Init => Promise!Init
  BY DEF Init, LinkInit, HostInit, Promise!Init, Phase, Holder, Switched, Base, Goal

\* Nothing of it changes when the commands and the links do not.
LEMMA PhaseStutters ==
  ASSUME UNCHANGED <<current, lock, pc, smpc, target, from>>
  PROVE  UNCHANGED Promise!cutovervars
  BY DEF Promise!cutovervars, Phase, PhaseOf, Holder, HasSwitched, Undoing,
         Switched, Base, Goal

\* A step of a deploy: the failing steps before the switch abort, the health
\* check commits, a rollback without a `previous` aborts.
LEMMA DeployStepRefines ==
  ASSUME CutoverInv, NEW p \in Operators, DeployStep(p)
  PROVE  [Promise!Next]_Promise!cutovervars
<1> USE NoVersionAssumption, HostAssumption
<1> USE DEF CutoverInv, BaseInv, LinkInv, LinkTypeOK, CommandTypeOK, Step,
            MutualExclusion, CallsOfCommands, VersionsKnown, InCall,
            TargetFollows, FromFollows, OnTarget, hostvars,
            Promise!cutovervars, Phase, PhaseOf, Holder, HasSwitched, Undoing,
            Switched, Base, Goal
<1>1. CASE DeployFetch(p) \/ DeployCleanup(p)
  BY <1>1 DEF DeployFetch, DeployCleanup, smvars, links, smcalls, Promise!Next,
              Promise!Abort
<1>2. CASE DeployExtract(p) \/ DeployCheckBinary(p) \/ DeployCopyDb(p)
           \/ DeployCopyDbRest(p) \/ DeployPreflight(p)
  BY <1>2 DEF DeployExtract, DeployCheckBinary, DeployCopyDb, DeployCopyDbRest,
              DeployPreflight, smvars, links, smcalls
<1>3. CASE DeployCutover(p)
  BY <1>3 DEF DeployCutover, SetCurrent, Goto, links, InSetCurrent
<1>4. CASE DeploySwitched(p)
  BY <1>4 DEF DeploySwitched, Return, LeaveCall, links, LinksFollow
<1>5. CASE DeployRestart(p) \/ DeployRecord(p) \/ DeployList(p)
           \/ DeployPrune(p) \/ DeployPruned(p) \/ DeployRestartOld(p)
  BY <1>5 DEF DeployRestart, DeployRecord, DeployList, DeployPrune, DeployPruned,
              DeployRestartOld, smvars, links, smcalls
<1>6. CASE DeployHealth(p)
  BY <1>6 DEF DeployHealth, smvars, links, smcalls, Promise!Next, Promise!Commit
<1>7. CASE DeployRollback(p)
  BY <1>7 DEF DeployRollback, RollbackCurrent, Goto, links, Promise!Next,
              Promise!Abort
<1>8. CASE DeployRolledBack(p)
  BY <1>8 DEF DeployRolledBack, Return, LeaveCall, links, Returned
<1> QED
  BY <1>1, <1>2, <1>3, <1>4, <1>5, <1>6, <1>7, <1>8 DEF DeployStep

\* A step of a rollback.
LEMMA RollbackStepRefines ==
  ASSUME CutoverInv, NEW p \in Operators, RollbackStep(p)
  PROVE  [Promise!Next]_Promise!cutovervars
<1> USE NoVersionAssumption, HostAssumption
<1> USE DEF CutoverInv, BaseInv, LinkInv, LinkTypeOK, CommandTypeOK, Step,
            MutualExclusion, CallsOfCommands, VersionsKnown, InCall,
            TargetFollows, FromFollows, OnTarget, hostvars,
            Promise!cutovervars, Phase, PhaseOf, Holder, HasSwitched, Undoing,
            Switched, Base, Goal
<1>1. CASE RollbackValidate(p)
  BY <1>1 DEF RollbackValidate, smvars, links, smcalls, Promise!Next, Promise!Abort
<1>2. CASE RollbackSwitch(p)
  BY <1>2 DEF RollbackSwitch, SetCurrent, Goto, links, InSetCurrent
<1>3. CASE RollbackSwitched(p)
  BY <1>3 DEF RollbackSwitched, Return, LeaveCall, links, LinksFollow
<1>4. CASE RollbackRestart(p)
  BY <1>4 DEF RollbackRestart, RestoreOrFail, smvars, links, smcalls,
              Promise!Next, Promise!Abort
<1>5. CASE RollbackHealth(p)
  BY <1>5 DEF RollbackHealth, RestoreOrFail, smvars, links, smcalls,
              Promise!Next, Promise!Abort, Promise!Commit
<1>6. CASE RollbackRestore(p)
  BY <1>6 DEF RollbackRestore, SetCurrent, Goto, links, InSetCurrent
<1>7. CASE RollbackRestored(p)
  BY <1>7 DEF RollbackRestored, Return, LeaveCall, links, Returned, InSetCurrent
<1> QED
  BY <1>1, <1>2, <1>3, <1>4, <1>5, <1>6, <1>7 DEF RollbackStep

\* A file-system call on a link: the rename of the command's own switch
\* switches, the rename that undoes it aborts, the others are invisible.
LEMMA LinkStepRefines ==
  ASSUME LinksDoNotFail, CutoverInv, NEW p \in Operators, LinkStep(p),
         UNCHANGED <<hostvars, opvars>>
  PROVE  [Promise!Next]_Promise!cutovervars
<1> USE NoVersionAssumption, HostAssumption
<1> USE DEF LinksDoNotFail, CutoverInv, BaseInv, LinkInv, LinkTypeOK,
            TempLinkIsMine, CommandTypeOK, MutualExclusion, CallsOfCommands,
            VersionsKnown, InCall, TargetFollows, FromFollows, LinksFollow,
            hostvars, opvars, Goto, Promise!cutovervars, Phase, PhaseOf, Holder,
            HasSwitched, Undoing, Switched, Base, Goal, InSetCurrent,
            InRollbackCurrent
<1>1. CASE SetDropPrevious(p) \/ SetLinkPrevious(p) \/ SetDropTemp(p)
  BY <1>1 DEF SetDropPrevious, SetLinkPrevious, SetDropTemp
<1>2. CASE SetLinkTemp(p)
  BY <1>2 DEF SetLinkTemp, CanSymlink
<1>3. CASE SetRename(p)
  BY <1>3 DEF SetRename, Promise!Next, Promise!Switch, Promise!Abort
<1>4. CASE RbDropTemp(p) \/ RbDropPrevious(p) \/ RbLinkPrevious(p)
  BY <1>4 DEF RbDropTemp, RbDropPrevious, RbLinkPrevious
<1>5. CASE RbLinkTemp(p)
  BY <1>5 DEF RbLinkTemp, CanSymlink
<1>6. CASE RbRename(p)
  BY <1>6 DEF RbRename, Promise!Next, Promise!Abort
<1> QED
  BY <1>1, <1>2, <1>3, <1>4, <1>5, <1>6 DEF LinkStep

\* Every step of the system maps to a step of Cutover or to a stutter.
LEMMA NextRefines ==
  ASSUME LinksDoNotFail
  PROVE  CutoverInv /\ [Next]_vars => [Promise!Next]_Promise!cutovervars
<1> SUFFICES ASSUME CutoverInv, [Next]_vars
             PROVE  [Promise!Next]_Promise!cutovervars
  OBVIOUS
<1> USE HostAssumption
<1> USE DEF CutoverInv, BaseInv, HostTypeOK, CommandTypeOK, MutualExclusion
<1>1. CASE UNCHANGED vars
  BY <1>1, PhaseStutters DEF vars, smvars, smcalls, links, hostvars, opvars
<1>2. ASSUME NEW p \in Operators, Command(p)
      PROVE  Promise!Open
  BY <1>2
  DEF Command, DeployBegin, RollbackBegin, Step, Acquire, Phase, PhaseOf, Holder,
      HasSwitched, Undoing, Switched, Base, Goal, smvars, smcalls, links,
      Promise!Open
<1>3. ASSUME NEW p \in Operators, Finish(p) \/ Kill(p)
      PROVE  Promise!Close
  BY <1>3
  DEF Finish, Kill, LeaveCall, Unlock, Phase, PhaseOf, Holder, HasSwitched,
      Undoing, Switched, Base, Goal, smvars, smcalls, links, Promise!Close
<1>4. ASSUME NEW p \in Operators, Progress(p)
      PROVE  [Promise!Next]_Promise!cutovervars
  BY <1>3, <1>4, DeployStepRefines, RollbackStepRefines, LinkStepRefines
  DEF Progress, Promise!Next
<1>5. ASSUME NEW q \in Pruners, PruneNext(q) \/ PruneAbandoned(q)
      PROVE  UNCHANGED Promise!cutovervars
  BY <1>5, PhaseStutters
  DEF PruneNext, PruneReadCurrent, PruneReadPrevious, PruneList, PruneRemove,
      PruneEnd, PruneAbandoned, hostvars, opvars, smvars, smcalls, links
<1>6. CASE Service
  BY <1>6, PhaseStutters
  DEF Service, ServiceExits, SystemdRestarts, ServiceWrites, opvars, smcalls, links
<1> QED
  BY <1>1, <1>2, <1>3, <1>4, <1>5, <1>6 DEF Next, Promise!Next

\* Where the calls on links do not fail, deploy and rollback implement
\* Cutover: one command at a time switches `current` at most once, and commits
\* or goes back, with any other fault, kills at any step, and any pruners.
THEOREM AllOrNothingHolds ==
  ASSUME LinksDoNotFail
  PROVE  Spec => AllOrNothing
<1> QED
  BY InitCutover, NextCutoverInv, InitRefines, NextRefines, PTL
  DEF Spec, AllOrNothing, Promise!Spec


-----------------------------------------------------------------------------
(* What a removal spares                                                   *)

\* RemoveAll, even one that fails half-way, touches its own release only.
LEMMA RemoveAllSpares ==
  ASSUME HostTypeOK, NEW v \in Versions, RemoveAll(v), NEW w \in Versions, w # v
  PROVE  /\ w \in dirs <=> w \in dirs'
         /\ w \in binaries <=> w \in binaries'
         /\ w \in torn <=> w \in torn'
         /\ db'[w] = db[w]
  BY DEF HostTypeOK, RemoveAll, SetDb, DbStates

\* A pruning loop is never given a protected release.
LEMMA PruneVictimsSpare ==
  ASSUME NEW S, NEW P, NEW n, NEW V \in PruneVictims(S, P, n)
  PROVE  V \cap P = {}
  BY DEF PruneVictims

-----------------------------------------------------------------------------
(* ReleasesInv is inductive                                                *)

LEMMA InitReleases == Init => ReleasesInv
<1> SUFFICES ASSUME Init PROVE ReleasesInv
  OBVIOUS
<1>1. TargetFollows
  BY DEF Init, TargetFollows, OnTarget, Restarted
<1>2. ReleasesFollow
  BY DEF Init, LinkInit, ReleasesFollow, Unpacked, Checked, MayRestore,
         Unswitched, InSetCurrent, InRollbackCurrent
<1> QED
  BY InitBase, <1>1, <1>2 DEF ReleasesInv

\* A step of a deploy keeps ReleasesFollow.
LEMMA DeployStepReleases ==
  ASSUME ReleasesInv, NEW p \in Operators, DeployStep(p)
  PROVE  ReleasesFollow'
<1> USE NoVersionAssumption
<1> USE DEF ReleasesInv, BaseInv, LinkInv, LinkTypeOK, HostTypeOK, CommandTypeOK,
            Step, MutualExclusion, CallsOfCommands, VersionsKnown, InCall,
            TargetFollows, ReleasesFollow, Unpacked, Checked, MayRestore,
            Unswitched, MaybeVersion, hostvars, files, smvars, smcalls, links
<1>0. \A q \in Operators : q # p => pc[q] = "idle"
  BY DEF DeployStep, DeployFetch, DeployExtract, DeployCheckBinary, DeployCopyDb,
         DeployCopyDbRest, DeployPreflight, DeployCleanup, DeployCutover,
         DeploySwitched, DeployRestart, DeployHealth, DeployRollback,
         DeployRolledBack, DeployRestartOld, DeployRecord, DeployList, DeployPrune,
         DeployPruned
<1>1. CASE DeployFetch(p) \/ DeployPreflight(p)
  BY <1>1 DEF DeployFetch, DeployPreflight
<1>2. CASE DeployExtract(p)
  BY <1>2 DEF DeployExtract, MkdirAll
<1>3. CASE DeployCheckBinary(p)
  BY <1>3 DEF DeployCheckBinary
<1>4. CASE DeployCopyDb(p) \/ DeployCopyDbRest(p)
  BY <1>4 DEF DeployCopyDb, DeployCopyDbRest, MkdirAll
<1>5. CASE DeployCleanup(p)
  <2>1. \A w \in Versions : w # target[p] => (w \in binaries <=> w \in binaries')
    BY <1>5, RemoveAllSpares DEF DeployCleanup
  <2>2. /\ pc[p] = "cleanup" /\ pc' = [pc EXCEPT ![p] = "failed"]
        /\ target[p] \in Versions /\ target[p] \notin {current, previous}
        /\ UNCHANGED <<current, previous, smpc, doomed>>
    BY <1>5 DEF DeployCleanup
  <2>3. \A q \in Operators : smpc[q] = "idle"
    BY <1>0, <2>2
  <2>4. Unpacked(current)' /\ Unpacked(previous)'
    BY <2>1, <2>2
  <2> QED
    BY <1>0, <2>2, <2>3, <2>4 DEF InSetCurrent, InRollbackCurrent
<1>6. CASE DeployCutover(p)
  BY <1>6 DEF DeployCutover, SetCurrent, Goto, InSetCurrent, InRollbackCurrent
<1>7. CASE DeploySwitched(p)
  BY <1>7 DEF DeploySwitched, Return, LeaveCall, InSetCurrent, InRollbackCurrent
<1>8. CASE DeployRestart(p) \/ DeployHealth(p) \/ DeployRecord(p)
           \/ DeployPruned(p) \/ DeployRestartOld(p)
  BY <1>8 DEF DeployRestart, DeployHealth, DeployRecord, DeployPruned,
              DeployRestartOld
<1>9. CASE DeployRollback(p)
  BY <1>9
  DEF DeployRollback, RollbackCurrent, Goto, InSetCurrent, InRollbackCurrent
<1>10. CASE DeployRolledBack(p)
  BY <1>10 DEF DeployRolledBack, Return, LeaveCall, InSetCurrent, InRollbackCurrent
<1>11. CASE DeployList(p)
  BY <1>11, PruneVictimsSpare DEF DeployList
<1>12. CASE DeployPrune(p)
  <2>1. PICK v \in doomed[p] : /\ RemoveAll(v)
                               /\ doomed' = [doomed EXCEPT ![p] = @ \ {v}]
    BY <1>12 DEF DeployPrune, RemoveNextDoomed
  <2>2. v \in Versions /\ v \notin {current, previous} /\ pc[p] = "pruning"
    BY <2>1
  <2>3. \A w \in Versions : w # v => (w \in binaries <=> w \in binaries')
    BY <2>1, <2>2, RemoveAllSpares
  <2>4. /\ pc' = pc /\ smpc' = smpc /\ current' = current /\ previous' = previous
        /\ \A q \in Operators : smpc[q] = "idle" /\ doomed'[q] \subseteq doomed[q]
    BY <1>0, <1>12, <2>1, <2>2 DEF DeployPrune
  <2>5. Unpacked(current)' /\ Unpacked(previous)'
    BY <2>2, <2>3, <2>4
  <2> QED
    BY <1>0, <2>2, <2>4, <2>5 DEF InSetCurrent, InRollbackCurrent
<1> QED
  BY <1>1, <1>2, <1>3, <1>4, <1>5, <1>6, <1>7, <1>8, <1>9, <1>10, <1>11, <1>12
  DEF DeployStep

\* So does a step of a rollback.
LEMMA RollbackStepReleases ==
  ASSUME ReleasesInv, NEW p \in Operators, RollbackStep(p)
  PROVE  ReleasesFollow'
<1> USE NoVersionAssumption
<1> USE DEF ReleasesInv, BaseInv, LinkInv, LinkTypeOK, HostTypeOK, CommandTypeOK,
            Step, MutualExclusion, CallsOfCommands, VersionsKnown, InCall,
            TargetFollows, ReleasesFollow, Unpacked, Checked, MayRestore,
            Unswitched, MaybeVersion, hostvars, files, smvars, smcalls, links
<1>1. CASE RollbackValidate(p)
  BY <1>1 DEF RollbackValidate, Deployed
<1>2. CASE RollbackSwitch(p)
  BY <1>2 DEF RollbackSwitch, SetCurrent, Goto, InSetCurrent, InRollbackCurrent
<1>3. CASE RollbackSwitched(p)
  BY <1>3 DEF RollbackSwitched, Return, LeaveCall, InSetCurrent, InRollbackCurrent
<1>4. CASE RollbackRestart(p) \/ RollbackHealth(p)
  BY <1>4 DEF RollbackRestart, RollbackHealth, RestoreOrFail
<1>5. CASE RollbackRestore(p)
  BY <1>5 DEF RollbackRestore, SetCurrent, Goto, InSetCurrent, InRollbackCurrent
<1>6. CASE RollbackRestored(p)
  BY <1>6 DEF RollbackRestored, Return, LeaveCall, InSetCurrent, InRollbackCurrent
<1> QED
  BY <1>1, <1>2, <1>3, <1>4, <1>5, <1>6 DEF RollbackStep

\* So does a file-system call on a link.
LEMMA LinkStepReleases ==
  ASSUME ReleasesInv, NEW p \in Operators, LinkStep(p),
         UNCHANGED <<hostvars, opvars>>
  PROVE  ReleasesFollow'
<1> USE NoVersionAssumption
<1> USE DEF ReleasesInv, BaseInv, LinkInv, LinkTypeOK, OneCallAtATime,
            TempLinkIsMine, CommandTypeOK, MutualExclusion, CallsOfCommands,
            VersionsKnown, InCall, TargetFollows, ReleasesFollow, Unpacked,
            Checked, MayRestore, Unswitched, MaybeVersion, hostvars, files, opvars,
            Goto, InSetCurrent, InRollbackCurrent
<1>1. CASE SetDropPrevious(p)
  BY <1>1 DEF SetDropPrevious, Remove
<1>2. CASE SetLinkPrevious(p)
  BY <1>2 DEF SetLinkPrevious, TrySymlink
<1>3. CASE SetDropTemp(p) \/ SetLinkTemp(p)
  BY <1>3 DEF SetDropTemp, SetLinkTemp
<1>4. CASE SetRename(p)
  BY <1>4 DEF SetRename
<1>5. CASE RbDropTemp(p) \/ RbLinkTemp(p)
  BY <1>5 DEF RbDropTemp, RbLinkTemp
<1>6. CASE RbRename(p)
  BY <1>6 DEF RbRename
<1>7. CASE RbDropPrevious(p)
  BY <1>7 DEF RbDropPrevious, Remove
<1>8. CASE RbLinkPrevious(p)
  BY <1>8 DEF RbLinkPrevious, TrySymlink
<1> QED
  BY <1>1, <1>2, <1>3, <1>4, <1>5, <1>6, <1>7, <1>8 DEF LinkStep

\* ReleasesInv is inductive where only fresh releases are deployed.
LEMMA NextReleasesInv ==
  ASSUME OnlyFresh
  PROVE  ReleasesInv /\ [Next]_vars => ReleasesInv'
<1> SUFFICES ASSUME ReleasesInv, [Next]_vars
             PROVE  ReleasesInv'
  OBVIOUS
<1>1. BaseInv' /\ TargetFollows'
  BY NextBase, NextTargetFollows DEF ReleasesInv
<1>2. ReleasesFollow'
  <2> USE DEF ReleasesInv, BaseInv, LinkInv, LinkTypeOK, HostTypeOK, CommandTypeOK,
              MutualExclusion, CallsOfCommands, InCall, ReleasesFollow, Unpacked,
              Checked, MayRestore, Unswitched
  <2>1. CASE UNCHANGED vars
    BY <2>1 DEF vars, hostvars, files, opvars, smvars, smcalls, links
  <2>2. ASSUME NEW p \in Operators, Command(p)
        PROVE  ReleasesFollow'
    BY <2>2, HostAssumption
    DEF OnlyFresh, InScope, Command, DeployBegin, RollbackBegin, Step, Acquire,
        files, smvars, smcalls, links
  <2>3. ASSUME NEW p \in Operators, Finish(p)
        PROVE  ReleasesFollow'
    BY <2>3 DEF Finish, files, smvars, smcalls, links
  <2>4. ASSUME NEW p \in Operators, Progress(p)
        PROVE  ReleasesFollow'
    BY <2>3, <2>4, DeployStepReleases, RollbackStepReleases, LinkStepReleases
    DEF Progress
  <2>5. ASSUME NEW p \in Operators, Kill(p)
        PROVE  ReleasesFollow'
    BY <2>5 DEF Kill, LeaveCall, files, links, InSetCurrent, InRollbackCurrent
  <2>6. CASE Service
    BY <2>6
    DEF Service, ServiceExits, SystemdRestarts, ServiceWrites, files, opvars,
        smcalls, links
  <2> QED
    BY <2>1, <2>2, <2>4, <2>5, <2>6 DEF Next, OnlyFresh
<1> QED
  BY <1>1, <1>2 DEF ReleasesInv

-----------------------------------------------------------------------------
(* What follows                                                            *)

\* With any fault and kills at any step, neither link ever names a release
\* that cannot be started.
THEOREM LinkedCanStartHolds ==
  ASSUME OnlyFresh
  PROVE  Spec => []LinkedCanStart
<1>1. ReleasesInv => LinkedCanStart
  BY DEF ReleasesInv, ReleasesFollow, Unpacked, LinkedCanStart
<1> QED
  BY InitReleases, NextReleasesInv, <1>1, PTL DEF Spec

\* A step that removes something, or writes a database, leaves the releases
\* that the links name alone.
LEMMA NextSparesLinked ==
  ASSUME OnlyFresh, ReleasesInv, [Next]_vars,
         NEW v \in {current, previous} \cap Versions
  PROVE  /\ v \in dirs => v \in dirs'
         /\ db[v] = "live" => db'[v] = "live"
<1> USE DEF ReleasesInv, BaseInv, HostTypeOK, CommandTypeOK, VersionsKnown,
            ReleasesFollow, Unswitched, hostvars, files, SetDb, MkdirAll, Step
<1>1. CASE UNCHANGED vars
  BY <1>1 DEF vars
<1>2. ASSUME NEW p \in Operators, Command(p) \/ Finish(p) \/ Kill(p)
      PROVE  UNCHANGED files
  BY <1>2 DEF Command, DeployBegin, RollbackBegin, Finish, Kill
<1>3. ASSUME NEW p \in Operators, DeployStep(p)
      PROVE  /\ v \in dirs => v \in dirs'
             /\ db[v] = "live" => db'[v] = "live"
  <2>1. CASE DeployFetch(p) \/ DeployExtract(p) \/ DeployCopyDb(p)
             \/ DeployCopyDbRest(p) \/ DeployRecord(p)
    BY <2>1
    DEF DeployFetch, DeployExtract, DeployCopyDb, DeployCopyDbRest, DeployRecord
  <2>2. CASE DeployCleanup(p)
    BY <2>2, RemoveAllSpares DEF DeployCleanup
  <2>3. CASE DeployPrune(p)
    <3>1. PICK w \in doomed[p] : RemoveAll(w)
      BY <2>3 DEF DeployPrune, RemoveNextDoomed
    <3> QED
      BY <3>1, RemoveAllSpares
  <2>4. CASE DeployCheckBinary(p) \/ DeployPreflight(p) \/ DeployCutover(p)
             \/ DeploySwitched(p) \/ DeployRestart(p) \/ DeployHealth(p)
             \/ DeployRollback(p) \/ DeployRolledBack(p) \/ DeployRestartOld(p)
             \/ DeployList(p) \/ DeployPruned(p)
    BY <2>4
    DEF DeployCheckBinary, DeployPreflight, DeployCutover, DeploySwitched,
        DeployRestart, DeployHealth, DeployRollback, DeployRolledBack,
        DeployRestartOld, DeployList, DeployPruned
  <2> QED
    BY <1>3, <2>1, <2>2, <2>3, <2>4 DEF DeployStep
<1>4. ASSUME NEW p \in Operators, RollbackStep(p)
      PROVE  UNCHANGED files
  BY <1>4
  DEF RollbackStep, RollbackValidate, RollbackSwitch, RollbackSwitched,
      RollbackRestart, RollbackHealth, RollbackRestore, RollbackRestored
<1>5. ASSUME NEW p \in Operators, Progress(p)
      PROVE  /\ v \in dirs => v \in dirs'
             /\ db[v] = "live" => db'[v] = "live"
  BY <1>2, <1>3, <1>4, <1>5 DEF Progress
<1>6. CASE Service
  BY <1>6 DEF Service, ServiceExits, SystemdRestarts, ServiceWrites
<1> QED
  BY <1>1, <1>2, <1>5, <1>6 DEF Next, OnlyFresh

\* "The tool never deletes the releases referenced by `current` or
\* `previous`": true of every step, with any fault, while operators deploy
\* only fresh releases and nobody prunes.
THEOREM LinkedReleaseStaysHolds ==
  ASSUME OnlyFresh
  PROVE  Spec => LinkedReleaseStays
<1>1. ReleasesInv /\ [Next]_vars =>
        [\A v \in {current, previous} : v \in dirs => v \in dirs']_vars
  BY NextSparesLinked DEF ReleasesInv, BaseInv, HostTypeOK
<1> QED
  BY InitReleases, NextReleasesInv, <1>1, PTL DEF Spec, LinkedReleaseStays

\* Under the same assumptions no step damages the data of a linked release.
THEOREM LinkedDataStaysHolds ==
  ASSUME OnlyFresh
  PROVE  Spec => LinkedDataStays
<1>1. ReleasesInv /\ [Next]_vars =>
        [\A v \in {current, previous} \cap Versions :
           db[v] = "live" => db'[v] = "live"]_vars
  BY NextSparesLinked
<1> QED
  BY InitReleases, NextReleasesInv, <1>1, PTL DEF Spec, LinkedDataStays

-----------------------------------------------------------------------------
(* What a deploy has extracted stays whole                                 *)

LEMMA InitMade == Init => MadeInv
  BY InitBase DEF Init, MadeInv, MadeFollow, Extracted

\* A step of a deploy keeps MadeFollow.
LEMMA DeployStepMade ==
  ASSUME MadeInv, NEW p \in Operators, DeployStep(p)
  PROVE  MadeFollow'
<1> USE NoVersionAssumption
<1> USE DEF MadeInv, BaseInv, HostTypeOK, CommandTypeOK, Step, MutualExclusion,
            VersionsKnown, MadeFollow, Extracted, HalfMade, hostvars, files,
            MkdirAll
<1>0. \A q \in Operators : q # p => pc[q] = "idle"
  BY DEF DeployStep, DeployFetch, DeployExtract, DeployCheckBinary, DeployCopyDb,
         DeployCopyDbRest, DeployPreflight, DeployCleanup, DeployCutover,
         DeploySwitched, DeployRestart, DeployHealth, DeployRollback,
         DeployRolledBack, DeployRestartOld, DeployRecord, DeployList, DeployPrune,
         DeployPruned
<1>1. CASE DeployFetch(p) \/ DeployExtract(p) \/ DeployCheckBinary(p)
  BY <1>0, <1>1 DEF DeployFetch, DeployExtract, DeployCheckBinary
<1>2. CASE DeployCopyDb(p) \/ DeployCopyDbRest(p) \/ DeployPreflight(p)
  BY <1>0, <1>2 DEF DeployCopyDb, DeployCopyDbRest, DeployPreflight
<1>3. CASE DeployCleanup(p) \/ DeployPrune(p)
  BY <1>0, <1>3 DEF DeployCleanup, DeployPrune
<1>4. CASE DeployCutover(p) \/ DeploySwitched(p) \/ DeployRollback(p)
           \/ DeployRolledBack(p)
  BY <1>0, <1>4 DEF DeployCutover, DeploySwitched, DeployRollback, DeployRolledBack
<1>5. CASE DeployRestart(p) \/ DeployHealth(p) \/ DeployRestartOld(p)
           \/ DeployRecord(p) \/ DeployList(p) \/ DeployPruned(p)
  BY <1>0, <1>5
  DEF DeployRestart, DeployHealth, DeployRestartOld, DeployRecord, DeployList,
      DeployPruned
<1> QED
  BY <1>1, <1>2, <1>3, <1>4, <1>5 DEF DeployStep

LEMMA NextMade ==
  ASSUME Pruners = {}
  PROVE  MadeInv /\ [Next]_vars => MadeInv'
<1> SUFFICES ASSUME MadeInv, [Next]_vars
             PROVE  MadeInv'
  OBVIOUS
<1>1. ASSUME UNCHANGED <<pc, target, binaries, torn>>
      PROVE  MadeFollow'
  BY <1>1 DEF MadeInv, MadeFollow
<1>2. ASSUME NEW p \in Operators, Command(p) \/ Finish(p) \/ Kill(p)
      PROVE  MadeFollow'
  BY <1>2
  DEF MadeInv, BaseInv, CommandTypeOK, MadeFollow, Extracted, Command, DeployBegin,
      RollbackBegin, Finish, Kill, Step, files
<1>3. ASSUME NEW p \in Operators, RollbackStep(p)
      PROVE  MadeFollow'
  BY <1>3
  DEF MadeInv, BaseInv, CommandTypeOK, MadeFollow, Extracted, RollbackStep,
      RollbackValidate, RollbackSwitch, RollbackSwitched, RollbackRestart,
      RollbackHealth, RollbackRestore, RollbackRestored, RestoreOrFail, Step,
      hostvars, files
<1>4. ASSUME NEW p \in Operators, Progress(p)
      PROVE  MadeFollow'
  <2>1. CASE LinkStep(p) /\ UNCHANGED <<hostvars, opvars>>
    BY <1>1, <2>1 DEF hostvars, opvars, files
  <2>2. CASE DeployStep(p)
    BY <2>2, DeployStepMade
  <2> QED
    BY <1>2, <1>3, <1>4, <2>1, <2>2 DEF Progress
<1>5. ASSUME Service
      PROVE  MadeFollow'
  BY <1>1, <1>5
  DEF Service, ServiceExits, SystemdRestarts, ServiceWrites, opvars, files
<1>6. ASSUME UNCHANGED vars
      PROVE  MadeFollow'
  BY <1>1, <1>6 DEF vars, hostvars, opvars, files
<1> QED
  BY <1>2, <1>4, <1>5, <1>6, NextBase DEF Next, MadeInv

-----------------------------------------------------------------------------
(* Half-made releases                                                      *)

\* Where no prune runs beside it, a step that makes a release half made is one
\* of a deploy that has yet to see to it, or a removal that fails; and a deploy
\* leaves a half-made release to nobody.
LEMMA NextTends ==
  ASSUME Pruners = {}, MadeInv, AllTended, [Next]_vars, ~AllTended'
  PROVE  \E p \in Operators : (Kill(p) /\ pc[p] \in Tending) \/ FailsToRemove(p)
<1> USE NoVersionAssumption
<1> USE DEF MadeInv, BaseInv, HostTypeOK, CommandTypeOK, MadeFollow, Extracted,
            AllTended, Tending, HalfMade, files
<1>1. CASE UNCHANGED vars
  BY <1>1 DEF vars, hostvars, opvars
<1>2. ASSUME NEW p \in Operators, Command(p) \/ Finish(p)
      PROVE  FALSE
  BY <1>2 DEF Command, DeployBegin, RollbackBegin, Finish, Step
<1>3. ASSUME NEW p \in Operators, Kill(p)
      PROVE  pc[p] \in Tending
  BY <1>3 DEF Kill
<1>4. ASSUME NEW p \in Operators, DeployStep(p)
      PROVE  FailsToRemove(p)
  <2> USE DEF Step, MutualExclusion, VersionsKnown, hostvars, MkdirAll
  <2>0. \A q \in Operators : q # p => pc[q] = "idle"
    BY <1>4
    DEF DeployStep, DeployFetch, DeployExtract, DeployCheckBinary, DeployCopyDb,
        DeployCopyDbRest, DeployPreflight, DeployCleanup, DeployCutover,
        DeploySwitched, DeployRestart, DeployHealth, DeployRollback,
        DeployRolledBack, DeployRestartOld, DeployRecord, DeployList, DeployPrune,
        DeployPruned
  <2>1. CASE DeployFetch(p) \/ DeployExtract(p) \/ DeployCheckBinary(p)
    BY <2>0, <2>1 DEF DeployFetch, DeployExtract, DeployCheckBinary
  <2>2. CASE DeployCopyDb(p) \/ DeployCopyDbRest(p) \/ DeployRecord(p)
    BY <2>0, <2>2 DEF DeployCopyDb, DeployCopyDbRest, DeployRecord
  <2>3. CASE DeployCleanup(p)
    <3>1. /\ RemoveAll(target[p]) /\ target[p] \in Versions /\ pc[p] = "cleanup"
          /\ UNCHANGED target /\ pc' = [pc EXCEPT ![p] = "failed"]
      BY <2>3 DEF DeployCleanup
    <3>2. "removeall" \in Faults /\ target[p] \in HalfMade'
      <4> SUFFICES ASSUME ~("removeall" \in Faults /\ target[p] \in HalfMade')
                   PROVE  FALSE
        OBVIOUS
      <4>1. target[p] \notin HalfMade'
        BY <3>1 DEF RemoveAll
      <4>2. \A v \in Versions : v \in HalfMade' => v \in HalfMade /\ v # target[p]
        BY <3>1, <4>1, RemoveAllSpares
      <4> QED
        BY <2>0, <3>1, <4>2, RemoveAllType
    <3> QED
      BY <3>1, <3>2 DEF FailsToRemove
  <2>4. CASE DeployPrune(p)
    <3>1. PICK w \in doomed[p] : RemoveAll(w)
      BY <2>4 DEF DeployPrune, RemoveNextDoomed
    <3>2. pc[p] = "pruning" /\ UNCHANGED <<pc, target>> /\ w \in Versions
      BY <2>4, <3>1 DEF DeployPrune
    <3>3. "removeall" \in Faults /\ w \in HalfMade'
      <4> SUFFICES ASSUME ~("removeall" \in Faults /\ w \in HalfMade')
                   PROVE  FALSE
        OBVIOUS
      <4>1. w \notin HalfMade'
        BY <3>1 DEF RemoveAll
      <4>2. \A v \in Versions : v \in HalfMade' => v \in HalfMade
        BY <3>1, <3>2, <4>1, RemoveAllSpares
      <4> QED
        BY <3>1, <3>2, <4>2, RemoveAllType
    <3> QED
      BY <3>1, <3>2, <3>3 DEF FailsToRemove
  <2>5. CASE DeployPreflight(p) \/ DeployCutover(p) \/ DeploySwitched(p)
             \/ DeployRestart(p) \/ DeployHealth(p) \/ DeployRollback(p)
             \/ DeployRolledBack(p) \/ DeployRestartOld(p) \/ DeployList(p)
             \/ DeployPruned(p)
    BY <2>0, <2>5
    DEF DeployPreflight, DeployCutover, DeploySwitched, DeployRestart,
        DeployHealth, DeployRollback, DeployRolledBack, DeployRestartOld,
        DeployList, DeployPruned
  <2> QED
    BY <1>4, <2>1, <2>2, <2>3, <2>4, <2>5 DEF DeployStep
<1>5. ASSUME NEW p \in Operators, RollbackStep(p)
      PROVE  FALSE
  BY <1>5
  DEF RollbackStep, RollbackValidate, RollbackSwitch, RollbackSwitched,
      RollbackRestart, RollbackHealth, RollbackRestore, RollbackRestored, Step,
      hostvars
<1>6. ASSUME NEW p \in Operators, Progress(p)
      PROVE  FailsToRemove(p)
  BY <1>2, <1>4, <1>5, <1>6 DEF Progress, hostvars, opvars
<1>7. CASE Service
  BY <1>7 DEF Service, ServiceExits, SystemdRestarts, ServiceWrites, opvars
<1> QED
  BY <1>1, <1>2, <1>3, <1>6, <1>7 DEF Next

\* With any fault, kills at any step and any release deployed, only a kill of a
\* deploy that is at work on it, or a removal that fails, leaves a half-made
\* release behind.
THEOREM HalfMadeOnlyByFaultHolds ==
  ASSUME Pruners = {}
  PROVE  Spec => HalfMadeOnlyByFault
<1>1. MadeInv /\ [Next]_vars =>
        [AllTended /\ ~AllTended' =>
           \E p \in Operators :
             (Kill(p) /\ pc[p] \in Tending) \/ FailsToRemove(p)]_vars
  BY NextTends
<1> QED
  BY InitMade, NextMade, <1>1, PTL DEF Spec, HalfMadeOnlyByFault

-----------------------------------------------------------------------------
(* A deploy links whole releases                                           *)

LEMMA InitLinked == Init => LinkedInv
  BY InitReleases, InitMade
  DEF Init, LinkInit, LinkedInv, MadeInv, CallsFollow, InSetCurrent, InRollbackCurrent

\* Every step keeps CallsFollow: what a call is about to link is linked or whole.
LEMMA NextCallsFollow ==
  ASSUME OnlyFresh, LinkedInv, [Next]_vars
  PROVE  CallsFollow'
<1> USE NoVersionAssumption
<1> USE DEF CallsFollow, HalfMade, InSetCurrent, InRollbackCurrent
<1>1. ASSUME NEW p \in Operators, LinkStep(p), UNCHANGED <<hostvars, opvars>>
      PROVE  CallsFollow'
  BY <1>1
  DEF LinkedInv, ReleasesInv, BaseInv, LinkInv, LinkTypeOK, OneCallAtATime,
      hostvars, files,
      LinkStep, SetDropPrevious, SetLinkPrevious, SetDropTemp, SetLinkTemp,
      SetRename, RbDropTemp, RbLinkTemp, RbRename, RbDropPrevious, RbLinkPrevious,
      Goto
<1>2. ASSUME NEW p \in Operators, SetCurrent(p, target[p]) \/ SetCurrent(p, from[p]),
             UNCHANGED <<dirs, binaries, torn>>
      PROVE  CallsFollow'
  BY <1>2
  DEF LinkedInv, ReleasesInv, BaseInv, LinkInv, LinkTypeOK, SetCurrent, Goto, links
<1>3. ASSUME NEW p \in Operators, DeployRollback(p)
      PROVE  CallsFollow'
  BY <1>3
  DEF LinkedInv, ReleasesInv, BaseInv, LinkInv, LinkTypeOK, TargetFollows, OnTarget,
      MadeFollow, Extracted, DeployRollback, Step, RollbackCurrent, Goto, links,
      hostvars, files
<1>4. ASSUME NEW p \in Operators, LeaveCall(p), UNCHANGED <<dirs, binaries, torn>>
      PROVE  CallsFollow'
  BY <1>4 DEF LinkedInv, ReleasesInv, BaseInv, LinkInv, LinkTypeOK, LeaveCall, links
<1>5. ASSUME UNCHANGED smvars, UNCHANGED <<dirs, binaries, torn>>
      PROVE  CallsFollow'
  BY <1>5 DEF LinkedInv, smvars, smcalls, links
<1>6. ASSUME UNCHANGED smvars, \A q \in Operators : smpc[q] = "idle"
      PROVE  CallsFollow'
  BY <1>6 DEF LinkedInv, smvars, smcalls, links
<1>7. ASSUME NEW p \in Operators, DeployStep(p)
      PROVE  CallsFollow'
  <2> USE DEF hostvars, files
  <2>1. CASE DeployFetch(p) \/ DeployExtract(p) \/ DeployCheckBinary(p)
             \/ DeployCopyDb(p) \/ DeployCopyDbRest(p) \/ DeployCleanup(p)
             \/ DeployRecord(p) \/ DeployPrune(p)
    <3>1. pc[p] \in {"fetch", "extract", "checkBinary", "copyDb", "copyingDb",
                     "cleanup", "record", "pruning"} /\ UNCHANGED smvars
      BY <2>1
      DEF DeployFetch, DeployExtract, DeployCheckBinary, DeployCopyDb,
          DeployCopyDbRest, DeployCleanup, DeployRecord, DeployPrune, Step
    <3>2. \A q \in Operators : smpc[q] = "idle"
      BY <3>1
      DEF LinkedInv, ReleasesInv, BaseInv, MutualExclusion, CallsOfCommands, InCall
    <3> QED
      BY <1>6, <3>1, <3>2
  <2>2. CASE DeployCutover(p)
    BY <1>2, <2>2 DEF DeployCutover
  <2>3. CASE DeploySwitched(p) \/ DeployRolledBack(p)
    BY <1>4, <2>3 DEF DeploySwitched, DeployRolledBack, Return
  <2>4. CASE DeployPreflight(p) \/ DeployRestart(p) \/ DeployHealth(p)
             \/ DeployRestartOld(p) \/ DeployList(p) \/ DeployPruned(p)
    BY <1>5, <2>4
    DEF DeployPreflight, DeployRestart, DeployHealth, DeployRestartOld, DeployList,
        DeployPruned
  <2> QED
    BY <1>3, <1>7, <2>1, <2>2, <2>3, <2>4 DEF DeployStep
<1>8. ASSUME NEW p \in Operators, RollbackStep(p)
      PROVE  CallsFollow'
  <2> USE DEF hostvars, files
  <2>1. CASE RollbackSwitch(p) \/ RollbackRestore(p)
    BY <1>2, <2>1 DEF RollbackSwitch, RollbackRestore
  <2>2. CASE RollbackSwitched(p) \/ RollbackRestored(p)
    BY <1>4, <2>2 DEF RollbackSwitched, RollbackRestored, Return
  <2>3. CASE RollbackValidate(p) \/ RollbackRestart(p) \/ RollbackHealth(p)
    BY <1>5, <2>3 DEF RollbackValidate, RollbackRestart, RollbackHealth
  <2> QED
    BY <1>8, <2>1, <2>2, <2>3 DEF RollbackStep
<1>9. ASSUME NEW p \in Operators, Command(p) \/ Finish(p) \/ Kill(p)
      PROVE  CallsFollow'
  BY <1>4, <1>5, <1>9 DEF Command, DeployBegin, RollbackBegin, Finish, Kill, files
<1>10. ASSUME Service
       PROVE  CallsFollow'
  BY <1>5, <1>10
  DEF Service, ServiceExits, SystemdRestarts, ServiceWrites, files, smvars
<1>11. ASSUME UNCHANGED vars
       PROVE  CallsFollow'
  BY <1>5, <1>11 DEF vars, hostvars, files
<1> HIDE DEF CallsFollow, HalfMade, InSetCurrent, InRollbackCurrent
<1>12. ASSUME NEW p \in Operators, Progress(p)
       PROVE  CallsFollow'
  BY <1>1, <1>7, <1>8, <1>9, <1>12 DEF Progress
<1> QED
  BY <1>9, <1>10, <1>11, <1>12 DEF Next, OnlyFresh

LEMMA NextLinked ==
  ASSUME OnlyFresh
  PROVE  LinkedInv /\ [Next]_vars => LinkedInv'
<1> SUFFICES ASSUME LinkedInv, [Next]_vars
             PROVE  LinkedInv'
  OBVIOUS
<1>1. ReleasesInv'
  BY NextReleasesInv DEF LinkedInv
<1>2. MadeInv'
  BY NextMade DEF LinkedInv, MadeInv, ReleasesInv, OnlyFresh
<1>3. CallsFollow'
  BY NextCallsFollow
<1> QED
  BY <1>1, <1>2, <1>3 DEF LinkedInv, MadeInv

\* A file-system call of a deploy links what is linked already, or its own
\* whole release.
LEMMA LinkStepLinksWhole ==
  ASSUME LinkedInv, LinkedWhole, NEW p \in Operators, LinkStep(p),
         UNCHANGED <<hostvars, opvars>>, pc[p] \notin {"switchingBack", "restoring"}
  PROVE  LinkedWhole'
<1> USE NoVersionAssumption
<1>1. UNCHANGED <<dirs, binaries, torn>> /\ NoVersion \notin HalfMade
  BY DEF LinkedInv, ReleasesInv, BaseInv, HostTypeOK, HalfMade, hostvars, files
<1>2. /\ smpc[p] \in InSetCurrent => smver[p] \notin HalfMade
      /\ smpc[p] \in InSetCurrent \cup InRollbackCurrent => smold[p] \notin HalfMade
      /\ smpc[p] \in {"rbDropTemp", "rbLinkTemp", "rbRename"} => smver[p] \notin HalfMade
  BY DEF LinkedInv, ReleasesInv, BaseInv, CallsOfCommands, InCall, TargetFollows,
         MadeFollow, Extracted, CallsFollow, LinkedWhole, HalfMade, InSetCurrent,
         InRollbackCurrent
<1>3. /\ current' \in {current, smver[p]} /\ previous' \in {previous, smold[p], NoVersion}
      /\ current' # current => smpc[p] \in {"setRename", "rbRename"}
      /\ previous' \notin {previous, NoVersion} => smpc[p] \in {"setLinkPrevious", "rbLinkPrevious"}
  BY DEF LinkedInv, ReleasesInv, BaseInv, LinkInv, TempLinkIsMine, LinkStep,
         SetDropPrevious, SetLinkPrevious, SetDropTemp, SetLinkTemp, SetRename,
         RbDropTemp, RbLinkTemp, RbRename, RbDropPrevious, RbLinkPrevious, Remove,
         TrySymlink
<1> QED
  BY <1>1, <1>2, <1>3 DEF LinkedWhole, HalfMade, InSetCurrent, InRollbackCurrent

\* A step that leaves the links alone makes no linked release half made.
LEMMA NextKeepsLinkedWhole ==
  ASSUME OnlyFresh, LinkedInv, LinkedWhole, [Next]_vars, UNCHANGED links
  PROVE  LinkedWhole'
<1>0. ASSUME \A v \in {current, previous} \cap Versions :
               v \in HalfMade' => v \in HalfMade,
             HalfMade' \subseteq Versions
      PROVE  LinkedWhole'
  BY <1>0 DEF LinkedWhole, links
<1> USE DEF LinkedWhole, HalfMade, links
<1>1. ASSUME UNCHANGED files
      PROVE  LinkedWhole'
  BY <1>1 DEF files
<1>2. ASSUME NEW p \in Operators, DeployStep(p)
      PROVE  LinkedWhole'
  <2> USE NoVersionAssumption
  <2> USE DEF LinkedInv, ReleasesInv, BaseInv, HostTypeOK, CommandTypeOK, VersionsKnown,
              LinkInv, LinkTypeOK, MaybeVersion,
              ReleasesFollow, Unswitched, MkdirAll, Step
  <2>1. CASE DeployFetch(p) \/ DeployExtract(p) \/ DeployCopyDb(p)
    BY <2>1 DEF DeployFetch, DeployExtract, DeployCopyDb, files
  <2>2. CASE DeployRecord(p)
    BY <2>2 DEF DeployRecord, MadeFollow, Extracted
  <2>3. CASE DeployCleanup(p)
    <3>1. RemoveAll(target[p]) /\ target[p] \in Versions \ {current, previous}
      BY <2>3 DEF DeployCleanup
    <3> QED
      BY <1>0, <3>1, RemoveAllSpares, RemoveAllType
  <2>4. CASE DeployPrune(p)
    <3>1. PICK w \in doomed[p] : RemoveAll(w)
      BY <2>4 DEF DeployPrune, RemoveNextDoomed
    <3>2. w \in Versions \ {current, previous}
      BY <3>1
    <3> QED
      BY <1>0, <3>1, <3>2, RemoveAllSpares, RemoveAllType
  <2>5. CASE DeployCopyDbRest(p)
    BY <2>5 DEF DeployCopyDbRest
  <2>6. CASE DeployCheckBinary(p) \/ DeployPreflight(p) \/ DeployCutover(p)
             \/ DeploySwitched(p) \/ DeployRestart(p) \/ DeployHealth(p)
             \/ DeployRollback(p) \/ DeployRolledBack(p) \/ DeployRestartOld(p)
             \/ DeployList(p) \/ DeployPruned(p)
    BY <1>1, <2>6
    DEF DeployCheckBinary, DeployPreflight, DeployCutover, DeploySwitched,
        DeployRestart, DeployHealth, DeployRollback, DeployRolledBack,
        DeployRestartOld, DeployList, DeployPruned, hostvars
  <2> QED
    BY <1>2, <2>1, <2>2, <2>3, <2>4, <2>5, <2>6 DEF DeployStep
<1>3. ASSUME NEW p \in Operators, RollbackStep(p)
      PROVE  UNCHANGED files
  BY <1>3
  DEF RollbackStep, RollbackValidate, RollbackSwitch, RollbackSwitched,
      RollbackRestart, RollbackHealth, RollbackRestore, RollbackRestored, hostvars
<1>4. ASSUME NEW p \in Operators, Command(p) \/ Finish(p) \/ Kill(p)
      PROVE  UNCHANGED files
  BY <1>4 DEF Command, DeployBegin, RollbackBegin, Finish, Kill
<1>5. ASSUME NEW p \in Operators, Progress(p)
      PROVE  LinkedWhole'
  BY <1>1, <1>2, <1>3, <1>4, <1>5 DEF Progress, hostvars
<1>6. CASE Service
  BY <1>6 DEF Service, ServiceExits, SystemdRestarts, ServiceWrites, files
<1>7. CASE UNCHANGED vars
  BY <1>1, <1>7 DEF vars, hostvars
<1> QED
  BY <1>1, <1>4, <1>5, <1>6, <1>7 DEF Next, OnlyFresh

\* Only a call of the symlink manager moves a link.
LEMMA NextMovesLinks ==
  ASSUME OnlyFresh, [Next]_vars
  PROVE  \/ UNCHANGED links
         \/ \E p \in Operators : LinkStep(p) /\ UNCHANGED <<hostvars, opvars>>
<1> USE DEF smvars
<1>1. ASSUME NEW p \in Operators, DeployStep(p)
      PROVE  UNCHANGED links
  BY <1>1
  DEF DeployStep, DeployFetch, DeployExtract, DeployCheckBinary, DeployCopyDb,
      DeployCopyDbRest, DeployPreflight, DeployCleanup, DeployCutover,
      DeploySwitched, DeployRestart, DeployHealth, DeployRollback,
      DeployRolledBack, DeployRestartOld, DeployRecord, DeployList, DeployPrune,
      DeployPruned, SetCurrent, RollbackCurrent, Return, LeaveCall
<1>2. ASSUME NEW p \in Operators, RollbackStep(p)
      PROVE  UNCHANGED links
  BY <1>2
  DEF RollbackStep, RollbackValidate, RollbackSwitch, RollbackSwitched,
      RollbackRestart, RollbackHealth, RollbackRestore, RollbackRestored,
      SetCurrent, Return, LeaveCall
<1>3. ASSUME NEW p \in Operators, Command(p) \/ Finish(p) \/ Kill(p)
      PROVE  UNCHANGED links
  BY <1>3 DEF Command, DeployBegin, RollbackBegin, Finish, Kill, LeaveCall
<1>4. CASE Service \/ UNCHANGED vars
  BY <1>4 DEF Service, ServiceExits, SystemdRestarts, ServiceWrites, vars
<1> QED
  BY <1>1, <1>2, <1>3, <1>4 DEF Next, Progress, OnlyFresh

\* With any fault and kills at any step, while operators deploy only fresh
\* releases and nobody prunes, only a rollback makes a link name a half-made
\* release: a deploy has its own extracted to the end, and puts back what was
\* linked.
THEOREM DeployLinksWholeHolds ==
  ASSUME OnlyFresh
  PROVE  Spec => DeployLinksWhole
<1>1. LinkedInv /\ [Next]_vars =>
        [LinkedWhole /\ ~LinkedWhole' =>
           \E p \in Operators : pc[p] \in {"switchingBack", "restoring"}]_vars
  BY NextMovesLinks, LinkStepLinksWhole, NextKeepsLinkedWhole
<1> QED
  BY InitLinked, NextLinked, <1>1, PTL DEF Spec, DeployLinksWhole

-----------------------------------------------------------------------------
(* Half a database                                                         *)

\* RemoveAll that does not fail takes its database.
LEMMA RemoveAllRemoves ==
  ASSUME RemovalsComplete, HostTypeOK, NEW v \in Versions, RemoveAll(v)
  PROVE  /\ db'[v] = "absent"
         /\ \A w \in Versions : w # v => db'[w] = db[w]
  BY DEF RemovalsComplete, HostTypeOK, RemoveAll, SetDb

\* A step of a deploy keeps WholeFollow.
LEMMA DeployStepWhole ==
  ASSUME RemovalsComplete, WholeInv, NEW p \in Operators, DeployStep(p)
  PROVE  WholeFollow'
<1> USE NoVersionAssumption
<1> USE DEF WholeInv, BaseInv, LinkInv, LinkTypeOK, HostTypeOK, CommandTypeOK, Step,
            MutualExclusion, VersionsKnown, WholeFollow, Making, MaybeVersion, hostvars, files, smvars, smcalls, links, MkdirAll, SetDb
<1>0. \A q \in Operators : q # p => pc[q] = "idle"
  BY DEF DeployStep, DeployFetch, DeployExtract, DeployCheckBinary, DeployCopyDb,
         DeployCopyDbRest, DeployPreflight, DeployCleanup, DeployCutover,
         DeploySwitched, DeployRestart, DeployHealth, DeployRollback,
         DeployRolledBack, DeployRestartOld, DeployRecord, DeployList, DeployPrune,
         DeployPruned
<1>1. CASE DeployFetch(p)
  BY <1>0, <1>1 DEF DeployFetch
<1>2. CASE DeployExtract(p)
  BY <1>0, <1>2 DEF DeployExtract
<1>3. CASE DeployCheckBinary(p)
  BY <1>0, <1>3 DEF DeployCheckBinary
<1>4. CASE DeployCopyDb(p)
  BY <1>0, <1>4 DEF DeployCopyDb
<1>5. CASE DeployCopyDbRest(p)
  BY <1>0, <1>5 DEF DeployCopyDbRest
<1>6. CASE DeployPreflight(p)
  BY <1>0, <1>6 DEF DeployPreflight
<1>7. CASE DeployCleanup(p)
  BY <1>0, <1>7, RemoveAllRemoves, RemoveAllType DEF DeployCleanup
<1>8. CASE DeployCutover(p)
  BY <1>0, <1>8 DEF DeployCutover, SetCurrent
<1>9. CASE DeploySwitched(p) \/ DeployRolledBack(p)
  BY <1>0, <1>9 DEF DeploySwitched, DeployRolledBack, Return, LeaveCall
<1>10. CASE DeployRestart(p) \/ DeployHealth(p) \/ DeployRestartOld(p)
            \/ DeployList(p) \/ DeployPruned(p)
  BY <1>0, <1>10
  DEF DeployRestart, DeployHealth, DeployRestartOld, DeployList, DeployPruned
<1>11. CASE DeployRollback(p)
  BY <1>0, <1>11 DEF DeployRollback, RollbackCurrent
<1>12. CASE DeployRecord(p)
  BY <1>0, <1>12 DEF DeployRecord
<1>13. CASE DeployPrune(p)
  <2>1. PICK v \in doomed[p] : RemoveAll(v)
    BY <1>13 DEF DeployPrune, RemoveNextDoomed
  <2> QED
    BY <1>0, <1>13, <2>1, RemoveAllRemoves, RemoveAllType DEF DeployPrune
<1> QED
  BY <1>1, <1>2, <1>3, <1>4, <1>5, <1>6, <1>7, <1>8, <1>9, <1>10, <1>11, <1>12,
     <1>13
  DEF DeployStep

\* So does every other step; WholeInv is inductive.
LEMMA NextWholeInv ==
  ASSUME RemovalsComplete
  PROVE  WholeInv /\ [Next]_vars => WholeInv'
<1> SUFFICES ASSUME WholeInv, [Next]_vars
             PROVE  WholeInv'
  OBVIOUS
<1> USE DEF WholeInv
<1>1. CASE UNCHANGED vars
  BY <1>1, NextBase
  DEF WholeFollow, vars, hostvars, files, opvars, smvars, links
<1>2. ASSUME NEW p \in Operators, Command(p)
      PROVE  WholeFollow'
  BY <1>2
  DEF RemovalsComplete, BaseInv, HostTypeOK, CommandTypeOK, MutualExclusion,
      WholeFollow, Making, InScope, Command, DeployBegin,
      RollbackBegin, Step, Acquire, files, smvars, links
<1>3. ASSUME NEW p \in Operators, Finish(p)
      PROVE  WholeFollow'
  BY <1>3
  DEF BaseInv, CommandTypeOK, WholeFollow, Making, Finish, files,
      smvars, links
<1>4. ASSUME NEW p \in Operators, RollbackStep(p)
      PROVE  WholeFollow'
  BY <1>4
  DEF BaseInv, CommandTypeOK, WholeFollow, Making, RollbackStep,
      RollbackValidate, RollbackSwitch, RollbackSwitched, RollbackRestart,
      RollbackHealth, RollbackRestore, RollbackRestored, RestoreOrFail, Step,
      SetCurrent, Return, LeaveCall, hostvars, files, smvars, links
<1>5. ASSUME NEW p \in Operators, LinkStep(p), UNCHANGED <<hostvars, opvars>>
      PROVE  WholeFollow'
  BY <1>5, LinkStepStaysInCall
  DEF BaseInv, LinkInv, MutualExclusion, CallsOfCommands, InCall, WholeFollow,
      Making, hostvars, files, opvars
<1>6. ASSUME NEW p \in Operators, Progress(p)
      PROVE  WholeFollow'
  BY <1>3, <1>4, <1>5, <1>6, DeployStepWhole DEF Progress
<1>7. ASSUME Service
      PROVE  WholeFollow'
  <2>1. UNCHANGED <<current, pc, target, dirs, binaries>>
    BY <1>7
    DEF Service, ServiceExits, SystemdRestarts, ServiceWrites, files, opvars, links
  <2>2. db' = db \/ db' = [db EXCEPT ![running] = "live"]
    BY <1>7
    DEF Service, ServiceExits, SystemdRestarts, ServiceWrites, SetDb, files
  <2> QED
    BY <2>1, <2>2
    DEF BaseInv, LinkInv, LinkTypeOK, HostTypeOK, MaybeVersion, WholeFollow,
        Making
<1> QED
  BY <1>1, <1>2, <1>6, <1>7, NextBase DEF Next, Kill, RemovalsComplete

LEMMA InitWholeInv == Init => WholeInv
  BY InitBase
  DEF Init, HostInit, WholeInv, WholeFollow, Making

\* "Copies the current release database into the new release": a deploy that
\* goes on to its preflights and the cutover has a whole database, although a
\* copy may fail anywhere and a service writes beside it.
THEOREM CopyIsWholeHolds ==
  ASSUME RemovalsComplete
  PROVE  Spec => []CopyIsWhole
<1>1. WholeInv => CopyIsWhole
  <2> SUFFICES ASSUME WholeInv, NEW p \in Operators, pc[p] \in {"preflight", "cutover"},
                      db[target[p]] = "partial"
               PROVE  FALSE
    BY DEF CopyIsWhole
  <2> QED
    BY DEF WholeInv, BaseInv, CommandTypeOK, MutualExclusion, VersionsKnown,
           WholeFollow
<1> QED
  BY InitWholeInv, NextWholeInv, <1>1, PTL DEF Spec
=============================================================================
