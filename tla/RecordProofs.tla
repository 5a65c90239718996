---------------------------- MODULE RecordProofs ----------------------------
(***************************************************************************)
(* Proofs about the files that the commands keep: that every line of the   *)
(* history log is one of a release and the last line tells which one is    *)
(* current, and that the service runs with the runtime.env that the deploy *)
(* has put in place.  What the commands do to the links comes from         *)
(* CutoverProofs, by the refinement of Cutover.                            *)
(***************************************************************************)
EXTENDS Records, CutoverProofs

\* The command in progress has succeeded and written its line.
Recorded == Phase = "committed" /\ pc[lock] # "record"

\* Along a command the last line names the release to go back to, and from
\* the command's own line on the release that is current.
LogFollows ==
  log # << >> /\ ~interrupted =>
    log[Len(log)].to = IF Recorded THEN current ELSE Base

\* The part of RecordsTypeOK that the proof needs.
LogTypeOK == log \in Seq(Entries) /\ interrupted \in BOOLEAN

RecordsInv == CutoverInv /\ LogTypeOK /\ LogFollows

\* Where a deploy has put the config it read in place, and not given up.
Placed ==
  {"cutover", "switching", "restart", "health", "rollback", "record", "list",
   "pruning"}

\* Nobody but the command in progress writes runtime.env, so that what it put
\* there is there when its service starts, and when systemd starts it again.
ConfigFollows ==
  \A p \in Operators :
    /\ pc[p] \in Placed => runtimeEnv = config[p]
    /\ pc[p] \in Restarted /\ running # NoVersion => servedEnv = runtimeEnv

\* The rest of RecordsTypeOK.
ConfigTypeOK ==
  /\ runtimeEnv \in MaybeConfig
  /\ servedEnv \in MaybeConfig
  /\ config \in [Operators -> MaybeConfig]

-----------------------------------------------------------------------------
(* The records are kept beside the commands and change nothing for them.   *)

LEMMA RecordsNextIsNext == [RecordsNext]_<<vars, recvars>> => [Next]_vars
  BY DEF RecordsNext, RecordsProgress, RecordsKill, RecordsService, Next

\* With the files of this module a command still behaves as SvcDeploy says,
\* so that whatever is proved of Spec holds here.
THEOREM RecordsAreCommands == RecordsSpec => Spec
<1>1. RecordsInit => Init
  BY DEF RecordsInit
<1> QED
  BY <1>1, RecordsNextIsNext, PTL DEF RecordsSpec, Spec

-----------------------------------------------------------------------------
(* The types                                                               *)

LEMMA PrefixesAreLogs ==
  ASSUME NEW s \in Seq(Entries), NEW t \in Prefixes(s)
  PROVE  t \in Seq(Entries)
<1>1. PICK n \in 0 .. Len(s) : t = SubSeq(s, 1, n)
  BY DEF Prefixes
<1> QED
  BY <1>1

LEMMA NextLogTypes ==
  ASSUME BaseInv, LogTypeOK, [RecordsNext]_<<vars, recvars>>
  PROVE  LogTypeOK'
<1> USE DEF LogTypeOK, recvars, recfiles
<1>1. CASE UNCHANGED recvars
  BY <1>1
<1>2. ASSUME NEW p \in Operators, RecordsProgress(p)
      PROVE  LogTypeOK'
  <2>1. ASSUME NEW e \in Entries, AppendHistory(e)
        PROVE  LogTypeOK'
    <3>1. <<e>> \in Seq(Entries) /\ Append(log, e) \in Seq(Entries)
      OBVIOUS
    <3>2. log' \in Seq(Entries)
      BY <2>1, <3>1, PrefixesAreLogs DEF AppendHistory, AppendToLog
    <3> QED
      BY <2>1, <3>2 DEF AppendHistory
  <2>2. pc[p] \in {"record", "healthTarget"} =>
          DeployEntry(p) \in Entries /\ RollbackEntry(p) \in Entries
    BY DEF BaseInv, VersionsKnown, CommandTypeOK, DeployEntry, RollbackEntry,
           Entries
  <2> QED
    BY <1>2, <2>1, <2>2
    DEF RecordsProgress, SetupAndPreflight, Restarts
<1>3. ASSUME NEW p \in Operators, RecordsKill(p)
      PROVE  LogTypeOK'
  BY <1>3, PrefixesAreLogs DEF RecordsKill
<1>4. CASE RecordsService
  BY <1>4 DEF RecordsService
<1> QED
  BY <1>1, <1>2, <1>3, <1>4 DEF RecordsNext

\* What the commands put into runtime.env and the service takes from it.
LEMMA NextConfigTypes ==
  ASSUME ConfigTypeOK, [RecordsNext]_<<vars, recvars>>
  PROVE  ConfigTypeOK'
<1> USE DEF ConfigTypeOK, MaybeConfig, recvars, recfiles
<1>1. CASE UNCHANGED recvars
  BY <1>1
<1>2. ASSUME NEW p \in Operators, RecordsProgress(p)
      PROVE  ConfigTypeOK'
  <2>1. CASE SetupAndPreflight(p)
    BY <2>1 DEF SetupAndPreflight, PlaceConfig
  <2>2. CASE Restarts(p)
    BY <2>2 DEF Restarts
  <2>3. ASSUME NEW e, AppendHistory(e)
        PROVE  ConfigTypeOK'
    BY <2>3 DEF AppendHistory
  <2> QED
    BY <1>1, <1>2, <2>1, <2>2, <2>3 DEF RecordsProgress, Forget
<1>3. ASSUME NEW p \in Operators, RecordsKill(p)
      PROVE  ConfigTypeOK'
  BY <1>3 DEF RecordsKill, Forget
<1>4. CASE RecordsService
  BY <1>4 DEF RecordsService
<1> QED
  BY <1>1, <1>2, <1>3, <1>4 DEF RecordsNext

LEMMA InitRecordTypes == RecordsInit => BaseInv /\ LogTypeOK /\ ConfigTypeOK
<1> SUFFICES ASSUME RecordsInit PROVE BaseInv /\ LogTypeOK /\ ConfigTypeOK
  OBVIOUS
<1>1. BaseInv
  BY InitBase DEF RecordsInit
<1>2. LogTypeOK
  <2>1. << >> \in Seq(Entries)
    OBVIOUS
  <2>2. log \in Seq(Entries)
    BY <2>1 DEF RecordsInit
  <2>3. interrupted \in BOOLEAN
    BY Zenon DEF RecordsInit
  <2> QED
    BY <2>2, <2>3 DEF LogTypeOK
<1>3. ConfigTypeOK
  BY DEF RecordsInit, ConfigTypeOK, MaybeConfig
<1> QED
  BY <1>1, <1>2, <1>3

\* The types of the two files, whatever fails and is killed.
THEOREM RecordsTypesHold == RecordsSpec => []RecordsTypeOK
<1>1. BaseInv /\ LogTypeOK /\ ConfigTypeOK /\ [RecordsNext]_<<vars, recvars>>
        => (BaseInv /\ LogTypeOK /\ ConfigTypeOK)'
  BY RecordsNextIsNext, NextBase, NextLogTypes, NextConfigTypes
<1>2. LogTypeOK /\ ConfigTypeOK => RecordsTypeOK
  BY DEF LogTypeOK, ConfigTypeOK, RecordsTypeOK
<1> QED
  BY InitRecordTypes, <1>1, <1>2, PTL DEF RecordsSpec

-----------------------------------------------------------------------------
(* The last line                                                           *)

\* Where a step may take a command that is near its line or past it.
LEMMA ProgressNearLine ==
  ASSUME BaseInv, NEW p \in Operators, Progress(p)
  PROVE  /\ pc[p] # "idle"
         /\ \/ lock' = lock /\ pc'[p] # "idle"
            \/ lock' = NoOperator /\ pc[p] \in {"succeeded", "failed"}
         /\ pc[p] = "record" => pc'[p] = "list"
         /\ pc[p] = "healthTarget" => pc'[p] \in {"succeeded", "restore", "failed"}
         /\ pc[p] = "list" => pc'[p] \in {"pruning", "succeeded"}
         /\ pc[p] = "pruning" => pc'[p] \in {"pruning", "succeeded"}
         /\ pc[p] = "succeeded" => lock' = NoOperator
         /\ pc'[p] \in {"list", "pruning", "succeeded"} =>
              /\ pc[p] \in {"record", "healthTarget", "list", "pruning"}
              /\ UNCHANGED current
<1> USE DEF BaseInv, CommandTypeOK, Step, hostvars, opvars, smvars, links
<1>1. CASE DeployStep(p)
  BY <1>1
  DEF DeployStep, DeployFetch, DeployExtract, DeployCheckBinary, DeployCopyDb,
      DeployCopyDbRest, DeployPreflight, DeployCleanup, DeployCutover,
      DeploySwitched, DeployRestart, DeployHealth, DeployRollback,
      DeployRolledBack, DeployRestartOld, DeployRecord, DeployList, DeployPrune,
      DeployPruned
<1>2. CASE RollbackStep(p)
  BY <1>2
  DEF RollbackStep, RollbackValidate, RollbackSwitch, RollbackSwitched,
      RollbackRestart, RestoreOrFail, RollbackHealth, RollbackRestore,
      RollbackRestored
<1>3. CASE LinkStep(p) /\ UNCHANGED <<hostvars, opvars>>
  BY <1>3, LinkStepStaysInCall DEF LinkInv, CallsOfCommands, InCall
<1>4. CASE Finish(p)
  BY <1>4, HostAssumption DEF Finish, Unlock, MutualExclusion
<1> QED
  BY <1>1, <1>2, <1>3, <1>4 DEF Progress

\* The line of a command that succeeds names the release that is current.
LEMMA LineIsCurrent ==
  ASSUME CutoverInv, LogTypeOK, "writefile" \notin Faults,
         NEW e \in Entries, e.to = current, AppendHistory(e)
  PROVE  log'[Len(log')].to = current
<1>1. CASE log' = Append(log, e)
  BY <1>1 DEF LogTypeOK
<1>2. CASE log' = <<e>>
  BY <1>2
<1> QED
  BY <1>1, <1>2 DEF AppendHistory, AppendToLog

\* A step that leaves the log alone keeps the release it names: Base moves
\* only when a command is over, and then to the release that is current.
LEMMA LogStays ==
  ASSUME LogTypeOK, LogFollows, UNCHANGED <<log, interrupted>>,
         [Promise!Next]_Promise!cutovervars,
         Recorded' => Recorded /\ current' = current,
         Recorded => Recorded' \/ Phase' = "idle",
         Phase \in {"switched", "committed"} /\ Phase' = "idle" => Recorded \/ interrupted
  PROVE  LogFollows'
<1> SUFFICES ASSUME log # << >>, ~interrupted
             PROVE  log[Len(log)].to = IF Recorded' THEN current' ELSE Base'
  BY DEF LogFollows
<1> DEFINE last == log[Len(log)].to
<1>1. last \in Versions
  <2>1. log[Len(log)] \in Entries
    BY DEF LogTypeOK
  <2> QED
    BY <2>1 DEF Entries
<1>2. last = IF Recorded THEN current ELSE Base
  BY DEF LogFollows
<1> HIDE DEF last
<1> SUFFICES last = IF Recorded' THEN current' ELSE Base'
  BY DEF last
<1>3. CASE UNCHANGED Promise!cutovervars
  BY <1>2, <1>3 DEF Promise!cutovervars, Recorded
<1>4. CASE Promise!Open \/ Promise!Switch \/ Promise!Commit
  BY <1>2, <1>4 DEF Promise!Open, Promise!Switch, Promise!Commit, Recorded
<1>5. CASE Promise!Abort
  BY <1>1, <1>2, <1>5, NoVersionAssumption DEF Promise!Abort, Recorded
<1>6. CASE Promise!Close
  BY <1>2, <1>6 DEF Promise!Close, Recorded, Base, Switched
<1> QED
  BY <1>3, <1>4, <1>5, <1>6 DEF Promise!Next

\* Every step keeps the last line right, or is the kill that does not.
LEMMA NextLogFollows ==
  ASSUME LinksDoNotFail, "writefile" \notin Faults, RecordsInv,
         [RecordsNext]_<<vars, recvars>>
  PROVE  LogFollows'
<1>1. BaseInv /\ CutoverInv /\ LogTypeOK /\ LogFollows
  BY DEF RecordsInv, CutoverInv
<1>2. [Promise!Next]_Promise!cutovervars /\ CutoverInv'
  BY <1>1, RecordsNextIsNext, NextRefines, NextCutoverInv
<1>3. CASE UNCHANGED <<vars, recvars>>
  BY <1>1, <1>3
  DEF LogFollows, Recorded, Base, Switched, Phase, PhaseOf, Holder, HasSwitched,
      Undoing, vars, smvars, smcalls, links, hostvars, opvars, recvars, recfiles
<1>4. ASSUME NEW p \in Operators, Command(p), UNCHANGED recvars
      PROVE  LogFollows'
  <2>1. Phase = "idle" /\ Phase' = "open"
    BY <1>1, <1>4, HostAssumption
    DEF Command, DeployBegin, RollbackBegin, Step, Acquire, Phase, PhaseOf, Holder,
        HasSwitched, Undoing, CutoverInv, BaseInv, CommandTypeOK, HostTypeOK
  <2> QED
    BY <1>1, <1>2, <1>4, <2>1, LogStays DEF Recorded, recvars, recfiles
<1>5. ASSUME NEW p \in Operators, RecordsProgress(p)
      PROVE  LogFollows'
  <2>1. Progress(p)
    BY <1>5 DEF RecordsProgress
  <2>2. lock = p /\ p # NoOperator
    BY <1>1, <2>1, ProgressNearLine, HostAssumption
    DEF CutoverInv, BaseInv, MutualExclusion
  <2>3. ASSUME NEW e \in Entries, e.to = target[p], AppendHistory(e),
               pc[p] \in {"record", "healthTarget"},
               pc'[p] \in {"list", "succeeded"}
        PROVE  LogFollows'
    <3>1. target[p] = current
      BY <1>1, <2>3 DEF CutoverInv, TargetFollows, OnTarget
    <3>2. current' = current /\ lock' = lock
      BY <1>1, <2>1, <2>3, ProgressNearLine
    <3>3. log'[Len(log')].to = current
      BY <1>1, <2>3, <3>1, LineIsCurrent
    <3>4. Recorded'
      BY <2>2, <2>3, <3>2 DEF Recorded, Phase, PhaseOf, Holder, HasSwitched, Undoing
    <3> QED
      BY <3>2, <3>3, <3>4 DEF LogFollows
  <2>4. ASSUME UNCHANGED <<log, interrupted>>,
               pc[p] # "record",
               ~(pc[p] = "healthTarget" /\ pc'[p] = "succeeded")
        PROVE  LogFollows'
    <3>1. Recorded <=> pc[p] \in {"list", "pruning", "succeeded"}
      BY <2>2 DEF Recorded, Phase, PhaseOf, Holder, HasSwitched, Undoing
    <3>2. Recorded' <=> lock' = p /\ pc'[p] \in {"list", "pruning", "succeeded"}
      BY <1>1, <2>1, <2>2, ProgressNearLine
      DEF Recorded, Phase, PhaseOf, Holder, HasSwitched, Undoing
    <3>3. Phase \in {"switched", "committed"} => pc[p] # "failed"
      BY <2>2 DEF Phase, PhaseOf, Holder, HasSwitched, Undoing
    <3>4. lock' = NoOperator <=> Phase' = "idle"
      BY DEF Phase, PhaseOf, Holder
    <3> QED
      BY <1>1, <1>2, <2>1, <2>2, <2>4, <3>1, <3>2, <3>3, <3>4, LogStays,
         ProgressNearLine
  <2>5. CASE pc[p] = "record"
    <3>1. DeployEntry(p) \in Entries /\ DeployEntry(p).to = target[p]
      BY <1>1, <2>5
      DEF DeployEntry, Entries, CutoverInv, BaseInv, VersionsKnown, CommandTypeOK
    <3>2. AppendHistory(DeployEntry(p)) /\ pc'[p] = "list"
      BY <1>1, <1>5, <2>1, <2>5, ProgressNearLine DEF RecordsProgress, RecordLabels
    <3> QED
      BY <2>3, <2>5, <3>1, <3>2
  <2>6. CASE pc[p] = "healthTarget" /\ pc'[p] = "succeeded"
    <3>1. RollbackEntry(p) \in Entries /\ RollbackEntry(p).to = target[p]
      BY <1>1, <2>6
      DEF RollbackEntry, Entries, CutoverInv, BaseInv, VersionsKnown, CommandTypeOK
    <3>2. AppendHistory(RollbackEntry(p))
      BY <1>5, <2>6 DEF RecordsProgress, RecordLabels
    <3> QED
      BY <2>3, <2>6, <3>1, <3>2
  <2>7. CASE pc[p] # "record" /\ ~(pc[p] = "healthTarget" /\ pc'[p] = "succeeded")
    <3>1. UNCHANGED <<log, interrupted>>
      BY <1>5, <2>7
      DEF RecordsProgress, SetupAndPreflight, Restarts, Forget, recvars, recfiles
    <3> QED
      BY <2>4, <2>7, <3>1
  <2> QED
    BY <2>5, <2>6, <2>7
<1>6. ASSUME NEW p \in Operators, RecordsKill(p)
      PROVE  LogFollows'
  <2>1. lock = p /\ p # NoOperator /\ lock' = NoOperator
    BY <1>1, <1>6, HostAssumption
    DEF RecordsKill, Kill, Unlock, CutoverInv, BaseInv, MutualExclusion
  <2>2. Phase' = "idle" /\ ~Recorded'
    BY <2>1 DEF Recorded, Phase, Holder
  <2>3. CASE interrupted'
    BY <2>3 DEF LogFollows
  <2>4. CASE ~interrupted'
    <3>1. pc[p] \notin Unsettled /\ UNCHANGED <<log, interrupted>>
      BY <1>1, <1>6, <2>4 DEF RecordsKill, Unsettled, LogTypeOK
    <3>2. Phase \in {"switched", "committed"} => Recorded
      BY <2>1, <3>1
      DEF Recorded, Unsettled, Phase, PhaseOf, Holder, HasSwitched, Undoing
    <3> QED
      BY <1>1, <1>2, <2>2, <3>1, <3>2, LogStays
  <2> QED
    BY <2>3, <2>4
<1>7. CASE RecordsService
  BY <1>1, <1>7
  DEF RecordsService, Service, ServiceExits, SystemdRestarts, ServiceWrites,
      LogFollows, Recorded, Base, Switched, Phase, PhaseOf, Holder, HasSwitched,
      Undoing, opvars, smcalls, links
<1> QED
  BY <1>3, <1>4, <1>5, <1>6, <1>7 DEF RecordsNext

LEMMA NextRecordsInv ==
  ASSUME LinksDoNotFail, "writefile" \notin Faults
  PROVE  RecordsInv /\ [RecordsNext]_<<vars, recvars>> => RecordsInv'
  BY RecordsNextIsNext, NextCutoverInv, NextLogTypes, NextLogFollows
  DEF RecordsInv, CutoverInv

\* Where the calls on links and the writes of the log do not fail, the last
\* line of the log names the release that is current whenever no command is
\* in progress, also when reads fail and the lines before it are lost; only a
\* kill between a switch and its line breaks this, until the next success.
THEOREM LogTellsCurrentHolds ==
  ASSUME LinksDoNotFail, "writefile" \notin Faults
  PROVE  RecordsSpec => []LogTellsCurrent
<1>1. RecordsInit => RecordsInv
  <2> SUFFICES ASSUME RecordsInit PROVE RecordsInv
    OBVIOUS
  <2>1. CutoverInv
    BY InitCutover DEF RecordsInit
  <2>2. LogTypeOK
    BY InitRecordTypes
  <2>3. LogFollows
    BY DEF RecordsInit, LogFollows
  <2> QED
    BY <2>1, <2>2, <2>3 DEF RecordsInv
<1>2. RecordsInv => LogTellsCurrent
  BY DEF RecordsInv, LogFollows, LogTellsCurrent, Recorded, Base, Switched, Phase,
         Holder
<1> QED
  BY <1>1, <1>2, NextRecordsInv, PTL DEF RecordsSpec

-----------------------------------------------------------------------------
(* The config that is served                                               *)

\* Where a step may take a command that counts on runtime.env.
LEMMA ProgressWithConfig ==
  ASSUME BaseInv, NEW p \in Operators, Progress(p)
  PROVE  /\ \A q \in Operators : q # p => pc'[q] = "idle"
         /\ pc'[p] \in Placed => pc[p] \in Placed \cup {"preflight"}
         /\ pc'[p] \in Restarted =>
              \/ pc[p] \in {"restart", "restartTarget"} /\ pc'[p] \in {"health", "healthTarget"}
              \/ pc[p] \in Restarted /\ UNCHANGED running
         /\ pc[p] \in {"succeeded", "failed"} => pc'[p] = "idle"
<1> USE DEF BaseInv, CommandTypeOK, LinkInv, MutualExclusion, CallsOfCommands,
            InCall, Step, Placed, Restarted, hostvars, opvars
<1>1. CASE DeployStep(p)
  BY <1>1
  DEF DeployStep, DeployFetch, DeployExtract, DeployCheckBinary, DeployCopyDb,
      DeployCopyDbRest, DeployPreflight, DeployCleanup, DeployCutover,
      DeploySwitched, DeployRestart, DeployHealth, DeployRollback,
      DeployRolledBack, DeployRestartOld, DeployRecord, DeployList, DeployPrune,
      DeployPruned
<1>2. CASE RollbackStep(p)
  BY <1>2
  DEF RollbackStep, RollbackValidate, RollbackSwitch, RollbackSwitched,
      RollbackRestart, RestoreOrFail, RollbackHealth, RollbackRestore,
      RollbackRestored
<1>3. CASE LinkStep(p) /\ UNCHANGED <<hostvars, opvars>>
  BY <1>3, LinkStepStaysInCall
<1>4. CASE Finish(p)
  BY <1>4 DEF Finish
<1> QED
  BY <1>1, <1>2, <1>3, <1>4 DEF Progress

\* A step of a command writes runtime.env before the cutover, and starts the
\* service with what is in it.
LEMMA ProgressConfigFollows ==
  ASSUME "remove" \notin Faults, BaseInv, ConfigTypeOK, ConfigFollows,
         NEW p \in Operators, RecordsProgress(p)
  PROVE  ConfigFollows'
<1>1. /\ \A q \in Operators : q # p => pc'[q] = "idle"
      /\ pc'[p] \in Placed => pc[p] \in Placed \cup {"preflight"}
      /\ pc'[p] \in Restarted =>
           \/ pc[p] \in {"restart", "restartTarget"} /\ pc'[p] \in {"health", "healthTarget"}
           \/ pc[p] \in Restarted /\ UNCHANGED running
      /\ pc[p] \in {"succeeded", "failed"} => pc'[p] = "idle"
  BY ProgressWithConfig DEF RecordsProgress
<1> SUFFICES /\ pc'[p] \in Placed => runtimeEnv' = config'[p]
             /\ pc'[p] \in Restarted /\ running' # NoVersion => servedEnv' = runtimeEnv'
  BY <1>1 DEF ConfigFollows, Placed, Restarted
<1>2. CASE pc[p] = "preflight" /\ SetupAndPreflight(p)
  BY <1>1, <1>2
  DEF SetupAndPreflight, PlaceConfig, ConfigTypeOK, Placed, Restarted
<1>3. CASE pc[p] \in {"restart", "restartTarget", "restartOld"} /\ Restarts(p)
  BY <1>1, <1>3 DEF Restarts, Stopped, ConfigFollows, Placed, Restarted
<1>4. CASE /\ UNCHANGED <<runtimeEnv, servedEnv, config>>
           /\ pc[p] \notin {"preflight", "restart", "restartTarget"}
  BY <1>1, <1>4 DEF ConfigFollows, Placed, Restarted
<1>5. CASE pc[p] \in {"succeeded", "failed"}
  BY <1>1, <1>5 DEF Placed, Restarted
<1> QED
  BY <1>2, <1>3, <1>4, <1>5
  DEF RecordsProgress, AppendHistory, RecordLabels, recvars, recfiles

\* ConfigFollows is inductive where a config that has gone can be removed.
LEMMA NextConfigFollows ==
  ASSUME "remove" \notin Faults, BaseInv, ConfigTypeOK, ConfigFollows,
         [RecordsNext]_<<vars, recvars>>
  PROVE  ConfigFollows'
<1> USE HostAssumption
<1> USE DEF BaseInv, CommandTypeOK, MutualExclusion, ConfigFollows
<1>1. CASE UNCHANGED <<vars, recvars>>
  BY <1>1 DEF vars, hostvars, opvars, recvars, recfiles
<1>2. ASSUME NEW p \in Operators, Command(p), UNCHANGED recvars
      PROVE  ConfigFollows'
  BY <1>2
  DEF Command, DeployBegin, RollbackBegin, Acquire, Step, Placed, Restarted,
      recvars, recfiles
<1>3. ASSUME NEW p \in Operators, RecordsKill(p)
      PROVE  ConfigFollows'
  BY <1>3 DEF RecordsKill, Kill, Forget, Placed, Restarted
<1>4. CASE RecordsService
  BY <1>4
  DEF RecordsService, Service, ServiceExits, SystemdRestarts, ServiceWrites,
      Stopped, Start, opvars
<1> QED
  BY <1>1, <1>2, <1>3, <1>4, ProgressConfigFollows DEF RecordsNext

\* Where a config that has gone from the repo can be removed, the process
\* that a successful command leaves behind has the runtime.env in place, and
\* a deploy that is past its health check what it read from the repo, with
\* any other fault, with kills, and whenever systemd restarts the service.
THEOREM ConfigIsServedHolds ==
  ASSUME "remove" \notin Faults
  PROVE  RecordsSpec => []ConfigIsServed
<1> DEFINE Inv == BaseInv /\ LogTypeOK /\ ConfigTypeOK /\ ConfigFollows
<1>1. RecordsInit => Inv
  <2> SUFFICES ASSUME RecordsInit PROVE ConfigFollows
    BY InitRecordTypes
  <2> QED
    BY DEF RecordsInit, Init, ConfigFollows, Placed, Restarted
<1>2. Inv /\ [RecordsNext]_<<vars, recvars>> => Inv'
  BY RecordsNextIsNext, NextBase, NextLogTypes, NextConfigTypes, NextConfigFollows
<1>3. Inv => ConfigIsServed
  BY DEF ConfigFollows, ConfigIsServed, Placed, Restarted
<1> QED
  BY <1>1, <1>2, <1>3, PTL DEF RecordsSpec
=============================================================================
