------------------------------ MODULE Records ------------------------------
(***************************************************************************)
(* What the commands keep outside the releases: the service's runtime.env, *)
(* which a deploy replaces before the cutover, and deploy-history.log,     *)
(* which the commands read, extend and write back.  Each action is one of  *)
(* SvcDeploy's together with what it does to these two files.  Pruners     *)
(* touch neither the links nor these files, and are left out.              *)
(***************************************************************************)
EXTENDS SvcDeploy, Sequences

CONSTANTS
  Configs,    \* what the config repo's runtime.env may hold
  NoConfig,   \* there is no such file, or not the whole of one of Configs
  MaxEntries  \* bound: no command is issued once the log has so many lines

ASSUME RecordsAssumption == NoConfig \notin Configs /\ MaxEntries \in Nat

VARIABLES
  runtimeEnv,  \* shared/config/runtime.env
  servedEnv,   \* what the unit's EnvironmentFile held when its process started
  config,      \* config[p]: what p's GetRuntimeConfig returned
  log,         \* shared/deploy-history.log, one record per line
  interrupted  \* history variable: a kill came between a switch and its line

recfiles == <<runtimeEnv, servedEnv, config, log>>
recvars == <<recfiles, interrupted>>

MaybeConfig == Configs \cup {NoConfig}

Entries == [op : {"DEPLOY", "ROLLBACK"}, to : Versions, was : MaybeVersion]

RecordsTypeOK ==
  /\ runtimeEnv \in MaybeConfig
  /\ servedEnv \in MaybeConfig
  /\ config \in [Operators -> MaybeConfig]
  /\ log \in Seq(Entries)
  /\ interrupted \in BOOLEAN

RecordsInit ==
  /\ Init
  /\ runtimeEnv = NoConfig
  /\ servedEnv = NoConfig
  /\ config = [p \in Operators |-> NoConfig]
  /\ log = << >>
  /\ interrupted = FALSE

-----------------------------------------------------------------------------
(* runtime.env                                                             *)

\* Variant: a config that has gone from the repo is left in place.
PlaceConfigOver(p) ==
  \/ \E c \in Configs : runtimeEnv' = c /\ config' = [config EXCEPT ![p] = c]
  \/ UNCHANGED runtimeEnv /\ config' = [config EXCEPT ![p] = NoConfig]

\* setupRuntimeConfig copies what the repo has at that moment; any error of
\* GetRuntimeConfig means that it has none, and removes the file.
PlaceConfig(p) ==
  \/ \E c \in Configs : runtimeEnv' = c /\ config' = [config EXCEPT ![p] = c]
  \/ /\ runtimeEnv' = NoConfig \/ ("remove" \in Faults /\ UNCHANGED runtimeEnv)
     /\ config' = [config EXCEPT ![p] = NoConfig]

\* The same, with the preflights after it.  When they fail, or the write of
\* the file does, what the file holds by then stays.
SetupAndPreflight(p) ==
  /\ \/ PlaceConfig(p)
     \/ /\ pc'[p] = "cleanup"
        /\ runtimeEnv' \in {runtimeEnv, NoConfig}
        /\ UNCHANGED config
  /\ UNCHANGED <<servedEnv, log, interrupted>>

\* A process that is started reads the file; one that goes on running does not.
Restarts(p) ==
  /\ \/ Stopped /\ servedEnv' = NoConfig
     \/ /\ Start
        /\ servedEnv' = runtimeEnv
     \/ /\ "systemctl" \in Faults
        /\ running' = running /\ running # NoVersion
        /\ pc'[p] \notin {"health", "healthTarget"}
        /\ UNCHANGED servedEnv
  /\ UNCHANGED <<runtimeEnv, config, log, interrupted>>

-----------------------------------------------------------------------------
(* deploy-history.log                                                      *)

DeployEntry(p) == [op |-> "DEPLOY", to |-> target[p], was |-> from[p]]

\* Variant: the arguments of appendHistory are swapped.
RollbackEntrySwapped(p) == [op |-> "ROLLBACK", to |-> from[p], was |-> target[p]]

RollbackEntry(p) == [op |-> "ROLLBACK", to |-> target[p], was |-> from[p]]

Prefixes(s) == { SubSeq(s, 1, n) : n \in 0 .. Len(s) }

\* ReadFile, its error taken for an empty log, and WriteFile, which truncates
\* the file first and may fail after that; an error is only a warning.
AppendToLog(e) ==
  \/ log' = Append(log, e)
  \/ "readfile" \in Faults /\ log' = <<e>>
  \/ "writefile" \in Faults /\ log' \in Prefixes(log)

AppendHistory(e) ==
  /\ AppendToLog(e)
  /\ interrupted' = FALSE
  /\ UNCHANGED <<runtimeEnv, servedEnv, config>>

-----------------------------------------------------------------------------
(* The composition                                                         *)

\* Where a step of a command touches the two files, or starts the service.
RecordLabels ==
  {"preflight", "restart", "restartTarget", "restartOld", "record",
   "healthTarget", "succeeded", "failed"}

\* Where `current` may be one that the log does not name yet.
Unsettled ==
  {"switching", "restart", "health", "rollback", "rollingBack", "record",
   "switchingBack", "restartTarget", "healthTarget", "restore", "restoring"}

Forget(p) ==
  /\ config' = [config EXCEPT ![p] = NoConfig]
  /\ UNCHANGED servedEnv

RecordsProgress(p) ==
  /\ Progress(p)
  /\ \/ pc[p] = "preflight" /\ SetupAndPreflight(p)
     \/ pc[p] \in {"restart", "restartTarget", "restartOld"} /\ Restarts(p)
     \/ pc[p] = "record" /\ AppendHistory(DeployEntry(p))
     \/ /\ pc[p] = "healthTarget" /\ pc'[p] = "succeeded"
        /\ AppendHistory(RollbackEntry(p))
     \/ /\ pc[p] = "healthTarget" /\ pc'[p] # "succeeded"
        /\ UNCHANGED recvars
     \/ /\ pc[p] \in {"succeeded", "failed"}
        /\ Forget(p)
        /\ UNCHANGED <<runtimeEnv, log, interrupted>>
     \/ pc[p] \notin RecordLabels /\ UNCHANGED recvars

\* A command killed while it writes one of the files leaves as much of it as
\* it had written.
RecordsKill(p) ==
  /\ Kill(p)
  /\ Forget(p)
  /\ interrupted' = (interrupted \/ pc[p] \in Unsettled)
  /\ \/ UNCHANGED <<runtimeEnv, log>>
     \/ /\ pc[p] = "preflight"
        /\ runtimeEnv' \in MaybeConfig
        /\ UNCHANGED log
     \/ /\ pc[p] \in {"record", "healthTarget"}
        /\ log' \in Prefixes(log)
        /\ UNCHANGED runtimeEnv

RecordsService ==
  /\ Service
  /\ servedEnv' = IF running' = running THEN servedEnv
                  ELSE IF running' = NoVersion THEN NoConfig ELSE runtimeEnv
  /\ UNCHANGED <<runtimeEnv, config, log, interrupted>>

RecordsNext ==
  \/ \E p \in Operators :
       \/ Len(log) < MaxEntries /\ Command(p) /\ UNCHANGED recvars
       \/ RecordsProgress(p)
       \/ RecordsKill(p)
  \/ RecordsService

RecordsSpec == RecordsInit /\ [][RecordsNext]_<<vars, recvars>>

-----------------------------------------------------------------------------
(* What the two files are good for                                         *)

\* The last line of the log names the release that is current whenever no
\* command is in progress: each success appends its line, and each failure
\* puts back the release that the last line names.  Only a kill between the
\* switch and the line leaves them apart, until the next command succeeds.
LogTellsCurrent ==
  lock = NoOperator /\ log # << >> /\ ~interrupted => current = log[Len(log)].to

\* The process that a successful command leaves behind was started with the
\* runtime.env that is in place, and in the case of a deploy that is what the
\* deploy read from the repo, also when the repo had none.
ConfigIsServed ==
  \A p \in Operators :
    /\ pc[p] = "succeeded" /\ running # NoVersion => servedEnv = runtimeEnv
    /\ pc[p] \in {"record", "list", "pruning"} => runtimeEnv = config[p]
=============================================================================
