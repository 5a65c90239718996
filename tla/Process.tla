------------------------------ MODULE Process ------------------------------
(***************************************************************************)
(* One svc-deploy process from its arguments to its exit status: main with *)
(* the functions it calls, over the modules of its parts.  What a command  *)
(* does to links and releases is in SvcDeploy; here it succeeds or fails.  *)
(***************************************************************************)
EXTENDS CommandLine, DeployMap, Fetch, HealthPoll

CONSTANTS
  MaxArgs,  \* bound: the number of arguments
  Files     \* what a deploy map's file may hold

ASSUME ProcessAssumption ==
  /\ MaxArgs \in Nat
  /\ \A file \in Files :
       file.kind = "map" => file.services \in [DOMAIN file.services -> Entry]

Retention == INSTANCE Retention WITH Versions <- {}, Rank <- <<>>

VARIABLES
  phase,  \* where the process is
  opts,   \* what is left of the arguments once they are parsed
  paths,  \* how many paths of the deploy map have yet to be tried
  read,   \* history: what the files held that were read, in order
  cfg,    \* the deploy map, then the service's entry of it
  limit,  \* how many releases a prune keeps
  exit    \* the exit status

mainvars == <<phase, cmdvars, opts, paths, read, cfg, limit, exit>>
procvars == <<mainvars, fetchvars, healthvars>>

NoOptions == [cmd |-> "none"]
Running == 99  \* there is no exit status yet

Phases == {"args", "config", "dispatch", "fetchSum", "fetchArtifact", "prepare",
           "poll", "undo", "exited"}

ProcessTypeOK ==
  /\ FetchTypeOK
  /\ HealthTypeOK
  /\ phase \in Phases
  /\ CommandTypeOK
  /\ paths \in 0..2
  /\ read \in Seq(Files) /\ Len(read) <= 2
  /\ limit \in Nat
  /\ exit \in {0, 1, 2, Running}
  /\ exit = Running <=> phase # "exited"
  /\ phase = "poll" <=> poll # "off" /\ phase \notin {"undo", "exited"}

ProcessInit ==
  /\ phase = "args"
  /\ args \in UNION {[1..n -> Tokens] : n \in 0..MaxArgs}
  /\ CommandInit
  /\ opts = NoOptions
  /\ paths = 0 /\ read = <<>>
  /\ cfg = NoConfig
  /\ limit = 0
  /\ exit = Running
  /\ FetchInit
  /\ HealthInit

Goto(here, there) == phase = here /\ phase' = there

Exit(code) == phase' = "exited" /\ exit' = code

-----------------------------------------------------------------------------
(* main                                                                    *)

Parse ==
  /\ phase = "args"
  /\ ParseArgument
  /\ UNCHANGED <<phase, opts, paths, read, cfg, limit, exit, fetchvars, healthvars>>

\* The parsed arguments, and the commands that need no deploy map.
UseArgs ==
  LET words == flags.remaining
      shown == \/ {"-h", "-v"} \cap flags.on # {}
               \/ words # <<>> /\ Head(words) = "manual"
               \/ Len(words) > 1 /\ SubSeq(words, 1, 2) = <<"help", "manual">>
      wrong == flags.error # "none" \/ (words = <<>> /\ ~shown)
  IN  /\ phase = "args" /\ Parsed
      /\ args' = <<>> /\ pos' = 1 /\ flags' = NoFlags
      /\ \/ wrong /\ Exit(1) /\ UNCHANGED <<opts, paths>>
         \/ ~wrong /\ shown /\ Exit(0) /\ UNCHANGED <<opts, paths>>
         \/ /\ ~wrong /\ ~shown
            /\ phase' = "config"
            /\ opts' = Options
            /\ paths' = IF opts'.path THEN 1 ELSE 2
            /\ UNCHANGED exit
      /\ UNCHANGED <<read, cfg, limit, fetchvars, healthvars>>

\* LoadFromDefaultPaths, or the Load of the path that was given: the first
\* file that loads is used.  The files may be replaced at any time.
LoadConfig(file) ==
  /\ phase = "config"
  /\ read' = Append(read, file)
  /\ cfg' = Load(file)
  /\ paths' = paths - 1
  /\ \/ cfg' # NoConfig /\ phase' = "dispatch" /\ UNCHANGED exit
     \/ cfg' = NoConfig /\ paths > 1 /\ UNCHANGED <<phase, exit>>
     \/ cfg' = NoConfig /\ paths = 1 /\ Exit(1)
  /\ UNCHANGED <<cmdvars, opts, limit, fetchvars, healthvars>>

\* The switch, for commands that do not come to an operation: `help`, an
\* unknown command, too few arguments, a service that is not in the map.
DispatchNothing ==
  /\ phase = "dispatch"
  /\ \/ opts.cmd = "help" /\ Exit(0)
     \/ opts.cmd \notin {"deploy", "rollback", "status", "prune", "help"} /\ Exit(1)
     \/ /\ opts.cmd \in {"deploy", "rollback", "status", "prune"}
        /\ \/ opts.n < (IF opts.cmd = "deploy" THEN 2 ELSE 1)
           \/ opts.service \notin DOMAIN cfg.services
        /\ Exit(1)
  /\ UNCHANGED <<cmdvars, opts, paths, read, cfg, limit, fetchvars, healthvars>>

Dispatch(cmd, needs) ==
  /\ phase = "dispatch"
  /\ opts.cmd = cmd /\ opts.n >= needs
  /\ opts.service \in DOMAIN cfg.services
  /\ cfg' = cfg.services[opts.service]
  /\ read' = <<>>
  /\ UNCHANGED <<cmdvars, opts, paths, fetchvars, healthvars>>

\* runStatus and runPrune: the operation returns an error or none.
RunStatus ==
  /\ Dispatch("status", 1)
  /\ Exit(0) \/ Exit(1)
  /\ UNCHANGED limit

\* Variant: the limit goes to the loop as it is.
RunPruneUnchecked ==
  /\ Dispatch("prune", 1)
  /\ limit' = IF opts.keep = 0 THEN cfg'.keep ELSE opts.keep
  /\ Exit(0) \/ Exit(1)

RunPrune ==
  /\ Dispatch("prune", 1)
  /\ limit' = Retention!ToKeep(IF opts.keep = 0 THEN cfg'.keep ELSE opts.keep)
  /\ Exit(0) \/ Exit(1)

\* runRollback, up to waitForHealth; any call before it may fail.
RunRollback ==
  /\ Dispatch("rollback", 1)
  /\ \/ phase' = "prepare" /\ UNCHANGED exit
     \/ Exit(1)
  /\ UNCHANGED limit

\* runDeploy: the lock and the URLs.
RunDeploy ==
  /\ Dispatch("deploy", 2)
  /\ \/ /\ {BuildArtifactURL(cfg'), BuildChecksumURL(cfg')} = {"built"}
        /\ phase' = "fetchSum"
        /\ UNCHANGED exit
     \/ BuildChecksumURL(cfg') = "panic" /\ Exit(2)
     \/ Exit(1)
  /\ UNCHANGED limit

-----------------------------------------------------------------------------
(* Operation.Run of deploy and of rollback                                 *)

\* An error is returned, printed, and ends the process.
Fails(here) ==
  /\ phase = here
  /\ Exit(1)
  /\ UNCHANGED <<cmdvars, opts, paths, read, cfg, limit, fetchvars, healthvars>>

FetchSum ==
  /\ Goto("fetchSum", "fetchArtifact")
  /\ GetChecksum
  /\ UNCHANGED <<cmdvars, opts, paths, read, cfg, limit, exit, healthvars>>

FetchArtifact ==
  /\ Goto("fetchArtifact", "prepare")
  /\ GetArtifact
  /\ UNCHANGED <<cmdvars, opts, paths, read, cfg, limit, exit, healthvars>>

\* Everything up to the restart has gone well.
AwaitHealth ==
  /\ Goto("prepare", "poll")
  /\ PollBegin(IF opts.cmd = "deploy" THEN cfg.startup ELSE cfg.rollback)
  /\ UNCHANGED <<cmdvars, opts, paths, read, cfg, limit, exit, fetchvars>>

Poll ==
  /\ phase = "poll"
  /\ PollStep
  /\ UNCHANGED <<mainvars, fetchvars>>

\* Warnings of what comes after a healthy answer do not make it an error.
Healthy ==
  /\ phase = "poll" /\ poll = "healthy"
  /\ Exit(0)
  /\ UNCHANGED <<cmdvars, opts, paths, read, cfg, limit, fetchvars, healthvars>>

Unhealthy ==
  /\ Goto("poll", "undo")
  /\ poll = "timedout"
  /\ UNCHANGED <<cmdvars, opts, paths, read, cfg, limit, exit, fetchvars, healthvars>>

Publish ==
  /\ phase \in {"fetchSum", "fetchArtifact"}
  /\ Republish
  /\ UNCHANGED <<mainvars, healthvars>>

ProcessStep ==
  \/ Parse \/ UseArgs
  \/ \E file \in Files : LoadConfig(file)
  \/ DispatchNothing \/ RunStatus \/ RunPrune \/ RunRollback \/ RunDeploy
  \/ \E here \in {"fetchSum", "fetchArtifact", "prepare", "undo"} : Fails(here)
  \/ FetchSum \/ FetchArtifact \/ AwaitHealth \/ Poll \/ Healthy \/ Unhealthy

ProcessNext == ProcessStep \/ Publish

\* Every call returns, and time passes.
ProcessSpec ==
  ProcessInit /\ [][ProcessNext]_procvars /\ WF_procvars(ProcessStep)

-----------------------------------------------------------------------------

\* No operation runs with an incomplete entry, or with a timeout or a limit
\* of zero, whatever the files hold and however they change between two
\* reads; and the fallback is used only for a file that could not be loaded.
ConfigIsUsable ==
  phase = "dispatch" =>
    /\ cfg.services # <<>>
    /\ \A name \in DOMAIN cfg.services :
         LET e == cfg.services[name]
             file == read[Len(read)].services[name]
         IN  /\ e.complete
             /\ 0 \notin {e.startup, e.rollback, e.keep}
             /\ \A field \in {"startup", "rollback", "keep"} :
                  file[field] # 0 => e[field] = file[field]
    /\ \A i \in 1..Len(read) - 1 :
         read[i].kind = "map" =>
           \/ read[i].services = <<>>
           \/ \E name \in DOMAIN read[i].services : ~read[i].services[name].complete

\* Exit status 0, which scripts go by, of a deploy or a rollback: the service
\* answered before the deadline of the configured timeout of that command,
\* and what a deploy has unpacked are the bytes the checksum was made of, at
\* the time the server had it, and not a newer build.  Of a prune: it kept
\* one release at least, whatever --keep and the deploy map say.
SuccessIsSound ==
  exit = 0 =>
    /\ opts.cmd = "deploy" =>
         /\ unpacked = expected /\ unpacked \in Nat
         /\ poll = "healthy" /\ deadline = 2 * cfg.startup
    /\ opts.cmd = "rollback" => poll = "healthy" /\ deadline = 2 * cfg.rollback
    /\ opts.cmd = "prune" => limit >= 1

PhasesLeft ==
  [args |-> 8, config |-> 7, dispatch |-> 6, fetchSum |-> 5, fetchArtifact |-> 4,
   prepare |-> 3, poll |-> 2, undo |-> 1, exited |-> 0]

\* How many steps are left in a phase, at most.
StepsInPhase ==
  CASE phase = "args" -> IF Parsed THEN 0 ELSE Len(args) + 1 - pos
    [] phase = "config" -> paths
    [] phase = "poll" -> PollLeft
    [] OTHER -> 0

\* Every step of a process brings its end nearer, for any timeout and however
\* its service behaves: it looks at no argument and no path twice, does not
\* poll again before time has passed, and goes back to no earlier phase.  And
\* no step of somebody else takes it back.
ProcessAdvances ==
  [][\/ PhasesLeft[phase'] < PhasesLeft[phase]
     \/ phase' = phase /\ StepsInPhase' < StepsInPhase
     \/ ~ProcessStep /\ phase' = phase /\ StepsInPhase' = StepsInPhase]_procvars

\* Every process ends, also when the service it waits for hangs.
ProcessEnds == <>(phase = "exited")
=============================================================================
