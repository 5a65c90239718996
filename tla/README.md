# svc-deploy in TLA+

`svc-deploy` deploys versioned releases of a service on one Linux host: it
unpacks a release into a directory of its own, copies the SQLite database over,
moves the symbolic link `current`, restarts the systemd unit, polls a health
URL, and goes back to the old release when that fails. This directory models
its commands as they touch shared state (links, release directories, the
database, the service's process, the lock) and each process from its arguments to its
exit status, checks them with TLC and proves the results that matter most with TLAPS.

## The system

Paths are below `src/`.

| Component | State it keeps | Operations | Correct when |
|---|---|---|---|
| Symlink manager (`cmd/svc-deploy/impl.go`, `AtomicSymlinkManager`) | links `current`, `previous`; temporary links `.current.new`, `.current.rollback` | `GetCurrent`, `GetPrevious`, `SetCurrent`, `RollbackCurrent` | `current` changes in one step or not at all; the release it replaces is in `previous` |
| Service lock (`impl.go`, `FileLocker`) | an flock on `/var/lock/svc-deploy-<service>.lock` | `Acquire`, release | one deploy or rollback at a time; a dead process holds nothing |
| File system (`impl.go`, `RealFileSystem`) | release directories, their files | `MkdirAll`, `ExtractTar`, `CopyFile`, `RemoveAll`, `Exists`, `ListDirectory`, `CreateCompressedBackup` | partial effects of a failing call harm no release a link names |
| Service manager (`impl.go`, `SystemdServiceManager`) | the unit's process (in systemd) | `Restart`, `Stop`, `Status` | after a command the process runs `current` |
| Deploy (`internal/deploy/deploy.go`) | locals of `Operation.Run` | one run from lock to pruning, with the automatic rollback | all or nothing; what it reports is true |
| Rollback (`internal/rollback/rollback.go`) | locals of `Operation.Run` | validate, switch, restart, health, restore | all or nothing; only to a release that can run |
| Prune (`internal/prune/prune.go`) | locals; takes **no** lock | read links, list, remove | removes no linked release; ends |
| Version order (`internal/semver/semver.go`) | none | `Compare` | a strict weak order: numbers as numbers, a pre-release before its release |
| Artifact fetcher (`impl.go`) | the expected hash | `Fetch` with checksum | nothing unverified is unpacked |
| Health checker (`impl.go`) and `waitForHealth` | a ticker and a deadline | poll | ends by its deadline, and not without a healthy answer that it should have seen; an answer is from the new release |
| History and metadata (`deploy.go`, `rollback.go`) | `deploy-history.log`, `metadata/release.json` | read, append, write | append only |
| Runtime config (`deploy.go`, `GitConfigRepository`) | `runtime.env` | pull, validate, replace | the running release has its own configuration |
| Configuration (`internal/config/config.go`) | the deploy map | load, defaults, validation, fallback | rejects what the commands cannot use |
| Status (`internal/status/status.go`) | none; takes **no** lock | reads links, metadata, unit | reports a state that existed |
| Command line (`cmd/svc-deploy/main.go`) | none | parses flags, wires the parts, starts one operation, exits | global flags anywhere; status 0 means success |

How they interact. The command line starts one `Operation` per process. `deploy`
and `rollback` take the service's lock and then call the file system, the
symlink manager, the service manager and the health checker one after the
other; nothing inside a process is concurrent. What is concurrent is *between*
processes: another command for the same service (excluded by the lock), a
`prune` or a `status` (not excluded), the service under systemd, which may exit, be started
again from whatever `current` names, and write to its database, and a `SIGKILL`
at any point. All of them meet in the file system. Beyond the host there are the server the
releases come from, on which a version may be published again, and time.

What is hard to test, and what the properties are for (each at its line in
`PROJECT.json`, `hazards`): a call that fails half-way through one of the two
link sequences and the many errors the code ignores on purpose; a failure after
the point of no return; a prune between any two steps of a deploy; a kill
between the switch and the restart; a deploy of the very release that is
current; half-made releases that look complete to a later command; a database that is
copied file by file, page by page, under a service that commits and checkpoints; a
`status` that reads one link before a switch and one after it; ticks, deadlines and
hanging answers of a health check; and files that change between two reads.

## The modules

| Module | Models | Correspondence |
|---|---|---|
| `AtomicLink` | abstract: a link that calls change in one step | what `interfaces.go` promises of `SymlinkManager` |
| `SymlinkManager` | `SetCurrent`, `RollbackCurrent` | `smpc[p]` is the place in the call, `smver`/`smold` its version and `oldCurrent`; one action per file-system call |
| `Links` | what the manager's calls guarantee, and the invariants behind it | refinement mapping to `AtomicLink` |
| `Host` | lock, release directories, databases, systemd and the process | `lock`, `dirs`, `binaries`, `db`, `running`; `torn` is a history variable; operators that the commands' actions call |
| `Deploy` | `deploy.Operation.Run` and what it calls | `pc[p]` is the statement `Run` is at; one action per side effect, each outcome a disjunct |
| `Retention` | which releases go, as sets | what the loops of `pruneOldReleases` and prune's `Run` come to; `Deploy` and `Prune` use it |
| `Semver` | `semver.Compare` and `parse` | a name by its dotted parts, its rest and itself; `Key` is the order it should be |
| `PruneLoops` | both pruning loops, one action per iteration | `releases`, `next`, `kept` are the slice, index and counter |
| `Rollback` | `rollback.Operation.Run` | same variables, own labels; shares `DeployRestartOld` |
| `Prune` | `prune.Operation.Run` | `prunepc`, `protected`, `victims`: the loop's locals |
| `SvcDeploy` | the composition: any number of operators and pruners, the service, kills; fairness | |
| `Records` | `SvcDeploy` with `runtime.env` and `deploy-history.log` beside it | each action is one of `SvcDeploy`'s with what it does to the two files; `interrupted` is a history variable |
| `Status` | `status.Operation.Run` beside the symlink manager | `stpc` is the read `Run` is at; `calls` and `pairs` are history variables |
| `DatabaseCopy` | `copyDatabase`, `createBackup` and the file-system calls they make, beside a service that writes through SQLite | `pc`, `next`: the file and the place in it; `main`, `wal`, `dstMain`, `dstWal`: the files' contents; `began`, `restarted`, `stale`, `committed` are history variables |
| `HealthPoll` | both `waitForHealth` and `Check` | `ticks` is the ticker's channel, `deadline` the context's, `began` the request in flight |
| `CommandLine` | `parseGlobalFlags` and the options of a command | `pos` is the loop's index, `flags` what it has made of the arguments before it; one action per iteration |
| `DeployMap` | `Load`, `Validate`, the two URLs | functions of what a file holds |
| `Fetch` | `HTTPArtifactFetcher.Fetch` beside its server | `expected`, `unpacked`; `artifact` and `sum` are the server's files |
| `Process` | `main` and what it calls, from the arguments to the exit status | the composition of the four before it; `phase` is the place in the program, `read` a history variable |
| `Cutover` | abstract: a command commits its release or aborts to the one before | the promise of the manual's deploy and rollback sections |
| `Properties` | the properties, and the mapping to `Cutover` | |
| `Invariants` | the inductive invariants of the commands | |
| `LinkProofs`, `SvcDeployProofs`, `CutoverProofs`, `RecordProofs`, `RetentionProofs`, `DatabaseProofs`, `StatusProofs`, `ProcessProofs` | theorems and proofs | each extends the module it is about, and the one whose theorems it cites |
| `MCSvcDeploy`, `MCRecords`, `MCPruneLoops`, `MCStatus`, `MCProcess` | versions, their order, deploy maps and the symmetry for TLC | |

Each module extends the one it builds on: `SymlinkManager`, `Host`, `Deploy`,
`Rollback`, `Prune`, `SvcDeploy`; `Status` extends `Links`. `DatabaseCopy` and `Process` stand
beside the core and look closer at steps that are one action there: `DeployCopyDb` to
`DeployPreflight`, `DeployFetch`, `DeployHealth`. Definitions commented "Variant" are plausible
mistakes, each placed before the definition it would replace; they are not part
of the model and serve to show that a property can fail.

### Abstractions

- A link is the version it names: every use of a link takes the base name of
  its target. A release directory is three facts that later code tests for: it
  exists, it has a file at `BinaryPath`, and what its database file holds
  (`absent`, `partial`: truncated or half-written, `fresh`: as the archive
  shipped it, `live`: data the service has written). A fourth, `torn`, is what no code can
  test: the last extraction or removal broke off in the middle. No action reads it; `HalfMade` in
  `Properties` does.
- A file-system call either succeeds or, when its kind is in `Faults`, fails;
  `"remove"`, `"symlink"`, `"rename"` are the calls on links, `"removeall"` a
  `RemoveAll` that stops part-way, `"systemctl"` a `systemctl` that cannot
  reach systemd, `"kill"` a `SIGKILL` of a command. The failures that every deploy
  must reckon with (a bad archive, a failing preflight, a unit that does not
  start, a health check that times out) are always possible.
- An `Acquire` that finds the lock taken ends the command and has changed
  nothing: it is the action's guard.
- `RollbackValidate` takes `GetPrevious` and the `Exists` checks in one step.
  The lock is held, and a pruner that removes a release between them can as
  well remove it right after.
- A unit of `Type=simple` may be reported as started although its process
  exits at once, so that `RestartOk` allows both; a `Restart` that fails leaves none, or,
  with `"systemctl"` among the faults, the old process or the new one. Writing to a binary that is being executed fails
  (`ETXTBSY`): one of the outcomes of a failing extraction.
- `DeployPreflight` stands for the backup (see `DatabaseCopy`), the runtime configuration and the
  preflights, and `DeployRecord` for metadata and history: of what they write, the
  core model keeps nothing but the release's directory. `Records` keeps the rest: the
  file a deploy leaves in `runtime.env` in its preflight step, what the process read of it when it
  was started, and the log, a sequence of lines. A file that is not written to its end is
  a prefix (the log) or no configuration (`runtime.env`). A `WriteFile` is one step; the service
  does not read half of a file. Pruners touch neither the links nor these files and
  are left out of `Records`; `"readfile"` and `"writefile"` are the faults of the log.
- Versions are ranked by `Rank`, with ties, as `semver.Compare` ranks them;
  `sort.Slice` is not stable, so ties are broken in every way. Which releases a loop
  removes is taken from `Retention` in one step; `PruneLoops` is the loop itself, over `Compare`,
  and its run shows that the two agree.
- In `Semver`, what only `strings.Compare` ever sees (a name, what follows the first
  "-") is a number in that order: `-rc10` comes before `-rc9`, as in the code. A part of a version is a number, or `NaN` where `Atoi`
  finds none; `MaxInt` is the largest it returns.
- `DatabaseCopy` has the part of SQLite that a copy of the files can tell: a main file of
  pages; a log of frames, each with its page, the salt of its log and whether it is the
  last of a transaction; commits, checkpoints page by page, a log that starts over
  when it is checkpointed, and its deletion by a clean close. A page is the number of the transaction
  that wrote it, so that equal contents mean the same transaction. `Recover` is what opening two
  files finds. The `-shm` file is an index that is rebuilt, and has no contents. The copy reads one page or
  frame at a time, which is at most what `io.Copy` reads in one call; a file that is
  deleted while it is open stays readable (`orphan`). SQLite is external: it is
  modelled from its documented file format, because `copyDatabase` relies on it.
- `HealthPoll` counts time in ticks of 500 ms and is urgent: it passes when neither the program nor
  an answering service has anything to do. Restarting, the network and a `Check`
  that is answered take no time of their own; a service that takes time is `"hung"` for so long.
- In `Process`, an argument is one of 15 tokens: the long and the short form of a flag are
  one, and `"w"` stands for every other word, names and paths among them. A deploy map's file is absent,
  unparsable, or entries of numbers, completeness and what the templates come to; the
  files may be replaced between any two reads, so that each read may find any of `Files`. `min_disk_space` is
  defaulted like the others and left out: only a preflight reads it. An artifact is the
  number of its publication, and its hash the same number; `Cut` is any other body. What a command does to
  links and releases is in `SvcDeploy`; in `Process` its steps succeed or fail.
- `Status` leaves what systemd reports open, and `release.json` is there, or not yet, or no longer.
- Out of scope: the entries of an archive one by one, and the contents of `release.json`.

## What the runs check

Passing runs:

| Run | Configuration | Properties |
|---|---|---|
| `links_atomic` | the symlink manager, 2 callers, 3 versions, `remove`, `symlink` and `rename` may fail, a caller may die anywhere; a `status` at any time | `LinkTypeOK`; `AtomicSwitch`: the manager implements `AtomicLink`; `StatusTypeOK`; `StatusIsCoherent`: over at most one call of the manager, the two links and the metadata that are printed belong together |
| `faults` | 1 operator, 3 versions, a database, all faults and kills; deploys of releases no link names, rollbacks to anything | `TypeOK`; `SuccessIsServed`; `LinkedCanStart`: neither link ever dangles; `LinkedReleaseStays`, `LinkedDataStays`: neither release nor its data is touched; `DeployLinksWhole`: a link comes to name a half-made release by a rollback only; `HalfMadeOnlyByFault`: a half-made release that no deploy will see to comes from a kill or a failing removal only; `StaleOnlyByFault`: only a death or a dead systemd leaves a process of another release than `current`; `StepsRunOut`: a command's steps are numbered when it starts, and nothing adds to them |
| `outcomes` | 2 operators, links do not fail, everything else does; deploys of any release | `MutualExclusion`; `FailureRestores`; `SuccessIsUndoable`; `OldIsPrevious`; `AllOrNothing`: the system implements `Cutover` |
| `progress` | 1 operator and 1 pruner, kills and failing removals, fairness | `AllOrNothing` and `StepsRunOut` beside a pruner; `CommandsEnd`; `PrunesEnd` |
| `records` | 1 operator, 2 versions, deploys of any release, kills and a dead systemd, the two files | `RecordsTypeOK`; `LogTellsCurrent`: the last line names the current release, unless a kill came between a switch and its line; `ConfigIsServed`: the process a success leaves behind has read the configuration that is in place |
| `retention` | both pruning loops over every listing of up to four of nine names, and one of six, all links, limits 0 to 2 | `LoopsTypeOK`; `DeployPrunesVictims`, `PruneRemovesOld`: the loops remove what `Retention` says, in the order `Key` gives to names; `RemainingIsTrue` |
| `database` | a database of 2 pages, 2 transactions, 2 deploys to one target, checkpoints, deletions of the log, failing calls and kills | `DbTypeOK`; `CopyIsSnapshot`: the copy opens as one state the database was in since the deploy began, unless the log started over meanwhile or the target keeps an older one |
| `process` | every command line of up to 4 of 15 tokens, 10 contents of a deploy map, 2 further publications, a service that is up, down or hung in each tick | `ProcessTypeOK`; `FlagsAnywhere`: the loop makes of the arguments what a definition without a loop says; `ConfigIsUsable`; `SuccessIsSound`: what exit status 0 means; `PollEndsInTime`, `NoFalseTimeout`; `ProcessAdvances`: no step brings the end no nearer; `ProcessEnds` |

Violated on purpose: what a document says and the code does not do.

| Run | Property | What happens |
|---|---|---|
| `redeploy` | `LinkedReleaseStays` | `manual.md:238`: "The tool never deletes the releases referenced by `current` or `previous`." A deploy of the current version that fails before the cutover calls `RemoveAll` on the live release |
| `prune_race` | `LinkedReleaseStays` | `svc-deploy-spec.md:219`: "Prune keeps exactly configured N releases and never removes `current` or `previous`." A prune that read the links before a deploy's cutover removes the release that is now current |
| `prune_count` | `PruneKeepsExactly` | The first half of the same sentence. The loop counts a protected release only when it comes to it: one that is behind the newest *N* is kept beside them, and *N* + 1 releases stay. (`manual.md:238` grants that "the number of release directories left on disk can be higher") |
| `backup` | `BackupIsPreDeploy` | `svc-deploy-spec.md:40`: "keep compressed pre-deploy DB backup", and `:51`: "for emergency restore/disaster recovery". `createBackup` archives the main file only and the service goes on: what is in the log is missing, and a checkpoint between two reads tears the archive |

So `LinkedReleaseStays` and `LinkedDataStays` hold, under every fault, exactly
as long as nobody deploys a linked release and no prune runs beside a command;
and "the old current is in `previous`", on which the automatic rollback relies,
as long as `os.Remove` and `os.Symlink` do not fail. With `"symlink"` in the `Faults` of
`outcomes`, TLC finds a `SetCurrent` that returns nil with the old release in neither link;
with `DeployScope` and a database as in `redeploy`, a deploy of the current version that truncates
the database it is about to copy onto itself; and `"readfile"` in `Records` is an
`appendHistory` that drops the error of `ReadFile` and writes its line over the whole log.

`CopyIsSnapshot` holds because the log is copied after the pages: a page that a checkpoint wrote
while it was being read has its frames in the log, which wins. Both exceptions it names are reachable,
and in both the copy can open as a database that never was: a log that is started
over, or deleted by a clean close, while the copy is on its way no longer has the frames of the pages
read before; and where the source has no log, the one that an earlier, killed attempt has left in the target is not removed.
`StatusIsCoherent` holds because `previous` is written before `current` and read after it; over
two switches, or one that fails half-way and a second one, `status` may print a pair that never was.

### Bounds

- `Versions`: two links, plus one release to be deployed or pruned, is three
  (`progress`, the one run with liveness, has two). `KeepReleases = 1` makes the
  pruning loops remove something with that few: after a fault has left
  `previous` empty or equal to `current`, or when both links name what they
  protect, one of three releases is kept and another is removed.
- `Operators`: two where what one command leaves matters to another that is
  running (`outcomes`); the lock makes more of them queue at `Acquire`.
  In `faults` one operator issues one command after another: as no command
  changes anything without the lock, a second would add only waiting. Archives
  ship no database in the runs: that some may is covered by the theorems, which hold for any `ShipsDb`.
- `Pruners`: one, as pruners share nothing but what they remove.
- `MaxEntries`: no command is issued once the log has that many lines. It is the
  only bound in a guard (no other counter grows); two lines are a line and one that
  follows it, which is all that an append distinguishes.
- `Configs`: one, as a configuration differs from none and from itself only.
- `retention`: nine names, so that each comparison of `Compare` decides between two of them: major, minor
  and patch numbers, a tie (`1.10`, `1.10.0`), two pre-releases (`rc10`, `rc9`), a number too large for an int and a
  name that is no version, which are both invalid. A listing has at most four of them (`FewListed`), or is one of six,
  which the default limit of five, behind the 0 in `Keeps`, does not keep. The other limits are below and at
  the number of links; four listed releases are more than either. A loop ends and is not run again:
  the run does not check for deadlock.
- `database`: two pages can be torn, and a transaction can change one or both; two transactions are one
  that is checkpointed half-way and one that starts the log over; the second attempt finds what the
  first has left. `backup` needs one of each. Transactions and attempts are bounded in the guards
  of `Transaction` and `CopyBegin`; when they are used up the system may stop.
- `process`: four arguments are a command, its service, and two more (a flag with its path, `--keep` with
  its value, or flags on both sides); the longest command that needs all its words is
  three. Two republications put a newer artifact before, and one between, the two requests. Timeouts of 3 and 4
  seconds are shorter than the client's five (`ClientTimeout = 10` ticks), those of 30, the default, longer: a
  check is cut off by either. `Files` has one file for each way `Load` and the URLs can go. A process
  ends: the run does not check for deadlock.
- `links_atomic`: the reader starts over when it has printed. `calls` stops at two, and `pairs` is
  kept for one call only.
- `RankDef` ranks one version below the others, which tie. Operators are
  symmetric, and so are tied versions whose archives ship the same files; the
  runs with liveness use no symmetry. In `faults` all versions tie (`TiedDef`), so that a pruning loop may take them
  in any order, also in that of any ranks, and all are alike.

### Fairness

`FairSpec` is weakly fair to each command in progress and to each pruner, and
to nothing else. Each call a command makes returns or is ended by a
timeout: the HTTP client has one, `waitForHealth` has a deadline, systemd bounds a
restart, the lock is not waited for. `ProcessSpec` is weakly fair to the steps of the one
process, of which the passing of time is one, and not to the publisher; that the
service comes up is nowhere assumed, and may never happen. Nobody is obliged to issue a command,
no process to die, no service to start, to stay up, or to answer.

## What is proved

For any number of operators, pruners and versions, any `KeepReleases`, any
`Rank`, and (where nothing else is said) any `Faults`:

| Theorem | Says |
|---|---|
| `LinkProofs!LinkTypes` | `LinkSpec => []LinkTypeOK` |
| `LinkProofs!AtomicSwitchHolds` | `LinkSpec => AtomicSwitch`: the manager refines `AtomicLink` |
| `LinkProofs!OldIsPreviousHolds` | `LinkSpec => []OldIsPrevious`, if `"remove"` and `"symlink"` are not in `Faults` |
| `SvcDeployProofs!CommandsAreClients` | `Spec => LinkSpec`: the commands use the manager as `LinkSpec` says its clients do, so that what is proved of it holds of the whole system |
| `SvcDeployProofs!TypesHold` | `Spec => []TypeOK` |
| `SvcDeployProofs!MutualExclusionHolds` | `Spec => []MutualExclusion` |
| `SvcDeployProofs!SystemSwitchesAtomically` | `Spec => AtomicSwitch`, from the two before it |
| `SvcDeployProofs!SuccessIsServedHolds` | `Spec => []SuccessIsServed` |
| `SvcDeployProofs!StepsRunOutHolds` | `Spec => StepsRunOut`, if `Versions` is finite |
| `CutoverProofs!FailureRestoresHolds` | `Spec => []FailureRestores`, if `LinksDoNotFail` |
| `CutoverProofs!SuccessIsUndoableHolds` | `Spec => []SuccessIsUndoable`, if `LinksDoNotFail` |
| `CutoverProofs!AllOrNothingHolds` | `Spec => AllOrNothing`, if `LinksDoNotFail`: the whole system refines `Cutover` |
| `SvcDeployProofs!StaleOnlyByFaultHolds` | `Spec => StaleOnlyByFault`, under any `Faults` |
| `SvcDeployProofs!AtRestRunsCurrentHolds` | `Spec => []AtRestRunsCurrent`, if `CommandsRestart` |
| `CutoverProofs!LinkedCanStartHolds` | `Spec => []LinkedCanStart`, if `OnlyFresh` |
| `CutoverProofs!LinkedReleaseStaysHolds` | `Spec => LinkedReleaseStays`, if `OnlyFresh` |
| `CutoverProofs!LinkedDataStaysHolds` | `Spec => LinkedDataStays`, if `OnlyFresh` |
| `CutoverProofs!DeployLinksWholeHolds` | `Spec => DeployLinksWhole`, if `OnlyFresh` |
| `CutoverProofs!HalfMadeOnlyByFaultHolds` | `Spec => HalfMadeOnlyByFault`, if `Pruners = {}` |
| `CutoverProofs!CopyIsWholeHolds` | `Spec => []CopyIsWhole`, if `RemovalsComplete` |
| `RecordProofs!RecordsAreCommands` | `RecordsSpec => Spec`: all of the above holds with the two files, too |
| `RecordProofs!RecordsTypesHold` | `RecordsSpec => []RecordsTypeOK` |
| `RecordProofs!LogTellsCurrentHolds` | `RecordsSpec => []LogTellsCurrent`, if `LinksDoNotFail` and the log can be written (it need not be readable) |
| `RecordProofs!ConfigIsServedHolds` | `RecordsSpec => []ConfigIsServed`, if `"remove"` is not in `Faults` |
| `RetentionProofs!CompareFollowsKeys` | `Compare` is the lexicographic order of the keys, for all names |
| `RetentionProofs!CompareAntisymmetric`, `CompareTransitive` | it is a strict weak order, as `sort.Slice` needs |
| `RetentionProofs!LoopsInvHolds`, `LoopTypesHold` | what either loop has called for at each iteration, and the types, for any finite listing, any links and limits |
| `RetentionProofs!DeployPrunesVictimsHolds`, `PruneRemovesOldHolds` | what the loops have called for when they end is a set that `PruneVictims` or `PruneRemovals` allows: the system's model, which removes such a set, prunes as the loops do |
| `RetentionProofs!DeployKeepsLimit`, `PruneKeepsLimit` | how many releases those sets leave: a deploy keeps the protected ones and the limit of others, or all there are; prune the limit, or all there are, and at most the protected ones more |
| `RetentionProofs!RemainingIsTrueHolds` | `[]RemainingIsTrue` for the loop of `prune` |
| `DatabaseProofs!DbInvHolds`, `DbTypesHold` | how source, copy and place fit together, and the types, for any number of pages, transactions and attempts |
| `DatabaseProofs!CopyIsSnapshotHolds` | `DbSpec => []CopyIsSnapshot`: the copy opens as one state the database was in since the deploy began, *unless* the log was started over or deleted while the copy was on its way, or the target keeps a log the source no longer has; either can happen |
| `StatusProofs!StatusOnlyReads` | `StatusSpec => LinkSpec`: what is proved of the manager holds beside a reader |
| `StatusProofs!StatusTypesHold` | `StatusSpec => []StatusTypeOK` |
| `StatusProofs!StatusIsCoherentHolds` | `StatusSpec => []StatusIsCoherent`, under any `Faults` and deaths |
| `ProcessProofs!ProcessTypesHold` | `ProcessSpec => []ProcessTypeOK` |
| `ProcessProofs!FlagsAnywhereHolds` | `ProcessSpec => []FlagsAnywhere`, for any arguments, however many |
| `ProcessProofs!ProcessAdvancesHolds` | `ProcessSpec => ProcessAdvances` |
| `ProcessProofs!ConfigIsUsableHolds` | `ProcessSpec => []ConfigIsUsable`, for any files and any replacements between two reads |
| `ProcessProofs!SuccessIsSoundHolds` | `ProcessSpec => []SuccessIsSound`, for any arguments, files, timeouts and publications |
| `ProcessProofs!ProcessPolls` | `ProcessSpec => HealthSpec`: the poll with any command, entry and timeout around it |
| `ProcessProofs!PollEndsInTimeHolds`, `NoFalseTimeoutHolds` | `ProcessSpec => []PollEndsInTime` and `[]NoFalseTimeout`, for any `ClientTimeout` |

`LinksDoNotFail` says that `"remove"`, `"symlink"` and `"rename"` are not in `Faults`;
kills, failing removals, a dead systemd and pruners are all still there. It is
needed: one failing `Symlink` on `previous`, and the old release is in neither link.
`OnlyFresh` says that `DeployScope = {"fresh"}` and `Pruners = {}`, with every fault;
`redeploy` and `prune_race` show that neither half can go.
`CommandsRestart` says that `"kill"` and `"systemctl"` are not in `Faults`: a command that dies between the
switch and the restart, or a `systemctl` that does not reach systemd, leaves the old process under the new link.
`RemovalsComplete` says that `"kill"` and `"removeall"` are not, that nobody deploys the current release again, and
`Pruners = {}`: a dead deploy, or one whose `RemoveAll` fails, leaves half of a database behind, which stays where
the current release has none to copy over it;
a deploy of the current release copies a database onto itself; and a prune may take the release from under the deploy.
Without `"remove"` out of `Faults` a `runtime.env` that the repository no longer has may stay in place,
unreported, while the deploy that read none goes on.

The argument. `AtomicSwitch` needs to know what a rename moves over `current`:
a temporary link may be one that an earlier, killed call left behind. `LinkInv`
adds that only one call is in progress, and that when it comes to its rename,
the temporary link is the one it has made (`TempLinkIsMine`): it removed the old
one, or failed at the `Symlink`. For the whole system `BaseInv` is inductive: types,
`LinkInv`, the lock (`pc[p] # "idle" <=> lock = p`), which command is in which call of the
manager (`CallsOfCommands`), and that a command past its validation has a
version (`VersionsKnown`). The lock is what makes `OneCallAtATime` true, which
`LinkSpec` assumes of its clients. `SuccessIsServed` is not inductive: it says
nothing until the command has succeeded. `TargetFollows` carries it from the
switch on: the call in progress switches to `target`, afterwards `current` is
`target`, and from the restart on nothing older runs, because a
restart leaves no process or one started from `current`, and systemd, too, starts only
what `current` names.

`FailureRestores`, `SuccessIsUndoable` and `AllOrNothing` need to know where the
release to go back to is at each step. `FromFollows` says so: in `current` and the
call's `smold` while the command switches, in `previous` once it has, in the `smver` of
the call that restores it, and in `current` again. `LinksFollow` carries it through
the file-system calls inside a call, and shows that the only call that can fail is a
`RollbackCurrent` that finds no `previous`, which is a first deploy with nothing
to go back to. Together with `BaseInv` and `TargetFollows` this is `CutoverInv`. The refinement
maps each step of a command to one of `Cutover`'s: the rename of its own switch to
`Switch`, the health check to `Commit`, the failing steps before the switch and the rename
that undoes it to `Abort`, return or death to `Close`, everything else to a
stutter.

The three theorems about linked releases rest on `ReleasesInv`: what a link
names, *or a call in progress is about to link*, has a binary; a deploy that may
still remove its own release deploys one that no link names, nor the call's
`smold`; and what a pruning loop still has to remove no link names, since the links do not
move while it runs. `RemoveAllSpares` (a removal, even one that fails half-way,
touches its own release only) and `PruneVictimsSpare` do the rest.

`LogTellsCurrent` is proved from the refinement of `Cutover`: the last line names `Base`, the release
to go back to, while a command is on its way, and `current` once the command has
written its own line (`LogFollows`). Of `Cutover`'s actions only `Abort` and `Close` could
change that, and they move `base` to where it was or to `active`; only a `Close` out of
"switched", or before the line, which is a kill, breaks it.

`AtRestRunsCurrent` and `ConfigIsServed` are both about a debt. `RunsFollow` says that only a command that has
moved `current` and has not come to its restart (`OwesRestart`, each way back included) lets an older process run.
It is not inductive under every fault, and `StaleOnlyByFault` says exactly which steps break it: the death of a
command that owes a restart, and its last restart when that does not reach systemd. `AtRestRunsCurrent` follows where
neither is among the faults. `ConfigFollows` says that `runtime.env` is what a deploy has read from the moment it is
put in place, and that from the restart on the process has read it, whenever systemd starts it again.
`CopyIsWhole` follows from `WholeFollow`: a release with half a database is always the
target of a deploy that is still to complete it or to remove it, and the release a deploy
copies from is another one than it is making.

`HalfMadeOnlyByFault` and `DeployLinksWhole` have one invariant between them. `MadeFollow` says that a deploy past its
extraction has a target that is whole, whatever it found in the directory: an extraction that succeeds leaves nothing of an
earlier one half done, and one that fails leads to the cleanup. It holds under every fault, as only the deploy itself
touches its target; so a half-made release that loses the deploy which was to see to it has lost it to a kill, or to a `RemoveAll`
that failed. `LinkedInv` adds what `ReleasesInv` knows of the links and of the call that is about to move one
(`CallsFollow`): a deploy's switch moves a link to its own whole target or to what a link named before.

The loops of `PruneLoops` are compared with sets. `LoopInv` says that what a loop has called for is the unprotected
part of the segment `ToKeep(Limit) + 1 .. next - 1` of the sorted slice, and that what it counts and
what it removes make up all it has been over. That such a segment is what `PruneVictims` and `PruneRemovals`
describe by ranks is `PrefixIsNewest`: in a sorted enumeration, whichever way ties fell, the first
*k* are a set of *k* newest. It rests on `RankFollowsCompare` and so on `Compare` being a strict weak order.

`CopyIsSnapshot` needs three invariants. `SourceInv` is SQLite's side: a log ends with a
commit, frames of older logs behind it can be told from it by their salt, and what the database opens as is
the last committed state; `TransactionRecovered` and `RestartRecovered` show it for a transaction of any number of pages that
is appended, or starts the log over. `ControlInv` is copyDatabase's: which file is there and how
far it has come. `CopyInv` relates the two until the log is started over: while pages are read, a page of which the log has no frame
is the same in the copy as in the source (`PagesFollow`), so that the log the source has by now makes the copied
pages, torn as they may be, the source's present state (`CopyWithLog`); while frames are read,
the copy has a beginning of the log (`LogFollows`), or has come to its end, opens as one of
the states since the deploy began, and ignores what it still reads behind the end (`LogEnded`, `EndedStays`).

`StatusIsCoherent` is about two reads, and so about what may happen between them. `StatusInv` says
of that time that as long as the one call that overlaps it has not renamed, `current` is what was read
(`OldIsCurrent` gives the call's `smold`), and that afterwards `previous` is the release that was read, or
was beside it at one moment, or is gone; `RollbackCurrent`, which renames before it touches `previous`, still has
that release in its `smold`.

`NoFalseTimeout` needs to know why a poll has waited. `HealthInv` says it: with no tick to take, the
service has just been seen failing; a check that outlasts a tick was sent to a service that was
not up then; no check is longer than `ClientTimeout`, and a tick is waiting when it ends. So a poll that is still on
at its deadline has seen the service not up within `ClientTimeout` of it. `CommandInv` is what a
command has in hand at each phase: an entry whose numbers are numbers, the deadline of its own timeout, and, from the
download on, bytes that are the ones expected; `ProcessPolls` needs it too, for the timeout it polls with.
`PhaseInv` and `MapInv` say what it has read by then: at most two files, of which the last one is the map in use, and
none before it could be loaded; `ConfigIsUsable` follows, as `Validate` fills in or refuses each zero.

`FlagsAnywhere` compares the loop with a definition that has none: which argument is the path of a `-c`
depends on how many `-c` stand in a row before it, and which argument belongs to the command on where the
first `--` is that is no path. `ParseInv` is the loop's invariant: the argument it comes to is no path and not behind a `--`, and
what it has made of the arguments before it is what the definition makes of them (`ReadSoFar`). It
rests on `PathsAlternate` (of a row of `-c` each takes the next, in turn), `BehindGrows` and `PlainGrows`, which say
what one more argument changes.

`StepsRunOut` and `ProcessAdvances` are variant functions: a number that every step of the one who is to end
makes smaller and that no step of anybody else makes larger. `StepsLeft` is the way from the place a command is at
to its end, which is at most 24 steps, the calls on links included, with one more for each release
that it may have to remove; `PollLeft` is three steps a tick up to the deadline, with what the tick in
the channel still gives rise to. Over a finite `Versions`, as a
directory listing is, a command can therefore take but finitely many steps, under any faults, for any number of
operators and pruners. `CommandsEnd`, `PrunesEnd` and `ProcessEnds` say more only in that there always is a step to
take and that it is taken.

The theorems rest on the named assumptions on constants only
(`NoVersionAssumption`, `HostAssumption`, `DeployAssumption`,
`PruneAssumption`, `RecordsAssumption`, `SemverAssumption`, `PruneLoopsAssumption`, `DatabaseAssumption`, `NoFileAssumption`,
`FetchAssumption`, `HealthAssumption`, `ProcessAssumption`), which TLC evaluates in the runs. `PruneLoopsAssumption` has
`Versions` finite, as a directory listing is; `NoFileAssumption` says that no file's contents are the
absence of a file. `MaxTx` and `MaxAttempts` bound the guards in `DatabaseCopy`, and the theorems hold for every value of them.

TLC has checked the inductive invariants on the runs' configurations before they were
proved: `CutoverInv` on `outcomes` and `progress`, `ReleasesInv` and `LinkedInv` on `faults`, `RunsFollow` and `WholeFollow` on runs without kills
(each also with all the faults and, for the first, the pruners that its theorem allows), `LogFollows` and
`ConfigFollows` on `records`, `LoopInv` on `retention`, `SourceInv`, `ControlInv` and `CopyInv` on `database`
(and there with three transactions, of which only the third can follow one that has started the log over),
`StatusInv` on `links_atomic`, `HealthInv`, `ParseInv`, `CommandInv`, `PhaseInv` and `MapInv` on `process`.
`Links` and `Invariants` state those of the manager and the commands; the others stand beside the proofs that use them.

Only model-checked: liveness (`CommandsEnd`, `PrunesEnd`, `ProcessEnds`). What the two variant functions leave of it,
that a step is always possible and that a process which can take one does, is about `ENABLED` and fairness,
which are beyond the prover. Each invariant and each action property of the passing runs is a theorem.

Only proved, and checked by no run beside: `AtRestRunsCurrent` and `CopyIsWhole`, whose assumptions no run makes. In `faults`
`CopyIsWhole` does not hold: a deploy that is killed while it copies leaves half a database in its target, and where the current release has none by the
time of the next attempt, `copyDatabase` returns nil and leaves it there. The note to `deploy.go:286` among the hazards says so, too.

## Not modelled, and the plan

What is left of the program, and why it is not here:

- The entries of an archive and the validation of their paths (`ExtractTar`): a pure function of bytes.
- The contents of `release.json` and its fields; the commit that `ConfigRepo` reports; `Warnings`. Nothing reads them
  back but `status`, which prints them.
- What the preflights look at (disk space, the secrets file): they succeed or fail at every deploy.
- What systemd reports of the unit to `status`, and `Stop`, which nothing calls.
- Output, log wording, and the helpers of `config.go` that build paths.
- The test support under `internal/testutil` and `internal/integrationtest`.

Next: weaker hypotheses for `HalfMadeOnlyByFault` (pruners whose victims are not the deploy's).
