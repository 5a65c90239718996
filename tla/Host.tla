-------------------------------- MODULE Host --------------------------------
(***************************************************************************)
(* The host one service lives on, as far as the commands of svc-deploy     *)
(* touch it: the lock file, the release directories, and the process that  *)
(* systemd runs.  The links are in SymlinkManager.                         *)
(*                                                                         *)
(* Of a release directory the model keeps what later code tests for: that  *)
(* it exists, that the file at BinaryPath exists, and what the database    *)
(* file under data/ holds: nothing that opens ("partial": truncated, or    *)
(* not fully written), what the archive shipped ("fresh"), or data that    *)
(* the service has written ("live").  And it keeps what no code can test   *)
(* for: that the last extraction into the directory, or the last removal   *)
(* of it, broke off in the middle.  No action reads it.                    *)
(***************************************************************************)
EXTENDS SymlinkManager

CONSTANTS
  NoOperator,   \* nobody holds the lock
  UsesDb        \* cfg.DBFilename # ""

ASSUME HostAssumption == NoOperator \notin Operators /\ UsesDb \in BOOLEAN

VARIABLES
  lock,      \* the holder of flock(/var/lock/svc-deploy-<service>.lock)
  dirs,      \* the versions that have a directory releases/<version>
  binaries,  \* the versions whose release has a file at BinaryPath
  torn,      \* those of them that an extraction or a removal has left half done
  db,        \* db[v]: the file releases/v/data/<DBFilename>
  running    \* the release the service's process was started from

files == <<dirs, binaries, torn, db>>
hostvars == <<lock, files, running>>

DbStates == {"absent", "partial", "fresh", "live"}

HostTypeOK ==
  /\ lock \in Operators \cup {NoOperator}
  /\ dirs \subseteq Versions
  /\ binaries \subseteq dirs
  /\ torn \subseteq binaries
  /\ db \in [Versions -> DbStates]
  /\ \A v \in Versions : db[v] # "absent" => v \in dirs
  /\ running \in MaybeVersion

HostInit ==
  /\ lock = NoOperator
  /\ dirs = {}
  /\ binaries = {}
  /\ torn = {}
  /\ db = [v \in Versions |-> "absent"]
  /\ running = NoVersion

-----------------------------------------------------------------------------
(* FileLocker: a non-blocking exclusive flock.  A call that finds the lock *)
(* taken returns an error and the command ends, having changed nothing;    *)
(* the kernel drops the lock of a process that dies.                       *)

\* Variant: a flock that succeeds whoever holds the lock.
AcquireShared(p) == lock' = p

Acquire(p) == lock = NoOperator /\ lock' = p
Unlock(p) == lock' = IF lock = p THEN NoOperator ELSE lock

-----------------------------------------------------------------------------
(* Release directories                                                     *)

MkdirAll(v) == dirs' = dirs \cup {v}

SetDb(v, s) == db' = [db EXCEPT ![v] = s]

\* Variant: the directory goes, and what was in it is still there.
RemoveDirOnly(v) == dirs' = dirs \ {v} /\ UNCHANGED <<binaries, torn, db>>

\* RemoveAll(releases/v), its error ignored: a failing call may already
\* have removed any of the files.
RemoveAll(v) ==
  \/ /\ dirs' = dirs \ {v}
     /\ binaries' = binaries \ {v}
     /\ torn' = torn \ {v}
     /\ SetDb(v, "absent")
  \/ /\ "removeall" \in Faults
     /\ v \in dirs
     /\ UNCHANGED dirs
     /\ binaries' \in {binaries, binaries \ {v}}
     /\ torn' = (torn \cup {v}) \cap binaries'
     /\ \E s \in {"absent", db[v]} : SetDb(v, s)

-----------------------------------------------------------------------------
(* The service.  Its unit runs <service>/current/bin/<service>, so the     *)
(* release that starts is the one `current` names at that moment.          *)

Startable == current \in binaries

Start == Startable /\ running' = current

Stopped == running' = NoVersion

\* Variant: the exit status of systemctl is not looked at.
RestartUnchecked ==
  Start \/ Stopped \/ ("systemctl" \in Faults /\ UNCHANGED running)

\* systemctl restart <unit>, and whether it reported an error.  A unit of
\* Type=simple may be reported as started although its process exits at
\* once; a systemctl that cannot reach systemd changes nothing, and one that
\* is cut off before the answer has restarted the unit all the same.
RestartOk == Start \/ Stopped
RestartErr ==
  \/ Stopped
  \/ "systemctl" \in Faults /\ (Start \/ UNCHANGED running)

\* A 2xx from the health URL: some process of the service answered.
Healthy == running # NoVersion

\* The process exits or crashes on its own.
ServiceExits ==
  /\ running # NoVersion
  /\ Stopped
  /\ UNCHANGED <<lock, files, links>>

\* Restart=on-failure: systemd starts the unit again.
SystemdRestarts ==
  /\ running = NoVersion
  /\ Start
  /\ UNCHANGED <<lock, files, links>>

\* The first write to the database that came with the release, or the
\* creation of one that did not.
ServiceWrites ==
  /\ UsesDb
  /\ running \in dirs
  /\ db[running] \in {"absent", "fresh"}
  /\ SetDb(running, "live")
  /\ UNCHANGED <<lock, dirs, binaries, torn, running, links>>
=============================================================================
