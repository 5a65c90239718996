---------------------------- MODULE DatabaseCopy ----------------------------
(***************************************************************************)
(* Steps 7 and 8 of a deploy, copyDatabase and createBackup, beside the    *)
(* old release's service, which still runs and writes to the database.     *)
(*                                                                         *)
(* A database in SQLite's WAL mode is a main file of pages and a log of    *)
(* frames: a transaction appends one frame for each page it changes and    *)
(* marks its last; a checkpoint writes the pages back, one by one; when    *)
(* all are back, the next transaction may start the log over from its      *)
(* beginning, under a new salt, or a clean close deletes it.  Whoever      *)
(* opens the database reads the log up to its last commit and no further   *)
(* than the salt of its first frame.  The -shm file is an index of the log *)
(* that is rebuilt then: the model keeps no contents for it.               *)
(*                                                                         *)
(* A page is the number of the transaction that wrote it.                  *)
(***************************************************************************)
EXTENDS Integers, Sequences, FiniteSetsExt

CONSTANTS
  NumPages,
  MaxTx,        \* bound: transactions the service commits
  MaxAttempts,  \* bound: deploys of the target
  NoFile,       \* the file does not exist
  Missing       \* a page not copied yet

ASSUME DatabaseAssumption ==
  /\ NumPages \in Nat \ {0}
  /\ MaxTx \in Nat
  /\ MaxAttempts \in Nat

VARIABLES
  main, wal,        \* the current release's database and its -wal file
  committed,        \* history: the state after each transaction, in order
  orphan,           \* the -wal file the copy has open, once it is deleted
  pc,               \* where the deploy is
  next,             \* the page or frame that is read next
  dstMain, dstWal,  \* the same files of the release being deployed
  backup,           \* the backup of this attempt
  attempts,
  began,            \* history: Len(committed) when the attempt began
  restarted,        \* history: the log was started over or deleted since
  stale             \* history: the target keeps an older attempt's -wal

source == <<main, wal, committed>>
copy == <<dstMain, dstWal, backup>>
history == <<attempts, began, restarted, stale>>
dbvars == <<source, orphan, pc, next, copy, history>>

Pages == 1..NumPages
Txs == 0..MaxTx
Copying == {"main", "findWal", "openWal", "wal", "shm"}

-----------------------------------------------------------------------------
(* What opening a database finds in its two files                          *)

\* The frames that belong to the log, of which a file may hold older ones
\* behind them.
InLog(w) == {i \in DOMAIN w : \A j \in 1..i : w[j].salt = w[1].salt}

Replayed(w) == {i \in InLog(w) : \E j \in InLog(w) : j >= i /\ w[j].commit}

Recover(m, w) ==
  IF m = NoFile THEN NoFile
  ELSE LET frames(p) == {i \in IF w = NoFile THEN {} ELSE Replayed(w) : w[i].page = p}
       IN  [p \in Pages |-> IF frames(p) = {} THEN m[p] ELSE w[Max(frames(p))].tx]

State == Recover(main, wal)

FrameSet == [page : Pages, tx : Txs, commit : BOOLEAN, salt : Txs]

ASSUME NoFileAssumption ==
  NoFile \notin Seq(FrameSet) \cup [Pages -> Txs \cup {Missing}]

DbTypeOK ==
  /\ main \in [Pages -> Txs] \cup {NoFile}
  /\ wal \in Seq(FrameSet) \cup {NoFile}
  /\ committed \in Seq([Pages -> Txs] \cup {NoFile})
  /\ orphan \in Seq(FrameSet) \cup {NoFile}
  /\ pc \in {"idle", "copied", "backup", "ended", "cleanup"} \cup Copying
  /\ next \in Nat
  /\ dstMain \in [Pages -> Txs \cup {Missing}] \cup {NoFile}
  /\ dstWal \in Seq(FrameSet) \cup {NoFile}
  /\ backup \in [Pages -> Txs \cup {Missing}] \cup {NoFile}
  /\ attempts \in 0..MaxAttempts
  /\ began \in 0..Len(committed)
  /\ restarted \in BOOLEAN /\ stale \in BOOLEAN
  /\ State = committed[Len(committed)]

DbInit ==
  /\ main \in {NoFile, [p \in Pages |-> 0]}
  /\ wal = NoFile
  /\ committed = <<main>>
  /\ orphan = NoFile
  /\ pc = "idle"
  /\ next = 1
  /\ dstMain = NoFile /\ dstWal = NoFile
  /\ backup = NoFile
  /\ attempts = 0 /\ began = 0
  /\ restarted = FALSE /\ stale = FALSE

-----------------------------------------------------------------------------
(* The service, through SQLite                                             *)

\* The service makes its database, or a connection an empty log.
CreateFile ==
  /\ \/ /\ main = NoFile
        /\ main' = [p \in Pages |-> 0]
        /\ committed' = Append(committed, main')
        /\ UNCHANGED wal
     \/ /\ main # NoFile /\ wal = NoFile
        /\ wal' = <<>>
        /\ UNCHANGED <<main, committed>>
  /\ UNCHANGED <<orphan, pc, next, copy, history>>

\* The frames of a transaction that changes the pages W.
Frames(W, tx, salt) ==
  [i \in 1..Cardinality(W) |->
     [page |-> CHOOSE p \in W : Cardinality({q \in W : q <= p}) = i,
      tx |-> tx, commit |-> i = Cardinality(W), salt |-> salt]]

Transaction(W) ==
  /\ main # NoFile /\ wal # NoFile
  /\ LET tx == Max({main[p] : p \in Pages} \cup {wal[i].tx : i \in DOMAIN wal}) + 1
         live == Cardinality(InLog(wal))
         rest(n) == SubSeq(wal, n + 1, Len(wal))
         added == Cardinality(W)
         salt == IF live = 0 THEN tx ELSE wal[1].salt
     IN  /\ tx <= MaxTx
         /\ \/ /\ wal' = SubSeq(wal, 1, live) \o Frames(W, tx, salt) \o rest(live + added)
               /\ UNCHANGED restarted
            \/ /\ live > 0 /\ main = State
               /\ wal' = Frames(W, tx, tx) \o rest(added)
               /\ restarted' = TRUE
         /\ committed' = Append(committed, [p \in Pages |-> IF p \in W THEN tx ELSE State[p]])
  /\ UNCHANGED <<main, orphan, pc, next, copy, attempts, began, stale>>

CheckpointPage(p) ==
  /\ main # NoFile
  /\ main[p] # State[p]
  /\ main' = [main EXCEPT ![p] = State[p]]
  /\ UNCHANGED <<wal, committed, orphan, pc, next, copy, history>>

\* The last connection closes, everything is back in the main file: the
\* log's name goes, and who has the file open still reads it.
DeleteWal ==
  /\ wal # NoFile /\ main = State
  /\ wal' = NoFile
  /\ orphan' = IF pc = "wal" /\ orphan = NoFile THEN wal ELSE orphan
  /\ restarted' = TRUE
  /\ UNCHANGED <<main, committed, pc, next, copy, attempts, began, stale>>

-----------------------------------------------------------------------------
(* copyDatabase                                                            *)

Goto(here, there) == pc = here /\ pc' = there

\* Up to CopyFile's os.Create of the main file, which truncates what an
\* earlier attempt has left; without a current release or a database there
\* is nothing to copy.
CopyBegin ==
  /\ attempts < MaxAttempts
  /\ attempts' = attempts + 1
  /\ began' = Len(committed)
  /\ restarted' = FALSE /\ stale' = FALSE
  /\ next' = 1
  /\ backup' = NoFile
  /\ pc \in {"idle", "ended"}
  /\ IF main = NoFile
       THEN pc' = "copied" /\ UNCHANGED dstMain
       ELSE pc' = "main" /\ dstMain' = [p \in Pages |-> Missing]
  /\ UNCHANGED <<source, orphan, dstWal>>

CopyPage ==
  /\ Goto("main", IF next = NumPages THEN "findWal" ELSE "main")
  /\ dstMain' = [dstMain EXCEPT ![next] = main[next]]
  /\ next' = next + 1
  /\ UNCHANGED <<source, orphan, dstWal, backup, history>>

\* Variant: the -wal file is left where it is.
CopyFindWalNever ==
  /\ Goto("findWal", "shm")
  /\ UNCHANGED <<source, orphan, next, copy, history>>

\* FS.Exists(walSrc)
CopyFindWal ==
  /\ Goto("findWal", IF wal = NoFile THEN "shm" ELSE "openWal")
  /\ stale' = (wal = NoFile /\ dstWal # NoFile)
  /\ UNCHANGED <<source, orphan, next, copy, attempts, began, restarted>>

\* Variant: the source and the target change places.
CopyOpenWalSwapped ==
  /\ Goto("openWal", "wal")
  /\ next' = 1
  /\ wal' = <<>>
  /\ UNCHANGED <<main, committed, orphan, dstMain, dstWal, backup, history>>

\* CopyFile opens the file that was there, and truncates the target's.
CopyOpenWal ==
  /\ IF wal = NoFile
       THEN Goto("openWal", "cleanup") /\ UNCHANGED <<next, dstWal>>
       ELSE Goto("openWal", "wal") /\ next' = 1 /\ dstWal' = <<>>
  /\ UNCHANGED <<source, orphan, dstMain, backup, history>>

CopyFrame ==
  /\ pc = "wal"
  /\ LET file == IF orphan = NoFile THEN wal ELSE orphan
     IN  IF next <= Len(file)
           THEN /\ dstWal' = Append(dstWal, file[next])
                /\ next' = next + 1
                /\ UNCHANGED <<pc, orphan>>
           ELSE /\ pc' = "shm"
                /\ orphan' = NoFile
                /\ UNCHANGED <<dstWal, next>>
  /\ UNCHANGED <<source, dstMain, backup, history>>

\* The -shm file is copied, or not there.
CopyShm ==
  /\ Goto("shm", "copied")
  /\ UNCHANGED <<source, orphan, next, copy, history>>

\* Any call of the copy fails: the disk is full, or the -shm file is gone
\* between Exists and Open.
CopyFails ==
  /\ pc \in Copying
  /\ pc' = "cleanup"
  /\ orphan' = NoFile
  /\ UNCHANGED <<source, next, copy, history>>

\* The RemoveAll(releasePath) of Run, which may fail or stop half-way.
CopyCleanup ==
  /\ Goto("cleanup", "idle")
  /\ dstMain' \in {NoFile, dstMain}
  /\ dstWal' \in {NoFile, dstWal}
  /\ UNCHANGED <<source, orphan, next, backup, history>>

-----------------------------------------------------------------------------
(* createBackup, best effort                                               *)

\* It archives the main file.
BackupBegin ==
  /\ \/ main = NoFile /\ Goto("copied", "ended") /\ UNCHANGED backup
     \/ main # NoFile /\ Goto("copied", "backup") /\ backup' = [p \in Pages |-> Missing]
     \/ Goto("copied", "ended") /\ UNCHANGED backup
  /\ next' = 1
  /\ UNCHANGED <<source, orphan, dstMain, dstWal, history>>

BackupPage ==
  /\ Goto("backup", IF next = NumPages THEN "ended" ELSE "backup")
  /\ backup' = [backup EXCEPT ![next] = main[next]]
  /\ next' = next + 1
  /\ UNCHANGED <<source, orphan, dstMain, dstWal, history>>

\* Its error is ignored, the file stays.
BackupFails ==
  /\ Goto("backup", "ended")
  /\ UNCHANGED <<source, orphan, next, copy, history>>

\* A SIGKILL, or any later failure: the files stay.
Kill ==
  /\ pc \notin {"idle", "ended"}
  /\ pc' = "idle"
  /\ orphan' = NoFile
  /\ UNCHANGED <<source, next, copy, history>>

-----------------------------------------------------------------------------

Service ==
  \/ CreateFile
  \/ \E W \in (SUBSET Pages) \ {{}} : Transaction(W)
  \/ \E p \in Pages : CheckpointPage(p)
  \/ DeleteWal

DeployCopies ==
  \/ CopyBegin \/ CopyPage \/ CopyFindWal \/ CopyOpenWal \/ CopyFrame
  \/ CopyShm \/ CopyFails \/ CopyCleanup
  \/ BackupBegin \/ BackupPage \/ BackupFails
  \/ Kill

DbNext == Service \/ DeployCopies

DbSpec == DbInit /\ [][DbNext]_dbvars

-----------------------------------------------------------------------------

\* The states the database was in since the attempt began.
Since == {committed[i] : i \in began..Len(committed)}

Copied == pc \in {"copied", "backup", "ended"} /\ began > 0

\* "copy DB from current release to new release before startup": although
\* it is read page by page while the service commits and checkpoints, and
\* over the leavings of an attempt that was killed, the copy opens as the
\* database was at one moment since the attempt began.  The log is read
\* after the pages, and so has what a checkpoint wrote to only some of them.
\* Except where the log was started over or deleted meanwhile, or the target
\* keeps a log the source no longer has.
CopyIsSnapshot ==
  Copied /\ ~restarted /\ ~stale => Recover(dstMain, dstWal) \in Since

\* "Create compressed pre-deploy DB backup": a backup that was written to
\* its end holds a state the database was in since the deploy began.
BackupIsPreDeploy ==
  pc = "ended" /\ backup # NoFile /\ (\A p \in Pages : backup[p] # Missing)
    => backup \in Since
=============================================================================
