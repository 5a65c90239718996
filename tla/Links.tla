------------------------------- MODULE Links -------------------------------
(***************************************************************************)
(* What the symlink manager's two calls guarantee to their callers,        *)
(* whatever fails and wherever a process dies.                             *)
(***************************************************************************)
EXTENDS SymlinkManager

(***************************************************************************)
(* A call takes effect at its rename: before it, `current` is as the call  *)
(* found it; once it has happened, the rest of the call cannot fail.       *)
(***************************************************************************)
CallState(p) ==
  CASE smpc[p] = "idle" -> "idle"
    [] smpc[p] = "err" -> "failed"
    [] smpc[p] \in {"rbDropPrevious", "rbLinkPrevious", "ok"} -> "applied"
    [] OTHER -> "pending"

Atomic ==
  INSTANCE AtomicLink
  WITH Callers <- Operators,
       Values <- Versions,
       NoValue <- NoVersion,
       link <- current,
       call <- [p \in Operators |-> CallState(p)],
       want <- smver

\* "SetCurrent atomically updates the current symlink", and so does
\* RollbackCurrent: whatever file-system call fails, and wherever the process
\* dies with its temporary links left behind, `current` goes from the old
\* release to the one the call was given in one step, and a call that returns
\* an error has left it alone.
AtomicSwitch == Atomic!Spec

\* "The old current is moved to previous": a call that succeeds and found
\* a current release has left that release in `previous`, so that a rollback
\* undoes it.  It holds where os.Remove and os.Symlink do not fail (their
\* errors on `previous` are ignored).
OldIsPrevious ==
  \A p \in Operators :
    smpc[p] = "ok" /\ smold[p] # NoVersion => previous = smold[p]

-----------------------------------------------------------------------------
(* Why they hold: inductive invariants.                                    *)

OneCallAtATime ==
  \A p, q \in Operators : smpc[p] # "idle" /\ smpc[q] # "idle" => p = q

IdleHasNoLocals ==
  \A p \in Operators :
    smpc[p] = "idle" => smver[p] = NoVersion /\ smold[p] = NoVersion

\* What a rename moves over `current` is the link the call has made, never
\* one that an earlier call left behind.
TempLinkIsMine ==
  \A p \in Operators :
    /\ smpc[p] = "setRename" => newLink = smver[p]
    /\ smpc[p] = "rbRename" => rollbackLink = smver[p]

LinkInv == LinkTypeOK /\ OneCallAtATime /\ IdleHasNoLocals /\ TempLinkIsMine

\* `previous` along a call, where os.Remove and os.Symlink do not fail.
PreviousFollows ==
  \A p \in Operators :
    /\ smpc[p] \in {"setLinkPrevious", "rbLinkPrevious"} => previous = NoVersion
    /\ smpc[p] \in {"setDropTemp", "setLinkTemp", "setRename", "ok"} =>
         smold[p] = NoVersion \/ previous = smold[p]
=============================================================================
