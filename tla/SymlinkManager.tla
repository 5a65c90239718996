--------------------------- MODULE SymlinkManager ---------------------------
(***************************************************************************)
(* AtomicSymlinkManager: the two symbolic links of a service, `current`    *)
(* and `previous`, and the two calls that move them.  Each call is a       *)
(* sequence of file-system calls, one action per call, so that a crash, a  *)
(* failing call or a reader can come between any two of them.              *)
(*                                                                         *)
(* A link is modelled by the version whose release directory it names, or  *)
(* NoVersion when the link does not exist (the code only ever uses the     *)
(* base name of a link's target).                                          *)
(***************************************************************************)
CONSTANTS
  Operators,    \* the svc-deploy processes that may call the manager
  Versions,     \* the release versions
  NoVersion,    \* the link does not exist / the Go string ""
  Faults        \* the file-system calls that may fail with an I/O error

ASSUME NoVersionAssumption == NoVersion \notin Versions

VARIABLES
  current,       \* the link <service>/current
  previous,      \* the link <service>/previous
  newLink,       \* the temporary link <service>/.current.new
  rollbackLink,  \* the temporary link <service>/.current.rollback
  smpc,          \* smpc[p]: where p is inside a call, or how its call ended
  smver,         \* smver[p]: the version the call makes current
  smold          \* smold[p]: the call's local variable oldCurrent

links == <<current, previous, newLink, rollbackLink>>
smcalls == <<smpc, smver, smold>>
smvars == <<links, smcalls>>

MaybeVersion == Versions \cup {NoVersion}

InSetCurrent == {"setDropPrevious", "setLinkPrevious", "setDropTemp",
                 "setLinkTemp", "setRename"}
InRollbackCurrent == {"rbDropTemp", "rbLinkTemp", "rbRename",
                      "rbDropPrevious", "rbLinkPrevious"}
Returned == {"ok", "err"}

\* The types, and that a call in progress has a version to make current.
LinkTypeOK ==
  /\ current \in MaybeVersion
  /\ previous \in MaybeVersion
  /\ newLink \in MaybeVersion
  /\ rollbackLink \in MaybeVersion
  /\ smpc \in [Operators -> {"idle"} \cup InSetCurrent \cup InRollbackCurrent
                              \cup Returned]
  /\ smver \in [Operators -> MaybeVersion]
  /\ smold \in [Operators -> MaybeVersion]
  /\ \A p \in Operators :
       smpc[p] \in InSetCurrent \cup InRollbackCurrent => smver[p] \in Versions

LinkInit ==
  /\ current = NoVersion
  /\ previous = NoVersion
  /\ newLink = NoVersion
  /\ rollbackLink = NoVersion
  /\ smpc = [p \in Operators |-> "idle"]
  /\ smver = [p \in Operators |-> NoVersion]
  /\ smold = [p \in Operators |-> NoVersion]

-----------------------------------------------------------------------------
(* File-system calls on one link.  Symlink fails when the name exists.     *)

\* fs.Remove(link), its error ignored by every caller
Remove(link) ==
  \/ link' = NoVersion
  \/ "remove" \in Faults /\ UNCHANGED link

CanSymlink(link) == link = NoVersion

\* fs.Symlink(version, link), its error ignored
TrySymlink(version, link) ==
  \/ CanSymlink(link) /\ link' = version
  \/ ("symlink" \in Faults \/ ~CanSymlink(link)) /\ UNCHANGED link

Goto(p, label) == smpc' = [smpc EXCEPT ![p] = label]

-----------------------------------------------------------------------------
(* SetCurrent(servicePath, releaseVersion)                                 *)

\* Variant: `current` is not recorded in `previous` first.
SetCurrentForgetful(p, v) ==
  /\ smpc[p] = "idle"
  /\ smver' = [smver EXCEPT ![p] = v]
  /\ smold' = [smold EXCEPT ![p] = current]
  /\ Goto(p, "setDropTemp")
  /\ UNCHANGED links

\* The call, up to and including the Readlink of `current`.
SetCurrent(p, v) ==
  /\ smpc[p] = "idle"
  /\ smver' = [smver EXCEPT ![p] = v]
  /\ smold' = [smold EXCEPT ![p] = current]
  /\ Goto(p, IF current = NoVersion THEN "setDropTemp" ELSE "setDropPrevious")
  /\ UNCHANGED links

SetDropPrevious(p) ==
  /\ smpc[p] = "setDropPrevious"
  /\ Remove(previous)
  /\ Goto(p, "setLinkPrevious")
  /\ UNCHANGED <<current, newLink, rollbackLink, smver, smold>>

SetLinkPrevious(p) ==
  /\ smpc[p] = "setLinkPrevious"
  /\ TrySymlink(smold[p], previous)
  /\ Goto(p, "setDropTemp")
  /\ UNCHANGED <<current, newLink, rollbackLink, smver, smold>>

\* Variant: `current` is replaced in place, removed and linked again.
SetDropInPlace(p) ==
  /\ smpc[p] = "setDropTemp"
  /\ Remove(current)
  /\ Goto(p, "setLinkTemp")
  /\ UNCHANGED <<newLink, previous, rollbackLink, smver, smold>>

SetDropTemp(p) ==
  /\ smpc[p] = "setDropTemp"
  /\ Remove(newLink)
  /\ Goto(p, "setLinkTemp")
  /\ UNCHANGED <<current, previous, rollbackLink, smver, smold>>

SetLinkTemp(p) ==
  /\ smpc[p] = "setLinkTemp"
  /\ \/ /\ CanSymlink(newLink)
        /\ newLink' = smver[p]
        /\ Goto(p, "setRename")
     \/ /\ "symlink" \in Faults \/ ~CanSymlink(newLink)
        /\ UNCHANGED newLink
        /\ Goto(p, "err")
  /\ UNCHANGED <<current, previous, rollbackLink, smver, smold>>

\* os.Rename replaces `current` in one step, or fails and removes the
\* temporary link.
SetRename(p) ==
  /\ smpc[p] = "setRename"
  /\ \/ /\ current' = newLink
        /\ newLink' = NoVersion
        /\ Goto(p, "ok")
     \/ /\ "rename" \in Faults
        /\ Remove(newLink)
        /\ Goto(p, "err")
        /\ UNCHANGED current
  /\ UNCHANGED <<previous, rollbackLink, smver, smold>>

-----------------------------------------------------------------------------
(* RollbackCurrent(servicePath)                                            *)

\* Variant: the error of the Readlink of `previous` is not checked.
RollbackCurrentUnchecked(p) ==
  /\ smpc[p] = "idle"
  /\ smver' = [smver EXCEPT ![p] = previous]
  /\ smold' = [smold EXCEPT ![p] = current]
  /\ Goto(p, "rbDropTemp")
  /\ UNCHANGED links

\* The call, up to and including the Readlinks of `previous` and `current`.
RollbackCurrent(p) ==
  /\ smpc[p] = "idle"
  /\ smver' = [smver EXCEPT ![p] = previous]
  /\ smold' = [smold EXCEPT ![p] = current]
  /\ Goto(p, IF previous = NoVersion THEN "err" ELSE "rbDropTemp")
  /\ UNCHANGED links

RbDropTemp(p) ==
  /\ smpc[p] = "rbDropTemp"
  /\ Remove(rollbackLink)
  /\ Goto(p, "rbLinkTemp")
  /\ UNCHANGED <<current, previous, newLink, smver, smold>>

RbLinkTemp(p) ==
  /\ smpc[p] = "rbLinkTemp"
  /\ \/ /\ CanSymlink(rollbackLink)
        /\ rollbackLink' = smver[p]
        /\ Goto(p, "rbRename")
     \/ /\ "symlink" \in Faults \/ ~CanSymlink(rollbackLink)
        /\ UNCHANGED rollbackLink
        /\ Goto(p, "err")
  /\ UNCHANGED <<current, previous, newLink, smver, smold>>

RbRename(p) ==
  /\ smpc[p] = "rbRename"
  /\ \/ /\ current' = rollbackLink
        /\ rollbackLink' = NoVersion
        /\ Goto(p, "rbDropPrevious")
     \/ /\ "rename" \in Faults
        /\ Remove(rollbackLink)
        /\ Goto(p, "err")
        /\ UNCHANGED current
  /\ UNCHANGED <<previous, newLink, smver, smold>>

RbDropPrevious(p) ==
  /\ smpc[p] = "rbDropPrevious"
  /\ Remove(previous)
  /\ Goto(p, IF smold[p] = NoVersion THEN "ok" ELSE "rbLinkPrevious")
  /\ UNCHANGED <<current, newLink, rollbackLink, smver, smold>>

RbLinkPrevious(p) ==
  /\ smpc[p] = "rbLinkPrevious"
  /\ TrySymlink(smold[p], previous)
  /\ Goto(p, "ok")
  /\ UNCHANGED <<current, newLink, rollbackLink, smver, smold>>

-----------------------------------------------------------------------------

\* One file-system call of a SetCurrent or RollbackCurrent in progress.
LinkStep(p) ==
  \/ SetDropPrevious(p) \/ SetLinkPrevious(p) \/ SetDropTemp(p)
  \/ SetLinkTemp(p) \/ SetRename(p)
  \/ RbDropTemp(p) \/ RbLinkTemp(p) \/ RbRename(p)
  \/ RbDropPrevious(p) \/ RbLinkPrevious(p)

\* The caller goes on with the call's result, or its process dies: in both
\* cases the call's locals are gone and the links stay as they are.
LeaveCall(p) ==
  /\ smpc' = [smpc EXCEPT ![p] = "idle"]
  /\ smver' = [smver EXCEPT ![p] = NoVersion]
  /\ smold' = [smold EXCEPT ![p] = NoVersion]
  /\ UNCHANGED links

Return(p) == smpc[p] \in Returned /\ LeaveCall(p)
Die(p) == smpc[p] # "idle" /\ LeaveCall(p)

-----------------------------------------------------------------------------
(* The manager under an arbitrary client that makes one call at a time, as *)
(* every caller does: both commands call it with the service's lock held.  *)

Quiet == \A p \in Operators : smpc[p] = "idle"

LinkCall(p) ==
  /\ Quiet
  /\ RollbackCurrent(p) \/ \E v \in Versions : SetCurrent(p, v)

LinkNext == \E p \in Operators : LinkCall(p) \/ LinkStep(p) \/ Return(p) \/ Die(p)

LinkSpec == LinkInit /\ [][LinkNext]_smvars
=============================================================================
