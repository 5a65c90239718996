------------------------------- MODULE Cutover -------------------------------
(***************************************************************************)
(* What a deploy or a rollback promises about the active release, without  *)
(* saying how: one command at a time, it switches the active release at    *)
(* most once, and it ends either committed, with the release it was asked  *)
(* for active, or aborted, with the release that was active before.  Only  *)
(* where nothing was active before is there nothing to go back to.         *)
(***************************************************************************)
CONSTANTS Versions, NoVersion

VARIABLES
  active,  \* the release the service runs from when it is started
  phase,   \* how far the command in progress is
  base,    \* the release to go back to if that command fails
  goal     \* the release it has switched to

cutovervars == <<active, phase, base, goal>>

Init ==
  /\ active = NoVersion
  /\ phase = "idle"
  /\ base = NoVersion
  /\ goal = NoVersion

Open ==
  /\ phase = "idle"
  /\ phase' = "open"
  /\ UNCHANGED <<active, base, goal>>

Switch ==
  /\ phase = "open"
  /\ phase' = "switched"
  /\ goal' \in Versions
  /\ active' = goal'
  /\ UNCHANGED base

Commit ==
  /\ phase = "switched"
  /\ phase' = "committed"
  /\ active = goal
  /\ UNCHANGED <<active, base, goal>>

\* Giving up before the switch, or undoing it.
Abort ==
  /\ phase \in {"open", "switched"}
  /\ phase' = "aborted"
  /\ active' = IF base = NoVersion THEN active ELSE base
  /\ base' = active'
  /\ goal' = NoVersion

\* The command ends; it may also die anywhere on the way.
Close ==
  /\ phase # "idle"
  /\ phase' = "idle"
  /\ base' = active
  /\ goal' = NoVersion
  /\ UNCHANGED active

Next == Open \/ Switch \/ Commit \/ Abort \/ Close

Spec == Init /\ [][Next]_cutovervars
=============================================================================
