----------------------------- MODULE LinkProofs -----------------------------
(***************************************************************************)
(* Proofs about the symlink manager, for any processes, versions and       *)
(* faults: its calls keep LinkInv, switch `current` atomically, and where  *)
(* only renames fail, they record the old release in `previous`.           *)
(***************************************************************************)
EXTENDS Links, TLAPS

\* At its start nothing is in a call and no link exists.
LEMMA LinkInitInv == LinkInit => LinkInv
  BY NoVersionAssumption
  DEF LinkInit, LinkInv, LinkTypeOK, OneCallAtATime, IdleHasNoLocals,
      TempLinkIsMine, MaybeVersion, InSetCurrent, InRollbackCurrent

\* SetCurrent, called while no other call is in progress, keeps LinkInv.
LEMMA SetCurrentInv ==
  ASSUME LinkInv, NEW p \in Operators, NEW v \in Versions, SetCurrent(p, v),
         \A q \in Operators : q # p => smpc[q] = "idle"
  PROVE  LinkInv'
<1>1. LinkTypeOK'
  BY NoVersionAssumption
  DEF LinkInv, LinkTypeOK, SetCurrent, Goto, links, MaybeVersion,
      InSetCurrent, InRollbackCurrent, Returned
<1>2. OneCallAtATime' /\ IdleHasNoLocals' /\ TempLinkIsMine'
  BY DEF LinkInv, LinkTypeOK, OneCallAtATime, IdleHasNoLocals,
         TempLinkIsMine, SetCurrent, Goto, links
<1> QED BY <1>1, <1>2 DEF LinkInv

\* So does RollbackCurrent.
LEMMA RollbackCurrentInv ==
  ASSUME LinkInv, NEW p \in Operators, RollbackCurrent(p),
         \A q \in Operators : q # p => smpc[q] = "idle"
  PROVE  LinkInv'
<1>1. LinkTypeOK'
  BY NoVersionAssumption
  DEF LinkInv, LinkTypeOK, RollbackCurrent, Goto, links, MaybeVersion,
      InSetCurrent, InRollbackCurrent, Returned
<1>2. OneCallAtATime' /\ IdleHasNoLocals' /\ TempLinkIsMine'
  BY DEF LinkInv, LinkTypeOK, OneCallAtATime, IdleHasNoLocals,
         TempLinkIsMine, RollbackCurrent, Goto, links
<1> QED BY <1>1, <1>2 DEF LinkInv

\* So does every file-system call inside them.
LEMMA LinkStepInv ==
  ASSUME LinkInv, NEW p \in Operators, LinkStep(p)
  PROVE  LinkInv'
<1> USE NoVersionAssumption
<1> USE DEF LinkInv, LinkTypeOK, OneCallAtATime, IdleHasNoLocals,
            TempLinkIsMine, Goto, Remove, TrySymlink, CanSymlink, MaybeVersion,
            InSetCurrent, InRollbackCurrent, Returned
<1>1. CASE SetDropPrevious(p)
  BY <1>1 DEF SetDropPrevious
<1>2. CASE SetLinkPrevious(p)
  BY <1>2 DEF SetLinkPrevious
<1>3. CASE SetDropTemp(p)
  BY <1>3 DEF SetDropTemp
<1>4. CASE SetLinkTemp(p)
  BY <1>4 DEF SetLinkTemp
<1>5. CASE SetRename(p)
  BY <1>5 DEF SetRename
<1>6. CASE RbDropTemp(p)
  BY <1>6 DEF RbDropTemp
<1>7. CASE RbLinkTemp(p)
  BY <1>7 DEF RbLinkTemp
<1>8. CASE RbRename(p)
  BY <1>8 DEF RbRename
<1>9. CASE RbDropPrevious(p)
  BY <1>9 DEF RbDropPrevious
<1>10. CASE RbLinkPrevious(p)
  BY <1>10 DEF RbLinkPrevious
<1> QED
  BY <1>1, <1>2, <1>3, <1>4, <1>5, <1>6, <1>7, <1>8, <1>9, <1>10 DEF LinkStep

\* So does the end of a call, by its return or its caller's death.
LEMMA LeaveCallInv ==
  ASSUME LinkInv, NEW p \in Operators, LeaveCall(p)
  PROVE  LinkInv'
  BY NoVersionAssumption
  DEF LinkInv, LinkTypeOK, OneCallAtATime, IdleHasNoLocals, TempLinkIsMine,
      LeaveCall, links, MaybeVersion, InSetCurrent, InRollbackCurrent, Returned

\* A stutter keeps it too.
LEMMA LinkStutterInv ==
  ASSUME LinkInv, UNCHANGED smvars
  PROVE  LinkInv'
  BY DEF LinkInv, LinkTypeOK, OneCallAtATime, IdleHasNoLocals, TempLinkIsMine,
         smvars, links, smcalls

\* Under any client that makes one call at a time, whatever fails and
\* wherever a process dies, LinkInv holds.
LEMMA LinkNextInv == LinkInv /\ [LinkNext]_smvars => LinkInv'
<1> SUFFICES ASSUME LinkInv, [LinkNext]_smvars
             PROVE  LinkInv'
  OBVIOUS
<1>1. CASE UNCHANGED smvars
  BY <1>1, LinkStutterInv
<1>2. ASSUME NEW p \in Operators, LinkCall(p)
      PROVE  LinkInv'
  BY <1>2, SetCurrentInv, RollbackCurrentInv DEF LinkCall, Quiet
<1>3. ASSUME NEW p \in Operators, LinkStep(p)
      PROVE  LinkInv'
  BY <1>3, LinkStepInv
<1>4. ASSUME NEW p \in Operators, Return(p) \/ Die(p)
      PROVE  LinkInv'
  BY <1>4, LeaveCallInv DEF Return, Die
<1> QED
  BY <1>1, <1>2, <1>3, <1>4 DEF LinkNext

\* The links and the calls stay well-typed, and a call in progress always
\* has a version to make current: RollbackCurrent without a `previous`
\* never gets as far as making a link.
THEOREM LinkTypes == LinkSpec => []LinkTypeOK
<1>1. LinkInv => LinkTypeOK
  BY DEF LinkInv
<1> QED
  BY LinkInitInv, LinkNextInv, <1>1, PTL DEF LinkSpec

-----------------------------------------------------------------------------
(* The refinement of AtomicLink                                            *)

LEMMA LinkInitRefines == LinkInit => Atomic!Init
  BY DEF LinkInit, Atomic!Init, CallState

\* A step maps to the abstract step of the process that takes it.  All the
\* steps of a call but its rename, and the failure of that or of the link
\* before it, are invisible.
LEMMA LinkNextRefines ==
  LinkInv /\ [LinkNext]_smvars => [Atomic!Next]_Atomic!alvars
<1> SUFFICES ASSUME LinkInv, [LinkNext]_smvars
             PROVE  [Atomic!Next]_Atomic!alvars
  OBVIOUS
<1> USE DEF LinkInv, LinkTypeOK, IdleHasNoLocals, TempLinkIsMine, Goto,
            CallState, Atomic!alvars, InSetCurrent, InRollbackCurrent, Returned
<1>1. CASE UNCHANGED smvars
  BY <1>1 DEF smvars, links, smcalls
<1>2. ASSUME NEW p \in Operators, NEW v \in Versions, SetCurrent(p, v)
      PROVE  Atomic!Begin(p, v)
  BY <1>2 DEF SetCurrent, links, Atomic!Begin
<1>3. ASSUME NEW p \in Operators, RollbackCurrent(p)
      PROVE  Atomic!Refuse(p) \/ \E v \in Versions : Atomic!Begin(p, v)
  BY <1>3 DEF RollbackCurrent, links, MaybeVersion, Atomic!Begin, Atomic!Refuse
<1>4. ASSUME NEW p \in Operators,
             SetDropPrevious(p) \/ SetLinkPrevious(p) \/ SetDropTemp(p)
      PROVE  UNCHANGED Atomic!alvars
  BY <1>4 DEF SetDropPrevious, SetLinkPrevious, SetDropTemp
<1>5. ASSUME NEW p \in Operators, SetLinkTemp(p) \/ RbLinkTemp(p)
      PROVE  Atomic!Fail(p) \/ UNCHANGED Atomic!alvars
  BY <1>5 DEF SetLinkTemp, RbLinkTemp, Atomic!Fail
<1>6. ASSUME NEW p \in Operators, SetRename(p) \/ RbRename(p)
      PROVE  Atomic!Apply(p) \/ Atomic!Fail(p)
  BY <1>6 DEF SetRename, RbRename, Atomic!Apply, Atomic!Fail
<1>7. ASSUME NEW p \in Operators,
             RbDropTemp(p) \/ RbDropPrevious(p) \/ RbLinkPrevious(p)
      PROVE  UNCHANGED Atomic!alvars
  BY <1>7 DEF RbDropTemp, RbDropPrevious, RbLinkPrevious
<1>8. ASSUME NEW p \in Operators, Return(p) \/ Die(p)
      PROVE  Atomic!End(p)
  BY <1>8 DEF Return, Die, LeaveCall, links, Atomic!End
<1> QED
  BY <1>1, <1>2, <1>3, <1>4, <1>5, <1>6, <1>7, <1>8
  DEF LinkNext, LinkCall, LinkStep, Atomic!Next

\* "SetCurrent atomically updates the current symlink": with any failures of
\* the file system and deaths at any step, `current` is a register that each
\* call writes at one instant or, if it fails, not at all.
THEOREM AtomicSwitchHolds == LinkSpec => AtomicSwitch
<1> QED
  BY LinkInitInv, LinkNextInv, LinkInitRefines, LinkNextRefines, PTL
  DEF LinkSpec, AtomicSwitch, Atomic!Spec

-----------------------------------------------------------------------------
(* `previous`                                                              *)

\* The steps that move `previous` keep PreviousFollows when neither
\* os.Remove nor os.Symlink fails.
LEMMA PreviousFollowsNext ==
  ASSUME "remove" \notin Faults, "symlink" \notin Faults,
         LinkInv, PreviousFollows, [LinkNext]_smvars
  PROVE  PreviousFollows'
<1> USE DEF LinkInv, LinkTypeOK, OneCallAtATime, PreviousFollows, Goto, links,
            Remove, TrySymlink, CanSymlink, InSetCurrent, InRollbackCurrent,
            Returned
<1>1. CASE UNCHANGED smvars
  BY <1>1 DEF smvars, smcalls
<1>2. ASSUME NEW p \in Operators, LinkCall(p)
      PROVE  PreviousFollows'
  BY <1>2 DEF LinkCall, Quiet, SetCurrent, RollbackCurrent
<1>3. ASSUME NEW p \in Operators, LinkStep(p)
      PROVE  PreviousFollows'
  <2> USE <1>3
  <2>1. CASE SetDropPrevious(p)
    BY <2>1 DEF SetDropPrevious
  <2>2. CASE SetLinkPrevious(p)
    BY <2>2 DEF SetLinkPrevious
  <2>3. CASE SetDropTemp(p)
    BY <2>3 DEF SetDropTemp
  <2>4. CASE SetLinkTemp(p)
    BY <2>4 DEF SetLinkTemp
  <2>5. CASE SetRename(p)
    BY <2>5 DEF SetRename
  <2>6. CASE RbDropTemp(p) \/ RbLinkTemp(p) \/ RbRename(p)
    BY <2>6 DEF RbDropTemp, RbLinkTemp, RbRename
  <2>7. CASE RbDropPrevious(p)
    BY <2>7 DEF RbDropPrevious
  <2>8. CASE RbLinkPrevious(p)
    BY <2>8 DEF RbLinkPrevious
  <2> QED
    BY <2>1, <2>2, <2>3, <2>4, <2>5, <2>6, <2>7, <2>8 DEF LinkStep
<1>4. ASSUME NEW p \in Operators, Return(p) \/ Die(p)
      PROVE  PreviousFollows'
  BY <1>4 DEF Return, Die, LeaveCall
<1> QED
  BY <1>1, <1>2, <1>3, <1>4 DEF LinkNext

\* "The old current is moved to previous": a call that succeeds leaves the
\* release it replaced in `previous`, if neither os.Remove nor os.Symlink
\* fails; renames may fail and processes die.
THEOREM OldIsPreviousHolds ==
  ASSUME "remove" \notin Faults, "symlink" \notin Faults
  PROVE  LinkSpec => []OldIsPrevious
<1>1. LinkInit => PreviousFollows
  BY DEF LinkInit, PreviousFollows
<1>2. LinkInv /\ PreviousFollows /\ [LinkNext]_smvars => PreviousFollows'
  BY PreviousFollowsNext
<1>3. PreviousFollows => OldIsPrevious
  BY DEF PreviousFollows, OldIsPrevious
<1> QED
  BY LinkInitInv, LinkNextInv, <1>1, <1>2, <1>3, PTL DEF LinkSpec
=============================================================================
