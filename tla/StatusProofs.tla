---------------------------- MODULE StatusProofs ----------------------------
(***************************************************************************)
(* What `status` prints is coherent, for any processes, versions and       *)
(* failures beside it: proofs.                                             *)
(***************************************************************************)
EXTENDS Status, LinkProofs

-----------------------------------------------------------------------------
(* What is so in every state                                               *)

\* The steps of a call up to its rename.
Switching == InSetCurrent \cup {"rbDropTemp", "rbLinkTemp", "rbRename"}

\* A call knows what it replaces, until it has.
OldIsCurrent ==
  \A p \in Operators : smpc[p] \in Switching => smold[p] = current

\* Between the two reads: as long as the call beside the reader has not
\* renamed, `current` is what was read; and a rollback that has will leave
\* that release in `previous`.
ReadsOverlap ==
  Reading /\ calls <= 1 =>
    /\ Now \in pairs
    /\ calls = 0 => Quiet /\ current = stCurrent
    /\ \A p \in Operators :
         /\ smpc[p] \in Switching => current = stCurrent
         /\ smpc[p] \in {"rbDropPrevious", "rbLinkPrevious"} =>
              current = stCurrent \/ smold[p] = stCurrent
    /\ \/ current = stCurrent
       \/ <<stCurrent, previous>> \in pairs
       \/ previous \in {stCurrent, NoVersion}

ReadIsCoherent ==
  /\ stpc = "idle" => stMetadata = NoVersion
  /\ stMetadata \in {stCurrent, NoVersion}
  /\ stpc \in {"unit", "path", "done"} /\ calls <= 1 =>
       \/ <<stCurrent, stPrevious>> \in pairs
       \/ stPrevious \in {stCurrent, NoVersion}

StatusInv ==
  LinkInv /\ StatusTypeOK /\ OldIsCurrent /\ ReadsOverlap /\ ReadIsCoherent

-----------------------------------------------------------------------------
(* Proofs                                                                  *)

\* The reader changes no link: what is proved of the manager holds beside it.
THEOREM StatusOnlyReads == StatusSpec => LinkSpec
<1>1. StatusInit => LinkInit
  BY DEF StatusInit
<1>2. [StatusNext]_<<smvars, stvars>> => [LinkNext]_smvars
  BY DEF StatusNext, StatusStep, StatusCurrent, StatusMetadata, StatusPrevious,
         StatusUnit, StatusPath, StatusPrinted
<1> QED
  BY <1>1, <1>2, PTL DEF StatusSpec, LinkSpec

\* StatusInv holds at the start.
LEMMA StatusInvInit == StatusInit => StatusInv
<1> SUFFICES ASSUME StatusInit PROVE StatusInv
  OBVIOUS
<1>1. LinkInv
  BY LinkInitInv DEF StatusInit
<1> QED
  BY <1>1 DEF StatusInit, LinkInit, LinkInv, StatusInv, StatusTypeOK, OldIsCurrent, ReadsOverlap,
         ReadIsCoherent, Reading, Switching, InSetCurrent, MaybeVersion

\* A step of the reader keeps StatusInv.
LEMMA StatusStepInv ==
  ASSUME StatusInv, StatusStep
  PROVE  StatusInv'
<1>1. UNCHANGED smvars
  BY DEF StatusStep, StatusCurrent, StatusMetadata, StatusPrevious,
         StatusUnit, StatusPath, StatusPrinted
<1>2. LinkInv' /\ OldIsCurrent' /\ (Quiet' <=> Quiet) /\ Now' = Now
  BY <1>1, LinkStutterInv
  DEF StatusInv, OldIsCurrent, smvars, links, smcalls, Quiet, Now
<1> USE <1>1, <1>2 DEF StatusInv, StatusTypeOK, ReadsOverlap, ReadIsCoherent, Reading, Read,
            smvars, links, smcalls, LinkInv, LinkTypeOK, MaybeVersion
<1>3. CASE StatusCurrent
  <2>1. StatusTypeOK' /\ ReadIsCoherent'
    BY <1>3 DEF StatusCurrent, Now
  <2>2. ReadsOverlap'
    BY <1>3 DEF StatusCurrent
  <2> QED
    BY <2>1, <2>2
<1>4. CASE StatusMetadata
  BY <1>4 DEF StatusMetadata
<1>5. CASE StatusPrevious
  <2>1. StatusTypeOK' /\ ReadsOverlap'
    BY <1>5 DEF StatusPrevious
  <2>2. ReadIsCoherent'
    BY <1>5 DEF StatusPrevious, Now
  <2> QED
    BY <2>1, <2>2
<1>6. CASE StatusUnit
  BY <1>6 DEF StatusUnit, result
<1>7. CASE StatusPath
  <2>1. CASE stpc' = "done"
    BY <1>7, <2>1 DEF StatusPath, result
  <2>2. CASE stpc' = "idle"
    <3>1. stCurrent' = NoVersion /\ stMetadata' = NoVersion /\ stPrevious' = NoVersion
          /\ calls' = 0 /\ pairs' = {}
      BY <1>7, <2>2 DEF StatusPath
    <3>2. StatusTypeOK'
      BY <2>2, <3>1
    <3> QED
      BY <2>2, <3>1, <3>2
  <2> QED
    BY <1>7, <2>1, <2>2 DEF StatusPath
<1>8. CASE StatusPrinted
  <2>1. StatusTypeOK'
    BY <1>8 DEF StatusPrinted
  <2> QED
    BY <1>8, <2>1 DEF StatusPrinted
<1> QED
  BY <1>3, <1>4, <1>5, <1>6, <1>7, <1>8 DEF StatusStep

\* What a step of a call does to the links, as far as the reader cares.
LEMMA CallMoves ==
  ASSUME LinkInv, OldIsCurrent, NEW p \in Operators,
         LinkCall(p) \/ LinkStep(p) \/ Return(p) \/ Die(p)
  PROVE  /\ OldIsCurrent'
         /\ current' # current => smpc[p] \in Switching
         /\ smpc[p] = "rbRename" /\ current' # current => smold[p] = current
         /\ \A q \in Operators : q # p => smpc'[q] = smpc[q] /\ smold'[q] = smold[q]
         /\ current' # current => previous' = previous
         /\ smpc'[p] \in Switching =>
              current' = current /\ (smpc[p] \in Switching \/ Quiet)
         /\ smpc'[p] \in {"rbDropPrevious", "rbLinkPrevious"} =>
              /\ smold'[p] = smold[p]
              /\ smpc[p] \in {"rbRename", "rbDropPrevious"}
         /\ previous' # previous =>
              \/ smpc[p] \in Switching /\ current' = current
              \/ previous' = NoVersion
              \/ smpc[p] = "rbLinkPrevious" /\ previous' = smold[p]
<1> USE DEF LinkInv, LinkTypeOK, OneCallAtATime, OldIsCurrent, Switching, InSetCurrent,
            InRollbackCurrent, Returned, Goto, Remove, TrySymlink, CanSymlink, links, MaybeVersion
<1>1. CASE LinkCall(p)
  BY <1>1 DEF LinkCall, SetCurrent, RollbackCurrent, Quiet
<1>2. CASE SetDropPrevious(p)
  BY <1>2 DEF SetDropPrevious
<1>3. CASE SetLinkPrevious(p)
  BY <1>3 DEF SetLinkPrevious
<1>4. CASE SetDropTemp(p)
  BY <1>4 DEF SetDropTemp
<1>5. CASE SetLinkTemp(p)
  BY <1>5 DEF SetLinkTemp
<1>6. CASE SetRename(p)
  BY <1>6 DEF SetRename
<1>7. CASE RbDropTemp(p)
  BY <1>7 DEF RbDropTemp
<1>8. CASE RbLinkTemp(p)
  BY <1>8 DEF RbLinkTemp
<1>9. CASE RbRename(p)
  BY <1>9 DEF RbRename
<1>10. CASE RbDropPrevious(p)
  BY <1>10 DEF RbDropPrevious
<1>11. CASE RbLinkPrevious(p)
  BY <1>11 DEF RbLinkPrevious
<1>12. CASE Return(p) \/ Die(p)
  BY <1>12 DEF Return, Die, LeaveCall
<1> QED
  BY <1>1, <1>2, <1>3, <1>4, <1>5, <1>6, <1>7, <1>8, <1>9, <1>10, <1>11, <1>12 DEF LinkStep

\* A step of another command keeps StatusInv.
LEMMA WitnessInv ==
  ASSUME StatusInv, LinkNext, Witness
  PROVE  StatusInv'
<1>1. LinkInv'
  BY LinkNextInv DEF StatusInv
<1> PICK p \in Operators : LinkCall(p) \/ LinkStep(p) \/ Return(p) \/ Die(p)
  BY DEF LinkNext
<1> USE DEF StatusInv, Reading
<1>2. OldIsCurrent'
  BY CallMoves
<1>3. StatusTypeOK' /\ ReadIsCoherent'
  <2>1. Now' \in MaybeVersion \X MaybeVersion
    BY <1>1 DEF LinkInv, LinkTypeOK, Now
  <2> QED
    BY <1>1, <2>1 DEF Witness, StatusTypeOK, ReadIsCoherent, LinkInv, result
<1>4. ReadsOverlap'
  <2> SUFFICES ASSUME Reading', calls' <= 1
               PROVE  ReadsOverlap'
    BY DEF ReadsOverlap
  <2> USE DEF Witness, result
  <2>1. Reading /\ stCurrent' = stCurrent /\ calls <= 1 /\ calls <= calls'
        /\ (Quiet /\ ~Quiet' => calls = 0 /\ calls' = 1)
    BY DEF StatusTypeOK
  <2>2. pairs' = pairs \cup {Now'}
    BY <2>1 DEF StatusTypeOK
  <2>3. /\ Now \in pairs
        /\ calls = 0 => Quiet /\ current = stCurrent
        /\ \A q \in Operators :
             /\ smpc[q] \in Switching => current = stCurrent
             /\ smpc[q] \in {"rbDropPrevious", "rbLinkPrevious"} =>
                  current = stCurrent \/ smold[q] = stCurrent
        /\ \/ current = stCurrent
           \/ <<stCurrent, previous>> \in pairs
           \/ previous \in {stCurrent, NoVersion}
    BY <2>1 DEF ReadsOverlap
  <2>4. calls' = 0 => Quiet' /\ current' = stCurrent
    BY <2>1, <2>3, CallMoves DEF Quiet, Switching, InSetCurrent, StatusTypeOK
  <2>5. ASSUME NEW q \in Operators, smpc'[q] \in Switching
        PROVE  current' = stCurrent
    <3>1. q = p
      <4> SUFFICES ASSUME q # p PROVE FALSE
        OBVIOUS
      <4>1. smpc[q] # "idle"
        BY <2>5, CallMoves DEF Switching, InSetCurrent
      <4> QED
        BY <4>1, CallMoves DEF LinkInv, OneCallAtATime, LinkCall, Quiet, LinkStep, Return, Die,
             Returned, SetDropPrevious, SetLinkPrevious, SetDropTemp, SetLinkTemp, SetRename,
             RbDropTemp, RbLinkTemp, RbRename, RbDropPrevious, RbLinkPrevious
    <3>2. current' = current /\ (smpc[p] \in Switching \/ Quiet)
      BY <2>5, <3>1, CallMoves
    <3>3. CASE smpc[p] \in Switching
      BY <2>3, <3>2, <3>3
    <3>4. CASE Quiet
      <4>1. ~Quiet'
        BY <2>5 DEF Quiet, Switching, InSetCurrent
      <4> QED
        BY <2>1, <2>3, <3>2, <3>4, <4>1
    <3> QED
      BY <3>2, <3>3, <3>4
  <2>6. ASSUME NEW q \in Operators, smpc'[q] \in {"rbDropPrevious", "rbLinkPrevious"}
        PROVE  current' = stCurrent \/ smold'[q] = stCurrent
    <3>1. q = p
      <4> SUFFICES ASSUME q # p PROVE FALSE
        OBVIOUS
      <4>1. smpc[q] # "idle"
        BY <2>6, CallMoves
      <4> QED
        BY <4>1, CallMoves DEF LinkInv, OneCallAtATime, LinkCall, Quiet, LinkStep, Return, Die,
             Returned, SetDropPrevious, SetLinkPrevious, SetDropTemp, SetLinkTemp, SetRename,
             RbDropTemp, RbLinkTemp, RbRename, RbDropPrevious, RbLinkPrevious
    <3>2. smold'[p] = smold[p] /\ smpc[p] \in {"rbRename", "rbDropPrevious"}
      BY <2>6, <3>1, CallMoves
    <3>3. CASE smpc[p] = "rbRename"
      BY <2>3, <3>1, <3>2, <3>3 DEF OldIsCurrent, Switching
    <3>4. CASE smpc[p] = "rbDropPrevious"
      BY <2>3, <3>1, <3>2, <3>4, CallMoves DEF Switching, InSetCurrent
    <3> QED
      BY <3>2, <3>3, <3>4
  <2>7. \/ current' = stCurrent
        \/ <<stCurrent, previous'>> \in pairs'
        \/ previous' \in {stCurrent, NoVersion}
    <3>1. CASE current' # current
      <4>1. current = stCurrent /\ previous' = previous
        BY <3>1, <2>3, CallMoves
      <4> QED
        BY <4>1, <2>2, <2>3 DEF Now
    <3>2. CASE current' = current /\ previous' # previous
      BY <3>2, <2>3, CallMoves
    <3>3. CASE current' = current /\ previous' = previous
      BY <3>3, <2>2, <2>3
    <3> QED
      BY <3>1, <3>2, <3>3
  <2> QED
    BY <2>1, <2>2, <2>4, <2>5, <2>6, <2>7 DEF ReadsOverlap
<1> QED
  BY <1>1, <1>2, <1>3, <1>4

LEMMA StatusInvHolds == StatusSpec => []StatusInv
<1>1. StatusInv /\ [StatusNext]_<<smvars, stvars>> => StatusInv'
  <2> SUFFICES ASSUME StatusInv, [StatusNext]_<<smvars, stvars>>
               PROVE  StatusInv'
    OBVIOUS
  <2>1. CASE UNCHANGED <<smvars, stvars>>
    <3>1. LinkInv'
      BY <2>1, LinkStutterInv DEF StatusInv
    <3> QED
      BY <2>1, <3>1 DEF StatusInv, StatusTypeOK, OldIsCurrent, ReadsOverlap, ReadIsCoherent,
           Reading, Quiet, Now, smvars, links, smcalls, stvars, result, LinkInv
  <2> QED
    BY <2>1, StatusStepInv, WitnessInv DEF StatusNext
<1> QED
  BY <1>1, StatusInvInit, PTL DEF StatusSpec

\* The types of the reader's results, and of the histories they are judged by.
THEOREM StatusTypesHold == StatusSpec => []StatusTypeOK
<1>1. StatusInv => StatusTypeOK
  BY DEF StatusInv
<1> QED
  BY <1>1, StatusInvHolds, PTL

\* Beside at most one call of the manager, with any failure in it and a
\* death at any of its steps, `status` prints a pair of links that existed.
THEOREM StatusIsCoherentHolds == StatusSpec => []StatusIsCoherent
<1>1. StatusInv => StatusIsCoherent
  BY DEF StatusInv, ReadIsCoherent, StatusIsCoherent
<1> QED
  BY <1>1, StatusInvHolds, PTL
=============================================================================
