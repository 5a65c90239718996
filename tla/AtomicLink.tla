----------------------------- MODULE AtomicLink -----------------------------
(***************************************************************************)
(* What SymlinkManager promises of `current`: a link that its calls change *)
(* in one step, as if each call took effect at one instant between its     *)
(* start and its return, and that a call which fails has not changed.      *)
(***************************************************************************)
CONSTANTS Callers, Values, NoValue

VARIABLES
  link,  \* the value of the link
  call,  \* call[p]: "idle", "pending", "applied" or "failed"
  want   \* want[p]: the value p's call gives the link

alvars == <<link, call, want>>

Init ==
  /\ link = NoValue
  /\ call = [p \in Callers |-> "idle"]
  /\ want = [p \in Callers |-> NoValue]

Begin(p, v) ==
  /\ call[p] = "idle"
  /\ call' = [call EXCEPT ![p] = "pending"]
  /\ want' = [want EXCEPT ![p] = v]
  /\ UNCHANGED link

\* There is no value to give: the call fails at once.
Refuse(p) ==
  /\ call[p] = "idle"
  /\ call' = [call EXCEPT ![p] = "failed"]
  /\ UNCHANGED <<link, want>>

Apply(p) ==
  /\ call[p] = "pending"
  /\ call' = [call EXCEPT ![p] = "applied"]
  /\ link' = want[p]
  /\ UNCHANGED want

Fail(p) ==
  /\ call[p] = "pending"
  /\ call' = [call EXCEPT ![p] = "failed"]
  /\ UNCHANGED <<link, want>>

\* The call returns, or its caller dies and nobody learns how it went.
End(p) ==
  /\ call[p] # "idle"
  /\ call' = [call EXCEPT ![p] = "idle"]
  /\ want' = [want EXCEPT ![p] = NoValue]
  /\ UNCHANGED link

Next ==
  \E p \in Callers :
    \/ \E v \in Values : Begin(p, v)
    \/ Refuse(p) \/ Apply(p) \/ Fail(p) \/ End(p)

Spec == Init /\ [][Next]_alvars
=============================================================================
