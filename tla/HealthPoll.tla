----------------------------- MODULE HealthPoll -----------------------------
(***************************************************************************)
(* waitForHealth, of deploy and of rollback alike: a ticker, a context     *)
(* with a deadline, and the HTTP client's own timeout.                     *)
(*                                                                         *)
(* Time is counted in ticks of 500 ms since the poll began.  It passes     *)
(* when there is nothing to do: the program's own steps take no time, and  *)
(* neither does the answer of a service that is not hung.                  *)
(***************************************************************************)
EXTENDS Integers

CONSTANTS
  ClientTimeout  \* http.Client.Timeout, in ticks

ASSUME HealthAssumption == ClientTimeout \in Nat \ {0}

VARIABLES
  poll,      \* where waitForHealth is
  now,
  deadline,  \* of the context
  ticks,     \* in the ticker's channel, which holds one
  began,     \* when the check in flight began
  service,   \* how the service takes a request in this tick
  lastBad    \* history: when the service was last not up, or was restarted

healthvars == <<poll, now, deadline, ticks, began, service, lastBad>>

Conditions == {"up", "down", "hung"}

Polling == poll \in {"waiting", "checking"}

HealthTypeOK ==
  /\ poll \in {"off", "waiting", "checking", "healthy", "timedout"}
  /\ now \in Nat
  /\ deadline \in Int
  /\ ticks \in 0..1
  /\ began \in Nat /\ began <= now
  /\ service \in Conditions
  /\ lastBad \in Nat /\ lastBad <= now

HealthInit ==
  /\ poll = "off"
  /\ now = 0
  /\ deadline = 0
  /\ ticks = 0
  /\ began = 0
  /\ service = "down"
  /\ lastBad = 0

-----------------------------------------------------------------------------

\* context.WithTimeout, d seconds from now, and the ticker.  A restarted
\* service starts out in any condition.
PollBegin(d) ==
  /\ poll = "off"
  /\ poll' = "waiting"
  /\ deadline' = 2 * d
  /\ service' \in Conditions
  /\ UNCHANGED <<now, ticks, began, lastBad>>

Expired == now >= deadline

\* Variant: the select waits for the ticker alone.
TimeOutNever ==
  /\ poll = "waiting" /\ Expired /\ ticks > 1
  /\ poll' = "timedout"
  /\ UNCHANGED <<now, deadline, ticks, began, service, lastBad>>

\* case <-ctx.Done()
TimeOut ==
  /\ poll = "waiting" /\ Expired
  /\ poll' = "timedout"
  /\ UNCHANGED <<now, deadline, ticks, began, service, lastBad>>

\* Variant: a default case, where the select waits for nothing.
TakeDefault ==
  /\ poll = "waiting"
  /\ poll' = "checking"
  /\ ticks' = 0
  /\ began' = now
  /\ UNCHANGED <<now, deadline, service, lastBad>>

\* case <-ticker.C, which select may take as well when both are ready.
TakeTick ==
  /\ poll = "waiting" /\ ticks = 1
  /\ poll' = "checking"
  /\ ticks' = 0
  /\ began' = now
  /\ UNCHANGED <<now, deadline, service, lastBad>>

\* Check returns nil: a 2xx.  A request whose context has expired is not
\* sent; one that the service received while it hung may be answered later.
CheckPasses ==
  /\ poll = "checking" /\ service = "up"
  /\ began < deadline
  /\ poll' = "healthy"
  /\ UNCHANGED <<now, deadline, ticks, began, service, lastBad>>

\* Variant: Check is not given the context.
GivenUpLate == service = "down" \/ now >= began + ClientTimeout

\* Why a check fails: no connection or another status, the client's timeout,
\* or the context's.
GivenUp == service = "down" \/ now >= began + ClientTimeout \/ Expired

\* Check returns an error.
CheckFails ==
  /\ poll = "checking" /\ GivenUp
  /\ poll' = "waiting"
  /\ UNCHANGED <<now, deadline, ticks, began, service, lastBad>>

\* Nothing is due: no tick and no deadline to take, or a check in flight
\* that hangs, or hung when it was sent.
Idle ==
  \/ poll = "waiting" /\ ticks = 0 /\ ~Expired
  \/ /\ poll = "checking"
     /\ service = "hung" \/ (began < now /\ service = "up")
     /\ ~GivenUp

\* Variant: a timer, which fires once, for the ticker.
PassTimer ==
  /\ Idle
  /\ now' = now + 1
  /\ ticks' = IF now = 0 THEN 1 ELSE ticks
  /\ service' \in Conditions
  /\ lastBad' = IF service' = "up" THEN lastBad ELSE now'
  /\ UNCHANGED <<poll, deadline, began>>

\* The ticker ticks, a tick that finds the channel full is dropped, and the
\* service may come up, fail or hang.
Pass ==
  /\ Idle
  /\ now' = now + 1
  /\ ticks' = 1
  /\ service' \in Conditions
  /\ lastBad' = IF service' = "up" THEN lastBad ELSE now'
  /\ UNCHANGED <<poll, deadline, began>>

PollStep == TimeOut \/ TakeTick \/ CheckPasses \/ CheckFails \/ Pass

HealthNext == PollStep \/ \E d \in Int : PollBegin(d)

HealthSpec == HealthInit /\ [][HealthNext]_healthvars

-----------------------------------------------------------------------------

\* The poll is over by its deadline, and at once when that is not in the
\* future, though a check outlasts many ticks and the service never answers.
PollEndsInTime ==
  Polling => now <= IF deadline < 0 THEN 0 ELSE deadline

\* A deploy is not rolled back for a service that came up in time: when the
\* poll times out, the service was not up at some moment in the last
\* ClientTimeout before the deadline, whatever ticks were dropped and
\* whichever case select took when two were ready.
NoFalseTimeout ==
  poll = "timedout" => lastBad + ClientTimeout >= deadline

\* How many steps a poll has left at most: there are three in a tick, and
\* those that the tick in the channel gives rise to.
PollLeft ==
  IF Polling
    THEN 3 * (IF Expired THEN 0 ELSE deadline - now) + 2 * ticks
           + (IF poll = "checking" THEN 2 ELSE 1)
    ELSE 0
=============================================================================
