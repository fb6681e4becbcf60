--------------------------- MODULE ReliableSender ---------------------------
(***************************************************************************)
(* The outbound reliability wrapper of a channel adapter                   *)
(* (internal/channels/adapter/reliability.go): concurrent calls of Send    *)
(* share one circuit breaker; each call retries a transient failure up to  *)
(* MaxAttempts times and writes what it gives up on to the dead-letter     *)
(* file.  One message is one call of Send, run by its own goroutine.       *)
(*                                                                         *)
(* A call is cut where the code lets another goroutine in: nowFn is read   *)
(* before mu is locked (Submit, TransportFail store it in seen), the       *)
(* breaker is updated under mu (Admit.., OnSuccess, OnFailure), the        *)
(* transport runs with no lock held, and the DLQ has a lock of its own.    *)
(***************************************************************************)
EXTENDS Naturals, Sequences, FiniteSets

CONSTANTS
  Msgs,              \* the messages, one Send call each
  MaxAttempts,       \* cfg.Retry.MaxAttempts
  FailureThreshold,  \* cfg.Breaker.FailureThreshold
  Cooldown,          \* cfg.Breaker.Cooldown, in clock ticks
  MaxTime            \* bound of the clock

\* NewReliableSender raises every setting to at least one.
ASSUME ReliabilityConfig ==
  /\ MaxAttempts \in Nat \ {0}
  /\ FailureThreshold \in Nat \ {0}
  /\ Cooldown \in Nat \ {0}
  /\ MaxTime \in Nat

VARIABLES
  now,               \* the wall clock
  consecutiveFail,   \* the breaker's fields; time 0 is Go's zero time
  breakerOpenTill,
  halfOpenProbe,
  pc,                \* where each call of Send stands
  attempt,           \* its loop variable, 0 before the first try
  seen,              \* the clock value it read and has not used yet, else 0
  dlq,               \* the attempts field of each DLQ line of the message
  copies,            \* history: how often the peer took the message
  refusals,          \* history: how many tries returned an error
  failStreak,        \* history: failures reported since the last success, up
                     \* to FailureThreshold
  probing            \* history: calls admitted as the half-open probe that
                     \* have not reported the result of that try yet

breaker == <<consecutiveFail, breakerOpenTill, halfOpenProbe>>
wire    == <<copies, refusals>>
vars    == <<now, breaker, pc, attempt, seen, dlq, wire, failStreak, probing>>

\* Where Send calls writeDLQ.
GivenUp == {"rejected", "permanent", "exhausted"}

Steps == GivenUp \union {"idle", "gate", "sending", "ok", "fail", "perm", "sleep",
                         "delivered", "failed", "cancelled"}

\* Calls between admission to the transport and the report to the breaker.
InFlight == {m \in Msgs : pc[m] \in {"sending", "ok", "fail", "perm"}}

Goto(m, from, to) ==
  /\ pc[m] = from
  /\ pc' = [pc EXCEPT ![m] = to]

ReadClock(m) == seen' = [seen EXCEPT ![m] = now]
UsedClock(m) == seen' = [seen EXCEPT ![m] = 0]

Init ==
  /\ now = 1
  /\ consecutiveFail = 0
  /\ breakerOpenTill = 0
  /\ halfOpenProbe = FALSE
  /\ pc = [m \in Msgs |-> "idle"]
  /\ attempt = [m \in Msgs |-> 0]
  /\ seen = [m \in Msgs |-> 0]
  /\ dlq = [m \in Msgs |-> <<>>]
  /\ copies = [m \in Msgs |-> 0]
  /\ refusals = [m \in Msgs |-> 0]
  /\ failStreak = 0
  /\ probing = {}

-----------------------------------------------------------------------------
(* beforeAttempt *)

Submit(m) ==
  /\ Goto(m, "idle", "gate")
  /\ ReadClock(m)
  /\ UNCHANGED <<now, breaker, attempt, dlq, wire, failStreak, probing>>

CoolingDown(m) == seen[m] < breakerOpenTill
HalfOpen(m)    == breakerOpenTill # 0 /\ seen[m] > breakerOpenTill

Reject(m) ==
  /\ CoolingDown(m) \/ (HalfOpen(m) /\ halfOpenProbe)
  /\ Goto(m, "gate", "rejected")
  /\ UsedClock(m)
  /\ UNCHANGED <<now, breaker, attempt, dlq, wire, failStreak, probing>>

StartTry(m, from) ==
  /\ Goto(m, from, "sending")
  /\ attempt' = [attempt EXCEPT ![m] = @ + 1]

\* A closed breaker, or one whose cooldown ends exactly now.
Admit(m) ==
  /\ ~CoolingDown(m) /\ ~HalfOpen(m)
  /\ StartTry(m, "gate")
  /\ UsedClock(m)
  /\ UNCHANGED <<now, breaker, dlq, wire, failStreak, probing>>

AdmitProbe(m) ==
  /\ HalfOpen(m) /\ ~halfOpenProbe
  /\ StartTry(m, "gate")
  /\ UsedClock(m)
  /\ halfOpenProbe' = TRUE
  /\ probing' = probing \union {m}
  /\ UNCHANGED <<now, consecutiveFail, breakerOpenTill, dlq, wire, failStreak>>

-----------------------------------------------------------------------------
(* The transport: the wrapped adapter's Send, which may deliver and fail. *)

Took(m, took) == copies' = [copies EXCEPT ![m] = IF took THEN @ + 1 ELSE @]

TransportOk(m) ==
  /\ Goto(m, "sending", "ok")
  /\ Took(m, TRUE)
  /\ UNCHANGED <<now, breaker, attempt, seen, dlq, refusals, failStreak, probing>>

TransportFail(m) == \E took \in BOOLEAN, kind \in {"fail", "perm"} :
  /\ Goto(m, "sending", kind)
  /\ Took(m, took)
  /\ refusals' = [refusals EXCEPT ![m] = @ + 1]
  /\ ReadClock(m)
  /\ UNCHANGED <<now, breaker, attempt, dlq, failStreak, probing>>

-----------------------------------------------------------------------------
(* The report to the breaker, and what Send does next. *)

\* Broken: a success that leaves the failure counter as it is.
OnSuccessForgetful(m) ==
  /\ Goto(m, "ok", "delivered")
  /\ breakerOpenTill' = 0
  /\ halfOpenProbe' = FALSE
  /\ failStreak' = 0
  /\ probing' = probing \ {m}
  /\ UNCHANGED <<now, consecutiveFail, attempt, seen, dlq, wire>>

OnSuccess(m) ==
  /\ Goto(m, "ok", "delivered")
  /\ consecutiveFail' = 0
  /\ breakerOpenTill' = 0
  /\ halfOpenProbe' = FALSE
  /\ failStreak' = 0
  /\ probing' = probing \ {m}
  /\ UNCHANGED <<now, attempt, seen, dlq, wire>>

\* Broken: a failed probe that keeps the flag raised.
CountFailureKeepsProbe(t) ==
  LET trips == consecutiveFail + 1 >= FailureThreshold
      opens == halfOpenProbe \/ trips
  IN  /\ breakerOpenTill' = IF opens THEN t + Cooldown ELSE breakerOpenTill
      /\ consecutiveFail' = IF trips /\ ~halfOpenProbe THEN 0 ELSE consecutiveFail + 1
      /\ UNCHANGED halfOpenProbe

\* Broken: a failure that extends the deadline instead of setting it.
CountFailureExtends(t) ==
  LET trips == consecutiveFail + 1 >= FailureThreshold
      opens == halfOpenProbe \/ trips
      from  == IF breakerOpenTill > t THEN breakerOpenTill ELSE t
  IN  /\ breakerOpenTill' = IF opens THEN from + Cooldown ELSE breakerOpenTill
      /\ consecutiveFail' = IF trips /\ ~halfOpenProbe THEN 0 ELSE consecutiveFail + 1
      /\ halfOpenProbe' = FALSE

CountFailure(t) ==
  LET trips == consecutiveFail + 1 >= FailureThreshold
      opens == halfOpenProbe \/ trips
  IN  /\ breakerOpenTill' = IF opens THEN t + Cooldown ELSE breakerOpenTill
      /\ consecutiveFail' = IF trips /\ ~halfOpenProbe THEN 0 ELSE consecutiveFail + 1
      /\ halfOpenProbe' = FALSE

\* Broken: one retry too many.
AfterFailureLate(m) ==
  CASE pc[m] = "perm" -> "permanent"
    [] pc[m] = "fail" /\ attempt[m] > MaxAttempts -> "exhausted"
    [] OTHER -> "sleep"

AfterFailure(m) ==
  CASE pc[m] = "perm" -> "permanent"
    [] pc[m] = "fail" /\ attempt[m] >= MaxAttempts -> "exhausted"
    [] OTHER -> "sleep"

OnFailure(m) ==
  /\ pc[m] \in {"fail", "perm"}
  /\ CountFailure(seen[m])
  /\ pc' = [pc EXCEPT ![m] = AfterFailure(m)]
  /\ UsedClock(m)
  /\ failStreak' = IF failStreak < FailureThreshold THEN failStreak + 1 ELSE failStreak
  /\ probing' = probing \ {m}
  /\ UNCHANGED <<now, attempt, dlq, wire>>

\* Broken: a timer that fires after Send returned.
WakeCancelled(m) ==
  /\ StartTry(m, "sleep") \/ StartTry(m, "cancelled")
  /\ UNCHANGED <<now, breaker, seen, dlq, wire, failStreak, probing>>

\* The backoff delay ends: the jitter lets it end at any time.
Wake(m) ==
  /\ StartTry(m, "sleep")
  /\ UNCHANGED <<now, breaker, seen, dlq, wire, failStreak, probing>>

\* The caller's context ends during the delay: Send returns and writes no DLQ line.
Cancel(m) ==
  /\ Goto(m, "sleep", "cancelled")
  /\ UNCHANGED <<now, breaker, attempt, seen, dlq, wire, failStreak, probing>>

\* Broken: a permanent failure reports the configured number of tries.
DLQAttemptsConfigured(m) == IF pc[m] = "rejected" THEN 0 ELSE MaxAttempts

\* The argument of the three calls of writeDLQ.
DLQAttempts(m) ==
  CASE pc[m] = "rejected"  -> 0
    [] pc[m] = "permanent" -> attempt[m]
    [] OTHER               -> MaxAttempts

\* Send ignores the error of writeDLQ, so the line may be missing.
WriteDLQ(m) ==
  /\ pc[m] \in GivenUp
  /\ pc' = [pc EXCEPT ![m] = "failed"]
  /\ \/ dlq' = [dlq EXCEPT ![m] = Append(@, DLQAttempts(m))]
     \/ UNCHANGED dlq
  /\ UNCHANGED <<now, breaker, attempt, seen, wire, failStreak, probing>>

Tick ==
  /\ now < MaxTime
  /\ now' = now + 1
  /\ UNCHANGED <<breaker, pc, attempt, seen, dlq, wire, failStreak, probing>>

-----------------------------------------------------------------------------
Gate(m)   == Reject(m) \/ Admit(m) \/ AdmitProbe(m)
Report(m) == OnSuccess(m) \/ OnFailure(m)

\* What a call may do once it was made, the transport's part included.
Run(m) ==
  \/ Gate(m) \/ TransportOk(m) \/ TransportFail(m) \/ Report(m)
  \/ Wake(m) \/ Cancel(m) \/ WriteDLQ(m)

Next == Tick \/ \E m \in Msgs : Submit(m) \/ Run(m)

Spec == Init /\ [][Next]_vars

-----------------------------------------------------------------------------
(* Properties *)

TypeOK ==
  /\ now \in Nat
  /\ consecutiveFail \in Nat
  /\ breakerOpenTill \in Nat
  /\ halfOpenProbe \in BOOLEAN
  /\ pc \in [Msgs -> Steps]
  /\ attempt \in [Msgs -> 0..MaxAttempts]
  /\ seen \in [Msgs -> Nat]
  /\ dlq \in [Msgs -> Seq(0..MaxAttempts)]
  /\ copies \in [Msgs -> Nat]
  /\ refusals \in [Msgs -> Nat]
  /\ failStreak \in Nat
  /\ probing \subseteq Msgs

\* The breaker is open only if at least FailureThreshold failures were reported
\* with no success among them, however the calls interleave; and a closed
\* breaker has not swallowed a trip: its counter is below the threshold and no
\* probe is outstanding on it.
BreakerJustified ==
  /\ breakerOpenTill # 0 => failStreak >= FailureThreshold
  /\ breakerOpenTill = 0 => consecutiveFail < FailureThreshold /\ ~halfOpenProbe

\* A raised probe flag always has an owner: a call admitted as the probe whose
\* try has not been reported yet.  A flag without an owner would make the gate
\* reject every later message for ever.
ProbeOwned == halfOpenProbe => probing \intersect InFlight # {}

\* The breaker never asks for a wait longer than one cooldown from now, although
\* calls set the deadline from a clock they read before taking the lock.
CooldownBounded == breakerOpenTill <= now + Cooldown

\* The dead-letter file tells the truth: a call leaves at most one line, none
\* if it was confirmed or cancelled, and the line's attempts field is the number
\* of tries the transport refused, so a line saying 0 means nothing was sent.
DeadLetterAccurate == \A m \in Msgs :
  /\ Len(dlq[m]) <= 1
  /\ dlq[m] # <<>> =>
       /\ pc[m] = "failed"
       /\ dlq[m][1] = refusals[m]
       /\ refusals[m] = 0 => copies[m] = 0

\* The comment in beforeAttempt: "Transition to half-open after cooldown: allow
\* a single probe."
SingleProbe == Cardinality(probing) <= 1

\* ReliableSender implements Delivery: a message is never handed to the peer
\* after Send returned, is confirmed only if the peer took it, and ends in
\* exactly one of delivered, parked in the DLQ, or abandoned.
PhaseOf(place, lines) ==
  CASE place = "idle" -> "new"
    [] place = "delivered" -> "delivered"
    [] place = "cancelled" -> "abandoned"
    [] place = "failed" -> IF lines = <<>> THEN "abandoned" ELSE "parked"
    [] OTHER -> "open"

phaseBar == [m \in Msgs |-> PhaseOf(pc[m], dlq[m])]

Contract == INSTANCE Delivery
  WITH phase <- phaseBar, Patience <- 0, CountCap <- MaxAttempts
ImplementsDelivery == Contract!Spec
=============================================================================
