--------------------------- MODULE FailoverProvider ---------------------------
(***************************************************************************)
(* The failover wrapper around the LLM providers                           *)
(* (internal/provider/failover.go): a call asks each primary whose breaker *)
(* is closed, in order, then the fallback, if one is configured.           *)
(* Complete, Stream, ListModels and Embed are four copies of one loop.     *)
(*                                                                         *)
(* available() takes the lock of one breaker after the other, and the list *)
(* it returns is used while other calls open and reset the same breakers:  *)
(* a step is one look at a breaker, or one answer of a provider with the   *)
(* update of its breaker.                                                  *)
(***************************************************************************)
EXTENDS Integers

CONSTANTS
  Calls,              \* the goroutines that call the wrapper
  NumPrimaries,
  BreakerThreshold,   \* threshold in NewFailoverProvider
  BreakerCooldown     \* cooldown, in ticks of the clock

ASSUME FailoverConfig ==
  /\ NumPrimaries \in Nat \ {0}
  /\ BreakerThreshold \in Nat \ {0}
  /\ BreakerCooldown \in Nat

Primaries == 1..NumPrimaries

VARIABLES
  hasFallback,  \* a local model is configured; never changes
  failures,     \* of each breaker, up to BreakerThreshold, all it is compared with
  openFor,      \* openUntil minus the clock; -1 when it has passed
  call,         \* where each call stands, or how it ended
  verdict,      \* a call's view of each primary: the list available() returned
                \* and, in it, the primaries that failed since
  recovered     \* environment: the primary that answers from now on, if any

failoverVars == <<hasFallback, failures, openFor, call, verdict, recovered>>

Ended == {"answered", "failed", "nothing"}

Unseen == [p \in Primaries |-> "unseen"]

FailoverInit ==
  /\ hasFallback \in BOOLEAN
  /\ failures = [p \in Primaries |-> 0]
  /\ openFor = [p \in Primaries |-> -1]
  /\ call = [c \in Calls |-> "idle"]
  /\ verdict = [c \in Calls |-> Unseen]
  /\ recovered = {}

-----------------------------------------------------------------------------
(* The breakers *)

\* Broken: asks the counter, which time does not reset, instead of the deadline.
IsOpenByCount(p) == failures[p] >= BreakerThreshold

\* isOpen: at the very end of the cooldown the breaker is still open.
IsOpen(p) == openFor[p] >= 0

\* The counter is not reset when the cooldown ends: the next failure reopens.
RecordFailure(p) ==
  LET n == IF failures[p] < BreakerThreshold THEN failures[p] + 1 ELSE failures[p] IN
  /\ failures' = [failures EXCEPT ![p] = n]
  /\ openFor' = IF n >= BreakerThreshold
                THEN [openFor EXCEPT ![p] = BreakerCooldown]
                ELSE openFor

\* Broken: a success takes one failure back.
ResetBreakerByOne(p) ==
  /\ failures' = [failures EXCEPT ![p] = @ - 1]
  /\ UNCHANGED openFor

\* The deadline is not cleared: a breaker stays open after a late success.
ResetBreaker(p) ==
  /\ failures' = [failures EXCEPT ![p] = 0]
  /\ UNCHANGED openFor

-----------------------------------------------------------------------------
(* One call *)

BeginCall(c) ==
  /\ call[c] = "idle"
  /\ call' = [call EXCEPT ![c] = "running"]
  /\ UNCHANGED <<hasFallback, failures, openFor, verdict, recovered>>

WithVerdict(c, v) == {p \in Primaries : verdict[c][p] = v}

Foremost(p, S) == p \in S /\ \A q \in S : p <= q

\* One iteration of available().
Survey(c) == \E p \in Primaries :
  /\ call[c] = "running"
  /\ Foremost(p, WithVerdict(c, "unseen"))
  /\ verdict' = [verdict EXCEPT ![c][p] = IF IsOpen(p) THEN "open" ELSE "closed"]
  /\ UNCHANGED <<hasFallback, failures, openFor, call, recovered>>

\* The primary the loop asks: the first of the list that has not failed yet.
Asks(c, p) ==
  /\ call[c] = "running"
  /\ WithVerdict(c, "unseen") = {}
  /\ Foremost(p, WithVerdict(c, "closed"))

PrimaryAnswers(c) == \E p \in Primaries :
  /\ Asks(c, p)
  /\ ResetBreaker(p)
  /\ call' = [call EXCEPT ![c] = "answered"]
  /\ UNCHANGED <<hasFallback, verdict, recovered>>

PrimaryFails(c) == \E p \in Primaries \ recovered :
  /\ Asks(c, p)
  /\ RecordFailure(p)
  /\ verdict' = [verdict EXCEPT ![c][p] = "failed"]
  /\ UNCHANGED <<hasFallback, call, recovered>>

\* A permanent error (isTransient is false, which includes a cancelled call)
\* ends the call and leaves the breaker alone.
PrimaryRefuses(c) == \E p \in Primaries :
  /\ recovered = {}
  /\ Asks(c, p)
  /\ call' = [call EXCEPT ![c] = "failed"]
  /\ UNCHANGED <<hasFallback, failures, openFor, verdict, recovered>>

\* Broken: goes to the fallback after the first failure.
ExhaustedEarly(c) ==
  /\ call[c] = "running"
  /\ WithVerdict(c, "unseen") = {}
  /\ WithVerdict(c, "closed") = {} \/ WithVerdict(c, "failed") # {}
  /\ call' = [call EXCEPT ![c] =
       IF hasFallback THEN "fallback"
       ELSE IF WithVerdict(c, "failed") # {} THEN "failed" ELSE "nothing"]
  /\ UNCHANGED <<hasFallback, failures, openFor, verdict, recovered>>

\* The loop is over.  Without a fallback the call returns its last error, and
\* when no primary was asked, neither an answer nor an error.
Exhausted(c) ==
  /\ call[c] = "running"
  /\ WithVerdict(c, "unseen") \union WithVerdict(c, "closed") = {}
  /\ call' = [call EXCEPT ![c] =
       IF hasFallback THEN "fallback"
       ELSE IF WithVerdict(c, "failed") # {} THEN "failed" ELSE "nothing"]
  /\ UNCHANGED <<hasFallback, failures, openFor, verdict, recovered>>

FallbackReturns(c) == \E outcome \in {"answered", "failed"} :
  /\ call[c] = "fallback"
  /\ call' = [call EXCEPT ![c] = outcome]
  /\ UNCHANGED <<hasFallback, failures, openFor, verdict, recovered>>

\* The caller goes on; it may call again.
CallReturns(c) ==
  /\ call[c] \in Ended
  /\ call' = [call EXCEPT ![c] = "idle"]
  /\ verdict' = [verdict EXCEPT ![c] = Unseen]
  /\ UNCHANGED <<hasFallback, failures, openFor, recovered>>

-----------------------------------------------------------------------------
(* The environment *)

CooldownPasses ==
  /\ \E p \in Primaries : openFor[p] >= 0
  /\ openFor' = [p \in Primaries |-> IF openFor[p] >= 0 THEN openFor[p] - 1 ELSE -1]
  /\ UNCHANGED <<hasFallback, failures, call, verdict, recovered>>

\* The outage ends for one primary; the others fail transiently at worst.
Recover == \E p \in Primaries :
  /\ recovered = {}
  /\ recovered' = {p}
  /\ UNCHANGED <<hasFallback, failures, openFor, call, verdict>>

-----------------------------------------------------------------------------
CallStep(c) ==
  \/ Survey(c) \/ PrimaryAnswers(c) \/ PrimaryFails(c) \/ PrimaryRefuses(c)
  \/ Exhausted(c) \/ FallbackReturns(c) \/ CallReturns(c)

FailoverNext ==
  \/ \E c \in Calls : BeginCall(c) \/ CallStep(c)
  \/ CooldownPasses
  \/ Recover

FailoverSpec == FailoverInit /\ [][FailoverNext]_failoverVars

\* Providers answer or time out, goroutines are scheduled, time passes.
FailoverFairness ==
  /\ \A c \in Calls : WF_failoverVars(CallStep(c))
  /\ WF_failoverVars(CooldownPasses)

-----------------------------------------------------------------------------
(* Properties *)

FailoverTypeOK ==
  /\ hasFallback \in BOOLEAN
  /\ failures \in [Primaries -> 0..BreakerThreshold]
  /\ openFor \in [Primaries -> -1..BreakerCooldown]
  /\ call \in [Calls -> {"idle", "running", "fallback"} \union Ended]
  /\ verdict \in [Calls -> [Primaries -> {"unseen", "open", "closed", "failed"}]]
  /\ recovered \subseteq Primaries

\* "Tries each primary provider in order, then the fallback": a call reaches
\* the fallback, or ends with no answer and no error, only after it found every
\* primary's breaker open or saw the primary fail, whatever other calls do to the
\* breakers meanwhile; and it ends with neither only when every breaker was
\* open at the moment it looked and no fallback is configured.
NoPrimaryOverlooked == \A c \in Calls :
  /\ call[c] \in {"fallback", "nothing"} =>
       WithVerdict(c, "open") \union WithVerdict(c, "failed") = Primaries
  /\ call[c] = "nothing" => ~hasFallback /\ WithVerdict(c, "open") = Primaries

\* Once a primary answers again and no primary fails permanently, the calls end
\* with an answer from some moment on, with or without a fallback: neither the
\* counter that survives the cooldown nor a late report keeps it shut out.
OutageEnds == <>[](recovered # {} => \A c \in Calls : call[c] \notin {"failed", "nothing"})
=============================================================================
