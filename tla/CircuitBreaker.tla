---------------------------- MODULE CircuitBreaker ----------------------------
(***************************************************************************)
(* The wrapper that restarts a trigger of the proactive engine             *)
(* (internal/proactive/circuit_breaker.go).  Durations are signed 64-bit   *)
(* nanoseconds in the code; here a word of WordBits bits holds one and a   *)
(* second is worth Second units, so that a shifted second overflows early. *)
(***************************************************************************)
EXTENDS Integers

CONSTANTS
  WordBits,      \* 64 in the code
  Second,        \* units of a second, 10^9 in the code
  ConsecutiveFailLimit,
  CooldownMax,   \* the cap of a delay, in units
  MaxFailures    \* bound: failures of the source

\* What n shifts of 1 to the left give, before they are cut to the word.
PowerOfTwo[n \in Nat] == IF n = 0 THEN 1 ELSE 2 * PowerOfTwo[n - 1]

ASSUME BreakerConfig ==
  /\ {WordBits, Second, ConsecutiveFailLimit} \subseteq Nat \ {0}
  /\ CooldownMax \in Nat /\ MaxFailures \in Nat
  /\ Second <= CooldownMax /\ CooldownMax < PowerOfTwo[WordBits - 1]

VARIABLES
  source,       \* "running", "backing off", "cooling down", or "over"
  cancelled,    \* the engine's context
  consecutive, tripped, attempt,
  delay         \* what the last backoff slept

breakerVars == <<source, cancelled, consecutive, tripped, attempt, delay>>

BreakerInit ==
  /\ source = "running"
  /\ cancelled = FALSE
  /\ consecutive = 0 /\ tripped = FALSE /\ attempt = 0
  /\ delay = 0

-----------------------------------------------------------------------------
\* The value of a signed word.
Wrapped(n) == ((n + PowerOfTwo[WordBits - 1]) % PowerOfTwo[WordBits]) - PowerOfTwo[WordBits - 1]

\* A shift by the width or more gives 0.
ShiftLeft(n) == IF n < WordBits THEN PowerOfTwo[n] ELSE 0

\* Broken: the cap is applied to the number of seconds.
BackoffOfSeconds(n) ==
  LET d == Wrapped(ShiftLeft(n) * Second) IN IF d > CooldownMax THEN 0 ELSE d

\* 1s, 2s, 4s, ... and no more than the cap: only too large a delay is corrected.
Backoff(n) ==
  LET d == Wrapped(ShiftLeft(n) * Second) IN IF d > CooldownMax THEN CooldownMax ELSE d

\* The source gives up for good: its Start returned nil.
SourceReturns ==
  /\ source = "running"
  /\ source' = "over"
  /\ consecutive' = 0 /\ tripped' = FALSE
  /\ UNCHANGED <<cancelled, attempt, delay>>

\* However long it had run before.
SourceFails ==
  /\ source = "running" /\ ~cancelled
  /\ attempt < MaxFailures
  /\ attempt' = attempt + 1
  /\ consecutive' = consecutive + 1
  /\ IF consecutive + 1 >= ConsecutiveFailLimit
     THEN source' = "cooling down" /\ tripped' = TRUE /\ UNCHANGED delay
     ELSE source' = "backing off" /\ delay' = Backoff(attempt) /\ UNCHANGED tripped
  /\ UNCHANGED cancelled

\* The breaker forgets the failures, but not the number of attempts: it takes
\* ConsecutiveFailLimit more of them to trip again.
CooldownEnds ==
  /\ source = "cooling down"
  /\ source' = "running"
  /\ consecutive' = 0 /\ tripped' = FALSE
  /\ UNCHANGED <<cancelled, attempt, delay>>

BackoffEnds ==
  /\ source = "backing off"
  /\ source' = "running"
  /\ UNCHANGED <<cancelled, consecutive, tripped, attempt, delay>>

Cancel ==
  /\ ~cancelled
  /\ cancelled' = TRUE
  /\ UNCHANGED <<source, consecutive, tripped, attempt, delay>>

\* Asleep or running, the wrapper ends with its context.
BreakerStops ==
  /\ cancelled /\ source # "over"
  /\ source' = "over"
  /\ UNCHANGED <<cancelled, consecutive, tripped, attempt, delay>>

BreakerNext ==
  SourceReturns \/ SourceFails \/ CooldownEnds \/ BackoffEnds \/ Cancel \/ BreakerStops

-----------------------------------------------------------------------------
(* Properties *)

BreakerTypeOK ==
  /\ source \in {"running", "backing off", "cooling down", "over"}
  /\ cancelled \in BOOLEAN /\ tripped \in BOOLEAN
  /\ consecutive \in 0..ConsecutiveFailLimit
  /\ attempt \in 0..MaxFailures
  /\ delay \in -(PowerOfTwo[WordBits - 1])..CooldownMax

\* A source that keeps failing is not restarted in a tight loop: every retry
\* waits a second at least and the cap at most, through any number of trips, as
\* long as the shifted second fits the word.  Beyond that (the 35th failure of the
\* code, since no trip resets attempt) the delay is negative or 0 at times.
WaitsBeforeRetry ==
  source = "backing off" =>
    \/ Second <= delay /\ delay <= CooldownMax
    \/ ShiftLeft(attempt - 1) = 0
    \/ ShiftLeft(attempt - 1) * Second >= PowerOfTwo[WordBits - 1]
=============================================================================
