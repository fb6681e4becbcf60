--------------------------- MODULE CalendarTrigger ---------------------------
(***************************************************************************)
(* The trigger that warns of meetings (internal/proactive/                 *)
(* calendar_trigger.go) over a Google calendar (calendar_google.go).  It   *)
(* asks for the coming meetings when it starts and at every tick, and      *)
(* remembers in memory which of them it announced.                         *)
(*                                                                         *)
(* Time is counted in steps.  A poll takes none, but the ticker's next one *)
(* may find the trigger still waiting for room in the engine's queue, and  *)
(* comes late then.  An event without a time of day is no meeting; more    *)
(* meetings than one page of the API holds are left out.                   *)
(***************************************************************************)
EXTENDS Integers

CONSTANTS
  Meetings,    \* their IDs
  Interval,    \* between two polls
  WarnBefore,  \* how long before its start a meeting is announced
  MaxClock,    \* bound: of the time
  MaxMoves     \* bound: meetings that are moved, polls that fail, restarts

ASSUME CalendarConfig ==
  /\ {Interval, WarnBefore} \subseteq Nat \ {0}
  /\ {MaxClock, MaxMoves} \subseteq Nat

VARIABLES
  clock,
  startsAt,   \* per meeting
  calendarOn, \* the daemon runs
  nextPoll,   \* when the ticker fires
  fired,      \* pairs <<meeting, time>>: what was announced and when
  moves,
  announced,  \* history: pairs <<meeting, start>>
  sinceStart, \* history: those announced since the daemon started
  forgiven,   \* history: meetings that a named hazard keeps from being announced
  missed,     \* history: other meetings that began unannounced
  twice       \* history: a meeting was announced twice for one start

calendarVars ==
  <<clock, startsAt, calendarOn, nextPoll, fired, moves, announced, sinceStart, forgiven,
    missed, twice>>

CalendarInit ==
  /\ clock = 0
  /\ startsAt \in [Meetings -> 1..MaxClock]
  /\ calendarOn = TRUE
  /\ nextPoll = 0
  /\ fired = {}
  /\ moves = 0
  /\ announced = {} /\ sinceStart = {} /\ forgiven = {} /\ missed = {} /\ twice = FALSE

-----------------------------------------------------------------------------
PollDue == calendarOn /\ clock >= nextPoll

\* Meetings to announce now.  The range asked for reaches an Interval further.
StartingSoon(m) == startsAt[m] - clock \in 0..WarnBefore

Remembered(m) == \E f \in fired : f[1] = m

\* Broken: an entry is forgotten before its meeting began.
StillFiredBriefly(f) == clock - f[2] <= Interval

\* Entries older than this are forgotten before the events are looked at.
StillFired(f) == clock - f[2] <= WarnBefore + Interval

\* The ticker goes on from the time it fired; ticks that nobody took are dropped.
NextTick == nextPoll' = clock + Interval - ((clock - nextPoll) % Interval)

\* A meeting that is remembered is passed over, though its start be another by now.
Poll ==
  /\ PollDue
  /\ NextTick
  /\ LET kept == {f \in fired : StillFired(f)}
         soon == {m \in Meetings : StartingSoon(m)}
         new  == {m \in soon : \A f \in kept : f[1] # m}
         calls == {<<m, startsAt[m]>> : m \in new}
     IN /\ fired' = kept \cup {<<m, clock>> : m \in new}
        /\ announced' = announced \cup calls
        /\ sinceStart' = sinceStart \cup calls
        /\ twice' = (twice \/ calls \cap sinceStart # {})
        /\ forgiven' = forgiven \cup {m \in soon \ new : <<m, startsAt[m]>> \notin announced}
  /\ UNCHANGED <<clock, startsAt, calendarOn, moves, missed>>

\* The calendar does not answer: the trigger waits for the next tick.
PollFails ==
  /\ PollDue /\ moves < MaxMoves /\ moves' = moves + 1
  /\ NextTick
  /\ forgiven' = forgiven \cup {m \in Meetings : StartingSoon(m)}
  /\ UNCHANGED <<clock, startsAt, calendarOn, fired, announced, sinceStart, missed, twice>>

\* Time goes on.  A poll that is due and has to wait may come too late for what starts now.
TimePasses ==
  /\ clock < MaxClock
  /\ clock' = clock + 1
  /\ PollDue => moves < MaxMoves
  /\ moves' = IF PollDue THEN moves + 1 ELSE moves
  /\ LET late == IF PollDue \/ ~calendarOn THEN {m \in Meetings : StartingSoon(m)} ELSE {}
         over == {m \in Meetings : startsAt[m] = clock /\ <<m, clock>> \notin announced}
     IN forgiven' = forgiven \cup late /\ missed' = missed \cup (over \ forgiven')
  /\ UNCHANGED <<startsAt, calendarOn, nextPoll, fired, announced, sinceStart, twice>>

\* Somebody moves a meeting, maybe to a start that comes before the next poll.
MoveMeeting ==
  /\ moves < MaxMoves /\ moves' = moves + 1
  /\ \E m \in Meetings, s \in clock + 1..MaxClock :
       /\ startsAt' = [startsAt EXCEPT ![m] = s]
       /\ forgiven' = IF s < nextPoll THEN forgiven \cup {m} ELSE forgiven \ {m}
  /\ UNCHANGED <<clock, calendarOn, nextPoll, fired, announced, sinceStart, missed, twice>>

\* The daemon ends, and with it what the trigger remembers.
WatchEnds ==
  /\ calendarOn /\ moves < MaxMoves /\ moves' = moves + 1
  /\ calendarOn' = FALSE
  /\ fired' = {}
  /\ UNCHANGED <<clock, startsAt, nextPoll, announced, sinceStart, forgiven, missed, twice>>

\* It polls at once, and every Interval from now on.
WatchStarts ==
  /\ ~calendarOn
  /\ calendarOn' = TRUE
  /\ nextPoll' = clock
  /\ sinceStart' = {}
  /\ UNCHANGED <<clock, startsAt, fired, moves, announced, forgiven, missed, twice>>

CalendarNext ==
  Poll \/ PollFails \/ TimePasses \/ MoveMeeting \/ WatchEnds \/ WatchStarts

-----------------------------------------------------------------------------
(* Properties *)

CalendarTypeOK ==
  /\ clock \in 0..MaxClock /\ startsAt \in [Meetings -> 1..MaxClock]
  /\ calendarOn \in BOOLEAN /\ nextPoll \in 0..(MaxClock + Interval)
  /\ fired \subseteq Meetings \X (0..MaxClock)
  /\ moves \in 0..MaxMoves
  /\ sinceStart \subseteq announced /\ announced \subseteq Meetings \X (1..MaxClock)
  /\ forgiven \subseteq Meetings /\ missed \subseteq Meetings /\ twice \in BOOLEAN

\* While the daemon runs, a meeting is announced once for a start.  With a warning no
\* shorter than the interval it is announced before it begins, unless a poll in its window
\* failed or came late, it was moved to a time before the next poll, or it was announced
\* for an earlier start that the trigger still remembers.
MeetingsAnnounced ==
  /\ ~twice
  /\ WarnBefore >= Interval => missed = {}
=============================================================================
