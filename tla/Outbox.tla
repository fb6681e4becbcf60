------------------------------- MODULE Outbox -------------------------------
(***************************************************************************)
(* The persistent outbox of proactive notifications                        *)
(* (internal/proactive/outbox.go).  Send inserts a row in an SQLite table  *)
(* and returns; a worker goroutine per notifier polls the table, hands the *)
(* first due row to its notifier and deletes the row, or schedules a       *)
(* retry.  Every worker of the process opens the same table                *)
(* (cmd/assistclaw/main.go), which has no column for the notifier.         *)
(*                                                                         *)
(* flush runs under one 30 s context: once it expired every SQL statement  *)
(* fails.  Each SQL statement and each call of the notifier is a step, so  *)
(* the process may crash, and another worker run, between any two.         *)
(***************************************************************************)
EXTENDS Naturals, FiniteSets

CONSTANTS
  Msgs,         \* the notifications
  Workers,      \* the notifiers, one Outbox with its worker each
  MaxAttempts,  \* maxAttempts in flush
  None          \* no notification, no notifier

ASSUME OutboxConfig ==
  /\ MaxAttempts \in Nat
  /\ None \notin Msgs \union Workers
  /\ IsFiniteSet(Workers)

VARIABLES
  row,          \* the table: a "queued" message has a row; history of the rest
  id,           \* the row's AUTOINCREMENT key
  nextId,
  attempts,     \* the row's column, up to MaxAttempts, all it is compared with
  due,          \* the rows whose next_retry has passed
  pc,           \* where each worker stands; "down": its process does not run
  job,          \* the row flush holds in its local variables
  expired,      \* flush's context has expired
  stopping,     \* the process is shutting down: every stop channel is closed
  calm,         \* environment: from now on no crash, stop, expiry or SQL error
  addressee,    \* history: the notifier Send was called on
  takers,       \* history: the notifiers whose peer took the message
  copies,       \* history: how often it was taken, up to CountCap
  fails         \* history: how many tries failed, up to CountCap

rows    == <<row, id, nextId, attempts, due>>
process == <<pc, job, expired, stopping>>
history == <<addressee, takers, copies, fails>>
vars    == <<rows, process, calm, history>>

CountCap == MaxAttempts + 1

Queued == {m \in Msgs : row[m] = "queued"}
Ready  == Queued \intersect due

Sat(c, cap) == IF c < cap THEN c + 1 ELSE c

Goto(w, from, to) ==
  /\ pc[w] = from
  /\ pc' = [pc EXCEPT ![w] = to]

\* The outcomes an SQL statement of flush can have.
SqlOk(w)  == ~expired[w]
SqlErr(w) == expired[w] \/ ~calm

Init ==
  /\ row = [m \in Msgs |-> "new"]
  /\ id = [m \in Msgs |-> 0]
  /\ nextId = 1
  /\ attempts = [m \in Msgs |-> 0]
  /\ due = {}
  /\ pc = [w \in Workers |-> "idle"]
  /\ job = [w \in Workers |-> None]
  /\ expired = [w \in Workers |-> FALSE]
  /\ stopping = FALSE
  /\ calm = FALSE
  /\ addressee = [m \in Msgs |-> None]
  /\ takers = [m \in Msgs |-> {}]
  /\ copies = [m \in Msgs |-> 0]
  /\ fails = [m \in Msgs |-> 0]

-----------------------------------------------------------------------------
(* Send.  A failed INSERT returns its error and changes nothing. *)

Send(w, m) ==
  /\ pc[w] # "down"
  /\ row[m] = "new"
  /\ row' = [row EXCEPT ![m] = "queued"]
  /\ id' = [id EXCEPT ![m] = nextId]
  /\ nextId' = nextId + 1
  /\ due' = due \union {m}
  /\ addressee' = [addressee EXCEPT ![m] = w]
  /\ UNCHANGED <<attempts, process, calm, takers, copies, fails>>

\* The clock reaches the row's next_retry.
Elapse(m) ==
  /\ m \in Queued \ due
  /\ due' = due \union {m}
  /\ UNCHANGED <<row, id, nextId, attempts, process, calm, history>>

-----------------------------------------------------------------------------
(* One pass of flush *)

\* The ticker fires; flush takes a new context.
Tick(w) ==
  /\ Goto(w, "idle", "select")
  /\ UNCHANGED <<rows, job, expired, stopping, calm, history>>

\* Broken: the row is deleted when it is picked, before its notifier ran.
PickDeletes(w, m) ==
  /\ SqlOk(w)
  /\ m \in Ready
  /\ \A n \in Ready : id[m] <= id[n]
  /\ Goto(w, "select", "sending")
  /\ job' = [job EXCEPT ![w] = m]
  /\ row' = [row EXCEPT ![m] = "delivered"]
  /\ UNCHANGED <<id, nextId, attempts, due, expired, stopping, calm, history>>

\* SELECT ... WHERE next_retry <= now ORDER BY id LIMIT 1
Pick(w, m) ==
  /\ SqlOk(w)
  /\ m \in Ready
  /\ \A n \in Ready : id[m] <= id[n]
  /\ Goto(w, "select", "sending")
  /\ job' = [job EXCEPT ![w] = m]
  /\ UNCHANGED <<rows, expired, stopping, calm, history>>

\* No row is due, or the query failed: flush returns.
EndFlush(w) ==
  /\ (SqlOk(w) /\ Ready = {}) \/ SqlErr(w)
  /\ Goto(w, "select", "idle")
  /\ expired' = [expired EXCEPT ![w] = FALSE]
  /\ UNCHANGED <<rows, job, stopping, calm, history>>

Took(w, took) ==
  LET m == job[w] IN
  /\ takers' = IF took THEN [takers EXCEPT ![m] = @ \union {w}] ELSE takers
  /\ copies' = IF took THEN [copies EXCEPT ![m] = Sat(@, CountCap)] ELSE copies

SendOk(w) ==
  /\ Goto(w, "sending", "sent")
  /\ Took(w, TRUE)
  /\ UNCHANGED <<rows, job, expired, stopping, calm, addressee, fails>>

\* The notifier's error does not say whether the peer took the message.
SendFail(w) == \E took \in BOOLEAN :
  /\ Goto(w, "sending", "failed")
  /\ Took(w, took)
  /\ fails' = [fails EXCEPT ![job[w]] = Sat(@, CountCap)]
  /\ UNCHANGED <<rows, job, expired, stopping, calm, addressee>>

\* A statement on the row by its id has no effect on a row that is gone.
Remove(w, fate) ==
  /\ row' = [row EXCEPT ![job[w]] = IF @ = "queued" THEN fate ELSE @]
  /\ id' = [id EXCEPT ![job[w]] = 0]
  /\ attempts' = [attempts EXCEPT ![job[w]] = 0]
  /\ due' = due \ {job[w]}

Keep == UNCHANGED <<row, id, attempts, due>>

NextRow(w, from) ==
  /\ Goto(w, from, "select")
  /\ job' = [job EXCEPT ![w] = None]
  /\ UNCHANGED <<expired, stopping, calm, history>>

DeleteSent(w) ==
  /\ NextRow(w, "sent")
  /\ \/ SqlOk(w) /\ Remove(w, "delivered")
     \/ SqlErr(w) /\ Keep
  /\ UNCHANGED nextId

\* Broken: the row is dropped one try early.
ReadAttemptsEarly(w) ==
  LET spent == row[job[w]] = "queued" /\ attempts[job[w]] + 1 >= MaxAttempts IN
  /\ \/ SqlOk(w) /\ Goto(w, "failed", IF spent THEN "drop" ELSE "backoff")
     \/ SqlErr(w) /\ Goto(w, "failed", "backoff")
  /\ UNCHANGED <<rows, job, expired, stopping, calm, history>>

\* A failed read of attempts counts as 0.
ReadAttempts(w) ==
  LET spent == row[job[w]] = "queued" /\ attempts[job[w]] >= MaxAttempts IN
  /\ \/ SqlOk(w) /\ Goto(w, "failed", IF spent THEN "drop" ELSE "backoff")
     \/ SqlErr(w) /\ Goto(w, "failed", "backoff")
  /\ UNCHANGED <<rows, job, expired, stopping, calm, history>>

\* Broken: a poison row is marked instead of deleted.
DropPoisonMarks(w) ==
  /\ NextRow(w, "drop")
  /\ \/ SqlOk(w) /\ Remove(w, "poison")
     \/ SqlErr(w) /\ Keep
  /\ UNCHANGED nextId

DropPoison(w) ==
  /\ NextRow(w, "drop")
  /\ \/ SqlOk(w) /\ Remove(w, "dropped")
     \/ SqlErr(w) /\ Keep
  /\ UNCHANGED nextId

\* Broken: the retry is scheduled but not counted.
PostponeUncounted(m) ==
  /\ due' = due \ {m}
  /\ UNCHANGED <<row, id, attempts>>

Postpone(m) ==
  /\ attempts' = [attempts EXCEPT ![m] = Sat(@, MaxAttempts)]
  /\ due' = due \ {m}
  /\ UNCHANGED <<row, id>>

ScheduleRetry(w) ==
  /\ NextRow(w, "backoff")
  /\ \/ SqlOk(w) /\ row[job[w]] = "queued" /\ Postpone(job[w])
     \/ (SqlErr(w) \/ row[job[w]] # "queued") /\ Keep
  /\ UNCHANGED nextId

\* The 30 s of flush's context are over.
Expire(w) ==
  /\ ~calm
  /\ pc[w] \notin {"down", "idle"}
  /\ ~expired[w]
  /\ expired' = [expired EXCEPT ![w] = TRUE]
  /\ UNCHANGED <<rows, pc, job, stopping, calm, history>>

-----------------------------------------------------------------------------
(* The process *)

\* Shutdown closes the stop channels.  A flush that runs is not interrupted,
\* and select may still choose the ticker.
Stop ==
  /\ ~calm
  /\ \E w \in Workers : pc[w] # "down"
  /\ stopping' = TRUE
  /\ UNCHANGED <<rows, pc, job, expired, calm, history>>

Exit(w) ==
  /\ stopping
  /\ Goto(w, "idle", "down")
  /\ UNCHANGED <<rows, job, expired, stopping, calm, history>>

AllDown == \A w \in Workers : pc[w] = "down"

Crash ==
  /\ ~calm
  /\ ~AllDown
  /\ pc' = [w \in Workers |-> "down"]
  /\ job' = [w \in Workers |-> None]
  /\ expired' = [w \in Workers |-> FALSE]
  /\ UNCHANGED <<rows, stopping, calm, history>>

Boot ==
  /\ AllDown
  /\ pc' = [w \in Workers |-> "idle"]
  /\ stopping' = FALSE
  /\ UNCHANGED <<rows, job, expired, calm, history>>

\* The environment may, but need not, stop causing faults.
Settle ==
  /\ ~calm /\ ~stopping
  /\ \A w \in Workers : pc[w] # "down" /\ ~expired[w]
  /\ calm' = TRUE
  /\ UNCHANGED <<rows, process, history>>

-----------------------------------------------------------------------------
Deliver(w) == \E m \in Msgs : Pick(w, m)

Flush(w) ==
  \/ Tick(w) \/ Deliver(w) \/ EndFlush(w) \/ SendOk(w) \/ SendFail(w)
  \/ DeleteSent(w) \/ ReadAttempts(w) \/ DropPoison(w) \/ ScheduleRetry(w)

Fault == Stop \/ Crash \/ Boot \/ Settle \/ \E w \in Workers : Expire(w) \/ Exit(w)

Next ==
  \/ \E w \in Workers, m \in Msgs : Send(w, m)
  \/ \E m \in Msgs : Elapse(m)
  \/ \E w \in Workers : Flush(w)
  \/ Fault

Spec == Init /\ [][Next]_vars

\* The worker goroutine is scheduled, its ticker fires and its notifier returns;
\* time passes.  A process that is down need not be booted again.
Fairness ==
  /\ \A w \in Workers : WF_vars(Flush(w))
  /\ \A m \in Msgs : WF_vars(Elapse(m))

FairSpec == Spec /\ Fairness

-----------------------------------------------------------------------------
(* Properties *)

TypeOK ==
  /\ row \in [Msgs -> {"new", "queued", "delivered", "dropped"}]
  /\ id \in [Msgs -> Nat]
  /\ nextId \in Nat
  /\ attempts \in [Msgs -> 0..MaxAttempts]
  /\ due \subseteq Msgs
  /\ pc \in [Workers -> {"down", "idle", "select", "sending", "sent", "failed",
                         "drop", "backoff"}]
  /\ job \in [Workers -> Msgs \union {None}]
  /\ expired \in [Workers -> BOOLEAN]
  /\ stopping \in BOOLEAN
  /\ calm \in BOOLEAN
  /\ addressee \in [Msgs -> Workers \union {None}]
  /\ takers \in [Msgs -> SUBSET Workers]
  /\ copies \in [Msgs -> 0..CountCap]
  /\ fails \in [Msgs -> 0..CountCap]

\* Kill -9, a restart, an SQL error or an expired context never cost a
\* notification: its row leaves the table only after its notifier reported a
\* success, or after MaxAttempts + 1 tries that failed.
NoLossBeforeCap == \A m \in Msgs :
  /\ row[m] = "delivered" => copies[m] > 0
  /\ row[m] = "dropped" => fails[m] > MaxAttempts

\* Once the faults end, every row leaves the table, delivered or dropped as
\* poison, whatever its notifier answers and however many rows wait before it.
Drained == \A m \in Msgs :
  calm /\ row[m] = "queued" ~> row[m] \in {"delivered", "dropped"}

\* The Outbox "wraps a Notifier with SQLite-backed persistence": what is sent
\* on one notifier's outbox is taken only by that notifier's peer.
DeliveredToAddressee == \A m \in Msgs : takers[m] \subseteq {addressee[m]}

\* With one worker the outbox implements Delivery with a patience of
\* MaxAttempts + 1: nothing is sent after its row was deleted, and only a
\* message refused that often is abandoned.
PhaseOf(s) ==
  CASE s = "queued" -> "open"
    [] s = "dropped" -> "abandoned"
    [] OTHER -> s

phaseBar == [m \in Msgs |-> PhaseOf(row[m])]

Contract == INSTANCE Delivery
  WITH phase <- phaseBar, refusals <- fails, Patience <- CountCap
ImplementsDelivery == Contract!Spec
=============================================================================
