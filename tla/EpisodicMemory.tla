---------------------------- MODULE EpisodicMemory ----------------------------
(***************************************************************************)
(* The conversation history (internal/memory/memory.go): Save hands a      *)
(* message to a bounded channel, one goroutine collects the messages and   *)
(* writes them to SQLite in batches, when a batch is full and at every     *)
(* tick of a timer, and Close lets it drain the channel.                   *)
(*                                                                         *)
(* The messages are those of one session, the one DeleteSession forgets.   *)
(* A flush is one step: SQLite runs its transaction and a DELETE one after *)
(* the other.                                                              *)
(***************************************************************************)
EXTENDS Integers, Sequences, FiniteSets, SequencesExt

CONSTANTS
  Messages,
  WriteCap,     \* capacity of writeCh
  BatchSize

ASSUME EpisodicConfig ==
  /\ WriteCap \in Nat \ {0}
  /\ BatchSize \in Nat \ {0}

VARIABLES
  saver,        \* where the Save of each message stands
  writeCh, chClosed,
  batch,
  db,           \* the rows of the session
  batchWriter,  \* "running", "draining", "done", or "dead" with the process
  memClose,     \* Close: "uncalled", "waiting", "returned"
  dropped,      \* history: messages whose transaction or row failed
  deleted,      \* history: rows DeleteSession removed
  forgotten,    \* history: messages accepted before a DeleteSession
  overtaken     \* history: those of them it found still unwritten

episodicVars == <<saver, writeCh, chClosed, batch, db, batchWriter, memClose,
                  dropped, deleted, forgotten, overtaken>>

EpisodicInit ==
  /\ saver = [m \in Messages |-> "new"]
  /\ writeCh = <<>> /\ chClosed = FALSE
  /\ batch = {}
  /\ db = {}
  /\ batchWriter = "running"
  /\ memClose = "uncalled"
  /\ dropped = {} /\ deleted = {} /\ forgotten = {} /\ overtaken = {}

Writing == batchWriter \in {"running", "draining"}

-----------------------------------------------------------------------------
(* Save, called by the turns of the agent *)

SaveBegins(m) ==
  /\ saver[m] = "new" /\ batchWriter # "dead"
  /\ saver' = [saver EXCEPT ![m] = "sending"]
  /\ UNCHANGED <<writeCh, chClosed, batch, db, batchWriter, memClose, dropped, deleted,
                 forgotten, overtaken>>

\* Broken: the queue has no bound.
SaveAcceptedAlways(m) ==
  /\ saver[m] = "sending" /\ batchWriter # "dead"
  /\ ~chClosed
  /\ writeCh' = Append(writeCh, m)
  /\ saver' = [saver EXCEPT ![m] = "accepted"]
  /\ UNCHANGED <<chClosed, batch, db, batchWriter, memClose, dropped, deleted,
                 forgotten, overtaken>>

\* It waits while the channel is full.
SaveAccepted(m) ==
  /\ saver[m] = "sending" /\ batchWriter # "dead"
  /\ ~chClosed /\ Len(writeCh) < WriteCap
  /\ writeCh' = Append(writeCh, m)
  /\ saver' = [saver EXCEPT ![m] = "accepted"]
  /\ UNCHANGED <<chClosed, batch, db, batchWriter, memClose, dropped, deleted,
                 forgotten, overtaken>>

\* The context of the turn ends first.
SaveRefused(m) ==
  /\ saver[m] = "sending" /\ batchWriter # "dead"
  /\ saver' = [saver EXCEPT ![m] = "refused"]
  /\ UNCHANGED <<writeCh, chClosed, batch, db, batchWriter, memClose, dropped, deleted,
                 forgotten, overtaken>>

\* A send on the closed channel, begun before or after it was closed, panics, and
\* no caller recovers: the process dies.
SavePanics(m) ==
  /\ saver[m] = "sending" /\ batchWriter # "dead"
  /\ chClosed
  /\ saver' = [saver EXCEPT ![m] = "panicked"]
  /\ batchWriter' = "dead"
  /\ UNCHANGED <<writeCh, chClosed, batch, db, memClose, dropped, deleted,
                 forgotten, overtaken>>

-----------------------------------------------------------------------------
(* batchWriter *)

\* Broken: the batch is not emptied when a statement fails.
FlushKeeps(b) == \E written \in SUBSET b :
  /\ db' = db \union written
  /\ dropped' = dropped
  /\ batch' = IF written = b THEN {} ELSE b

\* The transaction writes the rows it can; if it cannot begin, be prepared or
\* be committed, it writes none.  The batch is gone either way.
Flush(b) == \E written \in SUBSET b :
  /\ db' = db \union written
  /\ dropped' = dropped \union (b \ written)
  /\ batch' = {}

\* The same in the main loop and in the loop that drains the channel.
Take ==
  /\ Writing /\ writeCh # <<>>
  /\ writeCh' = Tail(writeCh)
  /\ LET grown == batch \union {Head(writeCh)} IN
     IF Cardinality(grown) >= BatchSize THEN Flush(grown)
     ELSE batch' = grown /\ UNCHANGED <<db, dropped>>
  /\ UNCHANGED <<saver, chClosed, batchWriter, memClose, deleted, forgotten,
                 overtaken>>

TimerFires ==
  /\ batchWriter = "running" /\ batch # {}
  /\ Flush(batch)
  /\ UNCHANGED <<saver, writeCh, chClosed, batchWriter, memClose, deleted, forgotten,
                 overtaken>>

\* Close is noticed: flush, and close the channel so that the drain ends.
StopNoticed ==
  /\ batchWriter = "running" /\ memClose # "uncalled"
  /\ Flush(batch)
  /\ chClosed' = TRUE
  /\ batchWriter' = "draining"
  /\ UNCHANGED <<saver, writeCh, memClose, deleted, forgotten,
                 overtaken>>

Drained ==
  /\ batchWriter = "draining" /\ writeCh = <<>>
  /\ Flush(batch)
  /\ batchWriter' = "done"
  /\ UNCHANGED <<saver, writeCh, chClosed, memClose, deleted, forgotten,
                 overtaken>>

-----------------------------------------------------------------------------
(* DeleteSession and Close *)

\* Broken: while a batch is open the database is locked, and the error is lost.
DeleteSessionBusy ==
  /\ memClose # "returned" /\ batchWriter # "dead"
  /\ db # {} \/ batch # {} \/ writeCh # <<>>
  /\ deleted' = IF batch = {} THEN deleted \union db ELSE deleted
  /\ db' = IF batch = {} THEN {} ELSE db
  /\ forgotten' = {m \in Messages : saver[m] = "accepted"}
  /\ overtaken' = overtaken \union batch \union ToSet(writeCh)
  /\ UNCHANGED <<saver, writeCh, chClosed, batch, batchWriter, memClose, dropped>>

\* What is not written yet is not deleted.
DeleteSession ==
  /\ memClose # "returned" /\ batchWriter # "dead"
  /\ db # {} \/ batch # {} \/ writeCh # <<>>
  /\ deleted' = deleted \union db
  /\ db' = {}
  /\ forgotten' = {m \in Messages : saver[m] = "accepted"}
  /\ overtaken' = overtaken \union batch \union ToSet(writeCh)
  /\ UNCHANGED <<saver, writeCh, chClosed, batch, batchWriter, memClose, dropped>>

CloseCalled ==
  /\ memClose = "uncalled" /\ batchWriter # "dead"
  /\ memClose' = "waiting"
  /\ UNCHANGED <<saver, writeCh, chClosed, batch, db, batchWriter, dropped, deleted,
                 forgotten, overtaken>>

CloseReturns ==
  /\ memClose = "waiting" /\ batchWriter = "done"
  /\ memClose' = "returned"
  /\ UNCHANGED <<saver, writeCh, chClosed, batch, db, batchWriter, dropped, deleted,
                 forgotten, overtaken>>

-----------------------------------------------------------------------------
EpisodicNext ==
  \/ \E m \in Messages :
       SaveBegins(m) \/ SaveAccepted(m) \/ SaveRefused(m) \/ SavePanics(m)
  \/ Take \/ TimerFires \/ StopNoticed \/ Drained
  \/ DeleteSession \/ CloseCalled \/ CloseReturns

EpisodicSpec == EpisodicInit /\ [][EpisodicNext]_episodicVars

\* The writer is scheduled and its timer fires, and Close is not left waiting.
EpisodicFairness ==
  /\ WF_episodicVars(Take \/ TimerFires \/ StopNoticed \/ Drained)
  /\ WF_episodicVars(CloseReturns)

-----------------------------------------------------------------------------
(* Properties *)

EpisodicTypeOK ==
  /\ saver \in [Messages -> {"new", "sending", "accepted", "refused", "panicked"}]
  /\ writeCh \in Seq(Messages) /\ Len(writeCh) <= WriteCap
  /\ chClosed \in BOOLEAN
  /\ batch \in SUBSET Messages
  /\ db \in SUBSET Messages
  /\ batchWriter \in {"running", "draining", "done", "dead"}
  /\ memClose \in {"uncalled", "waiting", "returned"}
  /\ dropped \in SUBSET Messages
  /\ deleted \in SUBSET Messages
  /\ forgotten \in SUBSET Messages
  /\ overtaken \in SUBSET Messages

\* A message Save accepted is in exactly one place at any time: on its way,
\* stored, deleted with its session, or dropped by a failed statement.  Neither
\* a full batch, nor a Close that finds the channel full, nor a Save that comes in
\* while the channel is drained loses one or stores it twice; and when Close
\* returns nothing is left on the way.
Places(m) == {i \in 1..5 : m \in <<ToSet(writeCh), batch, db, deleted, dropped>>[i]}

AcceptedIsAccountedFor ==
  /\ \A m \in Messages : saver[m] = "accepted" => \E i \in 1..5 : Places(m) = {i}
  /\ memClose = "returned" => writeCh = <<>> /\ batch = {}

\* A forgotten session comes back only through messages that were on their way
\* when it was deleted.
ForgottenStaysForgotten == db \intersect forgotten \subseteq overtaken

\* What was accepted is in the database, or its statement failed, at some tick of the
\* timer, and Close returns when all of it is: only a process that dies by a late Save
\* is excused.
AcceptedIsWritten ==
  (writeCh = <<>> /\ batch = {} /\ memClose # "waiting") \/ batchWriter = "dead"
=============================================================================
