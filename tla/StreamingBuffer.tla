---------------------------- MODULE StreamingBuffer ----------------------------
(***************************************************************************)
(* The buffer between the token stream of a turn and a chat channel        *)
(* (internal/channels/buffer.go): tokens collect until a sentence ends,    *)
(* the text is long, or a timer fires.  A timer that fired just before a   *)
(* flush stopped it still runs its callback later.  The background goal of *)
(* the command /auto tells its result through the same reply function,     *)
(* usually long after the command's turn and its Done.                     *)
(*                                                                         *)
(* A token is its number; the mutex makes each operation one step, the     *)
(* call of the target included.                                            *)
(***************************************************************************)
EXTENDS Integers, Sequences, SequencesExt

CONSTANTS
  MaxTokens,   \* bound: tokens of a turn
  MaxEmpty,    \* bound: empty tokens of a turn
  TextLimit    \* tokens that exceed the 1000 bytes at which the text is flushed

ASSUME BufferConfig == {MaxTokens, MaxEmpty, TextLimit} \subseteq Nat

VARIABLES
  pushed,       \* non-empty tokens so far
  empties,      \* empty tokens so far
  buffer,
  flushTimer,   \* "nil" or "set"
  armed,        \* the timer in flushTimer has not fired
  callbacks,    \* callbacks of timers that fired, waiting for the mutex
  turn,         \* "streaming", or "done" after Done
  goal,         \* a goal of /auto is still to tell its result
  handed,       \* history: the tokens given to the target, in order
  atDone,       \* history: the tokens pushed before Done
  emptyFirst    \* history: an empty token found the buffer empty

bufferVars == <<pushed, empties, buffer, flushTimer, armed, callbacks, turn, goal,
                handed, atDone, emptyFirst>>

BufferInit ==
  /\ pushed = 0 /\ empties = 0
  /\ buffer = <<>>
  /\ flushTimer = "nil" /\ armed = FALSE /\ callbacks = 0
  /\ turn = "streaming" /\ goal \in BOOLEAN
  /\ handed = <<>> /\ atDone = 0
  /\ emptyFirst = FALSE

-----------------------------------------------------------------------------
\* Broken: the timer is stopped, but still counts as set.
FlushLockedKeepsTimer(content) ==
  IF content = <<>>
  THEN buffer' = content /\ UNCHANGED <<flushTimer, armed, handed>>
  ELSE /\ buffer' = <<>>
       /\ armed' = FALSE /\ UNCHANGED flushTimer
       /\ handed' = handed \o content

\* The buffer is emptied before the target is called: what the target refuses is
\* lost, and only Push and Done report it.
FlushLocked(content) ==
  IF content = <<>>
  THEN buffer' = content /\ UNCHANGED <<flushTimer, armed, handed>>
  ELSE /\ buffer' = <<>>
       /\ flushTimer' = "nil" /\ armed' = FALSE
       /\ handed' = handed \o content

SetTimer ==
  IF flushTimer = "nil" THEN flushTimer' = "set" /\ armed' = TRUE
  ELSE UNCHANGED <<flushTimer, armed>>

\* Any token may complete a sentence.
Take ==
  /\ pushed < MaxTokens
  /\ pushed' = pushed + 1
  /\ LET content == Append(buffer, pushed + 1) IN
     \/ FlushLocked(content)
     \/ /\ Len(content) < TextLimit
        /\ buffer' = content
        /\ SetTimer
        /\ UNCHANGED handed
  /\ UNCHANGED <<empties, callbacks, turn, atDone, emptyFirst>>

Push == turn = "streaming" /\ Take /\ UNCHANGED goal

\* Whether Done was called or not: nothing in the buffer tells.
PushResult == goal /\ goal' = FALSE /\ Take

\* WhatsApp passes every chunk on, the empty one of OnDone and of a provider
\* that does not filter them included; it never completes a sentence.
PushEmpty ==
  /\ turn = "streaming" /\ empties < MaxEmpty
  /\ empties' = empties + 1
  /\ SetTimer
  /\ emptyFirst' = (emptyFirst \/ buffer = <<>>)
  /\ UNCHANGED <<pushed, buffer, callbacks, turn, goal, handed, atDone>>

TimerExpires ==
  /\ armed
  /\ armed' = FALSE
  /\ callbacks' = callbacks + 1
  /\ UNCHANGED <<pushed, empties, buffer, flushTimer, turn, goal, handed, atDone, emptyFirst>>

\* The timer's own error is ignored.
Callback ==
  /\ callbacks > 0
  /\ callbacks' = callbacks - 1
  /\ FlushLocked(buffer)
  /\ UNCHANGED <<pushed, empties, turn, goal, atDone, emptyFirst>>

BufferDone ==
  /\ turn = "streaming"
  /\ turn' = "done"
  /\ FlushLocked(buffer)
  /\ atDone' = pushed
  /\ UNCHANGED <<pushed, empties, callbacks, goal, emptyFirst>>

BufferNext == Push \/ PushResult \/ PushEmpty \/ TimerExpires \/ Callback \/ BufferDone

BufferSpec == BufferInit /\ [][BufferNext]_bufferVars

\* Timers fire and their callbacks get the mutex; nobody has to push.
BufferFairness == WF_bufferVars(TimerExpires) /\ WF_bufferVars(Callback)

-----------------------------------------------------------------------------
(* Properties *)

BufferTypeOK ==
  /\ pushed \in 0..MaxTokens
  /\ empties \in 0..MaxEmpty
  /\ buffer \in Seq(Nat) /\ handed \in Seq(Nat)
  /\ flushTimer \in {"nil", "set"}
  /\ armed \in BOOLEAN
  /\ callbacks \in Nat
  /\ turn \in {"streaming", "done"} /\ goal \in BOOLEAN
  /\ atDone \in 0..MaxTokens
  /\ emptyFirst \in BOOLEAN

\* Whatever timers fire late, every token is handed to the channel exactly once
\* and in order, and when the turn is done nothing it said is left behind: what the
\* buffer may still hold is the result of a goal that was told after the end.
TokensInOrder ==
  /\ handed \o buffer = [i \in 1..pushed |-> i]
  /\ turn = "done" => \A i \in DOMAIN buffer : buffer[i] > atDone

\* No text waits for the next token: it goes out within the timeout, unless an
\* empty token came first, whose timer fires over an empty buffer and is
\* never replaced until a sentence ends.
TextIsOut == buffer = <<>> \/ emptyFirst
=============================================================================
