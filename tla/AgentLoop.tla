------------------------------- MODULE AgentLoop -------------------------------
(***************************************************************************)
(* The agent's turns on one session (internal/agent/runner.go: Run,        *)
(* RunStream; runner_auto.go: RunAutonomous) over the session's working    *)
(* memory (internal/memory/memory.go).  Every chat message and every       *)
(* background goal runs in a goroutine of its own on the same memory, and  *)
(* so do the /reset and /compact commands.                                 *)
(*                                                                         *)
(* A message is its role, its token count, the ids of the tool calls it    *)
(* asks for and the id of the call it answers; text is left out.  What     *)
(* Save does with a message is EpisodicMemory's; nothing here reads it.    *)
(***************************************************************************)
EXTENDS Integers, Sequences, SequencesExt

CONSTANTS
  Turns,
  Casts,           \* bound: what the turns are, side by side
  MaxIterations,   \* of the loop, for Run and RunStream
  MaxAuto,         \* the same for RunAutonomous (500 in the code)
  CheckpointEvery, \* iterations of RunAutonomous between reminders (25)
  FlushAbove,      \* 80% of the memory's budget
  CompactTo,       \* 45% of it
  MaxCalls,        \* bound: tool calls of a reply in a turn of each kind
  Usages,          \* completion tokens a reply may report; 0 when it does not
  MaxCommands      \* bound: commands given to the session

Kinds == {"none", "run", "stream", "auto"}

ASSUME AgentConfig ==
  /\ Casts \subseteq [Turns -> Kinds]
  /\ {MaxIterations, MaxAuto, CheckpointEvery} \subseteq Nat \ {0}
  /\ MaxCalls \in [Kinds -> Nat]
  /\ {FlushAbove, CompactTo, MaxCommands} \union Usages \subseteq Nat

VARIABLES
  working,      \* the session's messages
  kind,         \* of each turn; one that is "none" never begins
  phase,        \* where each turn stands
  iterations,
  usage,        \* completion tokens of the turn so far
  pending,      \* tool calls of the turn still to execute, in order
  finished,     \* the reply being executed calls finish_task
  total,        \* tokens of the memory, as a turn about to end read them
  commands,
  asked,        \* history: replies a turn got, which number its calls
  ends,         \* history: OnDone and OnError callbacks, or the return
  flushErrors,  \* history: flush turns that reported an error to the handler
  dropped,      \* history: calls whose message a command or the end of a turn removed
  abandoned     \* history: calls of a reply that said it was the last

turnVars   == <<kind, phase, iterations, usage, pending, finished, total>>
agentHistory == <<asked, ends, flushErrors, dropped, abandoned>>
agentVars  == <<working, turnVars, commands, agentHistory>>

AgentInit ==
  /\ working = <<>>
  /\ kind \in Casts
  /\ phase = [t \in Turns |-> "idle"]
  /\ iterations = [t \in Turns |-> 0]
  /\ usage = [t \in Turns |-> 0]
  /\ pending = [t \in Turns |-> <<>>]
  /\ finished = [t \in Turns |-> FALSE]
  /\ total = [t \in Turns |-> 0]
  /\ commands = 0
  /\ asked = [t \in Turns |-> 0]
  /\ ends = [t \in Turns |-> 0]
  /\ flushErrors = [t \in Turns |-> 0]
  /\ dropped = {} /\ abandoned = {}

-----------------------------------------------------------------------------
(* Working memory *)

\* A call is native if the model used the tool schema; otherwise it was read
\* from a shell block of the reply's text, and no message carries it.
CallId == [turn : Turns, reply : Nat, nth : Nat, native : BOOLEAN]

NoCall == [turn |-> "none"]

Text(role)           == [role |-> role, tokens |-> 0, calls |-> {}, answers |-> NoCall]
Assistant(calls, n)  == [role |-> "assistant", tokens |-> n, calls |-> calls, answers |-> NoCall]
ToolResult(id)       == [role |-> "tool", tokens |-> 0, calls |-> {}, answers |-> id]

TotalTokens(messages) ==
  LET upTo[n \in 0..Len(messages)] == IF n = 0 THEN 0 ELSE upTo[n - 1] + messages[n].tokens
  IN  upTo[Len(messages)]

\* A turn does this after every append: the total is compared with the budget.
ShouldFlush == TotalTokens(working) > FlushAbove

CallsOf(messages) == UNION {messages[i].calls : i \in DOMAIN messages}

\* Compact: the oldest messages go, but for a system message in front, and no
\* more of them than the budget asks for.
Compacted(budget) ==
  LET start == IF working # <<>> /\ working[1].role = "system" THEN 1 ELSE 0
      Kept(n) == SubSeq(working, 1, start) \o SubSeq(working, n + 1, Len(working))
      fits  == {n \in start..Len(working) : TotalTokens(Kept(n)) <= budget} IN
  IF TotalTokens(working) <= budget \/ Len(working) <= 1 THEN working
  ELSE IF fits = {} THEN Kept(Len(working))
  ELSE Kept(CHOOSE n \in fits : \A k \in fits : n <= k)

-----------------------------------------------------------------------------
(* What happens in a turn *)

Streams(t) == kind[t] = "stream"
Limit(t)   == IF kind[t] = "auto" THEN MaxAuto ELSE MaxIterations

\* RunAutonomous flushes before it plans, and again after every iteration.
AfterPlan(t)  == IF kind[t] = "auto" THEN "model" ELSE "flush"
AfterFlush(t) == IF kind[t] = "auto" /\ iterations[t] = 0 THEN "plan" ELSE "model"

Go(t, p)    == phase' = [phase EXCEPT ![t] = p]
Remember(m) == working' = Append(working, m)
TellEnd(t)  == ends' = [ends EXCEPT ![t] = @ + 1]

Begin(t) ==
  /\ phase[t] = "idle" /\ kind[t] # "none"
  /\ Remember(Text(IF kind[t] = "auto" THEN "system" ELSE "user"))
  /\ Go(t, IF kind[t] = "auto" THEN "flush" ELSE "plan")
  /\ UNCHANGED <<kind, iterations, usage, pending, finished, total, commands, agentHistory>>

\* Planning is off, or fails, or adds the plan as a system message.
Plan(t) ==
  /\ phase[t] = "plan"
  /\ UNCHANGED working \/ Remember(Text("system"))
  /\ Go(t, AfterPlan(t))
  /\ UNCHANGED <<kind, iterations, usage, pending, finished, total, commands, agentHistory>>

\* The plan is read from a response the provider did not give (see
\* FailoverProvider): nobody recovers the panic, and the daemon ends.
PlanPanics(t) ==
  /\ phase[t] = "plan"
  /\ phase' = [u \in Turns |-> IF phase[u] = "ended" THEN "ended" ELSE "crashed"]
  /\ UNCHANGED <<working, kind, iterations, usage, pending, finished, total, commands,
                 agentHistory>>

CheckFlush(t) ==
  /\ phase[t] = "flush"
  /\ IF ShouldFlush
     THEN Remember(Text("user")) /\ Go(t, "flushing")
     ELSE Go(t, AfterFlush(t)) /\ UNCHANGED working
  /\ UNCHANGED <<kind, iterations, usage, pending, finished, total, commands, agentHistory>>

\* The calls of a reply, or the blocks found in its text.
Numbered(t, n, isNative) ==
  [i \in 1..n |-> [turn |-> t, reply |-> asked[t], nth |-> i, native |-> isNative]]

\* The message of a reply.  RunStream counts the tokens of the whole turn.
Reply(t, calls, tokens) ==
  /\ Remember(Assistant(Range(calls), IF Streams(t) THEN usage[t] + tokens ELSE tokens))
  /\ usage' = [usage EXCEPT ![t] = @ + tokens]
  /\ asked' = [asked EXCEPT ![t] = @ + 1]

FlushReply(t) == \E n \in 0..MaxCalls[kind[t]], tokens \in Usages :
  LET calls == Numbered(t, n, TRUE) IN
  /\ phase[t] = "flushing"
  /\ Reply(t, calls, tokens)
  /\ pending' = [pending EXCEPT ![t] = calls]
  /\ Go(t, IF calls = <<>> THEN AfterFlush(t) ELSE "flush tools")
  /\ UNCHANGED <<kind, iterations, finished, total, commands, ends, flushErrors, dropped,
                 abandoned>>

\* The flush is given up and the turn goes on; RunStream's handler hears an
\* error already.
FlushFails(t) ==
  /\ phase[t] = "flushing"
  /\ Go(t, AfterFlush(t))
  /\ IF Streams(t)
     THEN TellEnd(t) /\ flushErrors' = [flushErrors EXCEPT ![t] = @ + 1]
     ELSE UNCHANGED <<ends, flushErrors>>
  /\ UNCHANGED <<working, kind, iterations, usage, pending, finished, total, commands, asked,
                 dropped, abandoned>>

\* RunAutonomous puts a reminder in front of some iterations.
Due(t) ==
  kind[t] = "auto" /\ iterations[t] > 0 /\ (iterations[t] + 1) % CheckpointEvery = 0

Checkpoint(t) ==
  /\ phase[t] = "model" /\ iterations[t] < Limit(t) /\ Due(t)
  /\ Remember(Text("system"))
  /\ Go(t, "asking")
  /\ UNCHANGED <<kind, iterations, usage, pending, finished, total, commands, agentHistory>>

\* The request of an iteration is out; its end is the next step.
Asking(t) ==
  /\ iterations[t] < Limit(t)
  /\ phase[t] = "asking" \/ (phase[t] = "model" /\ ~Due(t))

Iterate(t) == iterations' = [iterations EXCEPT ![t] = @ + 1]

\* The reflection that may follow changes nothing here.
Exhaust(t) ==
  /\ phase[t] = "model" /\ iterations[t] >= Limit(t)
  /\ Go(t, "ended") /\ TellEnd(t)
  /\ UNCHANGED <<working, kind, iterations, usage, pending, finished, total, commands, asked,
                 flushErrors, dropped, abandoned>>

ModelFails(t) ==
  /\ Asking(t) /\ Iterate(t)
  /\ Go(t, "ended") /\ TellEnd(t)
  /\ UNCHANGED <<working, kind, usage, pending, finished, total, commands, asked,
                 flushErrors, dropped, abandoned>>

\* The provider returned neither a stream nor an error (see FailoverProvider):
\* the loop over the events of a nil channel never ends.
ModelSilent(t) ==
  /\ Asking(t) \/ phase[t] = "flushing"
  /\ Go(t, "hung")
  /\ UNCHANGED <<working, kind, iterations, usage, pending, finished, total, commands,
                 agentHistory>>

\* A reply without tool calls is the answer, and so is one that says it is the
\* last, whose calls are then left without results.
Answer(t) == \E n \in 0..MaxCalls[kind[t]], tokens \in Usages, last \in BOOLEAN :
  LET calls == Numbered(t, n, TRUE) IN
  /\ Asking(t) /\ Iterate(t) /\ kind[t] # "auto"
  /\ calls = <<>> \/ last
  /\ Reply(t, calls, tokens)
  /\ abandoned' = abandoned \union Range(calls)
  /\ IF Streams(t) THEN Go(t, "ended") /\ TellEnd(t)
     ELSE Go(t, "closing") /\ UNCHANGED ends
  /\ UNCHANGED <<kind, pending, finished, total, commands, flushErrors, dropped>>

\* Run and RunAutonomous close with Compact(TotalTokens()), which drops nothing
\* unless another turn appended between the two.
ReadTotal(t) ==
  /\ phase[t] = "closing"
  /\ total' = [total EXCEPT ![t] = TotalTokens(working)]
  /\ Go(t, "compacting")
  /\ UNCHANGED <<working, kind, iterations, usage, pending, finished, commands, agentHistory>>

CompactAndEnd(t) ==
  LET after == Compacted(total[t]) IN
  /\ phase[t] = "compacting"
  /\ working' = after
  /\ dropped' = dropped \union (CallsOf(working) \ CallsOf(after))
  /\ Go(t, "ended") /\ TellEnd(t)
  /\ UNCHANGED <<kind, iterations, usage, pending, finished, total, commands, asked,
                 flushErrors, abandoned>>

\* RunAutonomous executes the calls of its last reply, too.
CallTools(t) == \E n \in 1..MaxCalls[kind[t]], tokens \in Usages, isFinish \in BOOLEAN :
  LET calls == Numbered(t, n, TRUE) IN
  /\ Asking(t) /\ Iterate(t)
  /\ Reply(t, calls, tokens)
  /\ pending' = [pending EXCEPT ![t] = calls]
  /\ isFinish => kind[t] = "auto"
  /\ finished' = [finished EXCEPT ![t] = isFinish]
  /\ Go(t, "tools")
  /\ UNCHANGED <<kind, total, commands, ends, flushErrors, dropped, abandoned>>

\* extractMarkdownBash: shell blocks in the text of a reply without calls.
CallBlocks(t) == \E n \in 1..MaxCalls[kind[t]], tokens \in Usages :
  /\ Asking(t) /\ Iterate(t) /\ ~Streams(t)
  /\ Reply(t, <<>>, tokens)
  /\ pending' = [pending EXCEPT ![t] = Numbered(t, n, FALSE)]
  /\ finished' = [finished EXCEPT ![t] = FALSE]
  /\ Go(t, "tools")
  /\ UNCHANGED <<kind, total, commands, ends, flushErrors, dropped, abandoned>>

\* RunAutonomous does not stop for a reply without calls: it asks for more, or,
\* if the reply was cut off, just goes on.
Idle(t) == \E tokens \in Usages, next \in {"nudge", "flush"} :
  /\ Asking(t) /\ Iterate(t) /\ kind[t] = "auto"
  /\ Reply(t, <<>>, tokens)
  /\ Go(t, next)
  /\ UNCHANGED <<kind, pending, finished, total, commands, ends, flushErrors,
                 dropped, abandoned>>

Nudge(t) ==
  /\ phase[t] = "nudge"
  /\ Remember(Text("user"))
  /\ Go(t, "model")
  /\ UNCHANGED <<kind, iterations, usage, pending, finished, total, commands, agentHistory>>

\* Broken: a call the guardrail blocks gets no result.
ExecuteToolBlocked(t) ==
  /\ phase[t] \in {"tools", "flush tools"} /\ Len(pending[t]) > 1
  /\ pending' = [pending EXCEPT ![t] = Tail(@)]
  /\ UNCHANGED <<working, kind, phase, iterations, usage, finished, total, commands, agentHistory>>

\* executeTool always comes back with a result, be it an error's text.
ExecuteTool(t) ==
  /\ phase[t] \in {"tools", "flush tools"} /\ Len(pending[t]) > 1
  /\ Remember(ToolResult(Head(pending[t])))
  /\ pending' = [pending EXCEPT ![t] = Tail(@)]
  /\ UNCHANGED <<kind, phase, iterations, usage, finished, total, commands, agentHistory>>

ExecuteLastTool(t) ==
  /\ phase[t] \in {"tools", "flush tools"} /\ Len(pending[t]) = 1
  /\ Remember(ToolResult(Head(pending[t])))
  /\ pending' = [pending EXCEPT ![t] = <<>>]
  /\ IF phase[t] = "tools" /\ finished[t]
     THEN Go(t, "closing")
     ELSE Go(t, IF phase[t] = "flush tools" THEN AfterFlush(t)
                ELSE IF kind[t] = "auto" THEN "flush" ELSE "model")
  /\ UNCHANGED <<kind, iterations, usage, finished, total, commands, agentHistory>>

-----------------------------------------------------------------------------
(* The commands of a session *)

Command(after) ==
  /\ commands < MaxCommands
  /\ \A t \in Turns : phase[t] # "crashed"
  /\ commands' = commands + 1
  /\ working' = after
  /\ dropped' = dropped \union (CallsOf(working) \ CallsOf(after))
  /\ UNCHANGED <<turnVars, asked, ends, flushErrors, abandoned>>

\* /reset and /new.
Reset == Command(<<>>)

\* /compact.
CompactCommand == Command(Compacted(CompactTo))

-----------------------------------------------------------------------------
TurnStep(t) ==
  \/ Plan(t) \/ PlanPanics(t) \/ CheckFlush(t) \/ FlushReply(t) \/ FlushFails(t)
  \/ Checkpoint(t) \/ Exhaust(t) \/ ModelFails(t) \/ ModelSilent(t)
  \/ Answer(t) \/ ReadTotal(t) \/ CompactAndEnd(t)
  \/ CallTools(t) \/ CallBlocks(t) \/ Idle(t) \/ Nudge(t)
  \/ ExecuteTool(t) \/ ExecuteLastTool(t)

AgentNext ==
  \/ \E t \in Turns : Begin(t) \/ TurnStep(t)
  \/ Reset \/ CompactCommand

AgentSpec == AgentInit /\ [][AgentNext]_agentVars

\* Providers answer or fail (their HTTP clients have timeouts), and tools end:
\* some turn goes on.  No turn needs more, for none goes on for ever.
AgentFairness == WF_agentVars(\E t \in Turns : TurnStep(t))

-----------------------------------------------------------------------------
(* Properties *)

Message == [role : {"user", "system", "assistant", "tool"}, tokens : Nat,
            calls : SUBSET CallId, answers : CallId \union {NoCall}]

AgentTypeOK ==
  /\ working \in Seq(Message)
  /\ kind \in [Turns -> Kinds]
  /\ phase \in [Turns -> {"idle", "plan", "flush", "flushing", "flush tools", "model",
                          "asking", "nudge", "tools", "closing", "compacting", "ended", "hung",
                          "crashed"}]
  /\ iterations \in [Turns -> Nat] /\ usage \in [Turns -> Nat]
  /\ pending \in [Turns -> Seq(CallId)]
  /\ finished \in [Turns -> BOOLEAN] /\ total \in [Turns -> Nat]
  /\ commands \in 0..MaxCommands
  /\ asked \in [Turns -> Nat] /\ ends \in [Turns -> Nat] /\ flushErrors \in [Turns -> Nat]
  /\ dropped \subseteq CallId /\ abandoned \subseteq CallId

\* The messages a provider accepts: the history pairs every tool result with an
\* earlier call and every call with a result.  Turns that run side by side,
\* flushes, failures and exhausted loops never break it; the only causes of a
\* result without its call are a command, or the close of another turn, that
\* removed the call and a shell block that never had one, and of a call without
\* its result a tool that has still to run and a reply that was said to be the
\* last.
CallsMeetResults ==
  /\ \A i \in DOMAIN working : working[i].answers # NoCall =>
       LET id == working[i].answers IN
       \/ ~id.native
       \/ id \in dropped
       \/ \E j \in 1..(i - 1) : id \in working[j].calls
  /\ \A i \in DOMAIN working : \A id \in working[i].calls :
       \/ id \in Range(pending[id.turn])
       \/ id \in abandoned
       \/ \E j \in (i + 1)..Len(working) : working[j].answers = id

\* A turn tells its caller exactly once that it is over, however it ended; once
\* more for a flush that failed before, after which the A2A handler, which closes
\* a channel in both callbacks, panics.
OneEnd == \A t \in Turns :
  ends[t] = flushErrors[t] + (IF phase[t] = "ended" THEN 1 ELSE 0)

\* No turn is under way: what a session comes to, whatever the model replies and whatever
\* runs beside it, unless the provider returned nothing.
TurnsOver == \A t \in Turns : phase[t] \in {"idle", "ended", "hung", "crashed"}
=============================================================================
