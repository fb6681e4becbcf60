------------------------------ MODULE ModelStream ------------------------------
(***************************************************************************)
(* A streamed reply on its way from a vendor to the agent: the vendor's    *)
(* server writes chunks on a connection, a goroutine of the provider       *)
(* (internal/provider/*: Stream with readSSE, readNDJSON or the loop over  *)
(* the SDK's events) turns them into events on a bounded channel, and      *)
(* CollectStream (internal/core/provider.go) or the loop of a turn         *)
(* (internal/agent/runner.go) assembles the reply from them.               *)
(*                                                                         *)
(* A reply is a number of pieces of text and a sequence of tool calls, of  *)
(* which only the number of fragments that their arguments arrive in       *)
(* counts.  The chunks follow the code's idea of each vendor's format.     *)
(***************************************************************************)
EXTENDS Integers, Sequences, SequencesExt

CONSTANTS
  Replies,    \* bound: what the model says, [text, calls]
  StreamCap   \* events the channel holds (64)

Vendors == {"openai", "openaicompat", "anthropic", "ollama", "bedrock"}

\* Their providers send no tools, so no calls come back.
WithoutTools == {"ollama", "vertex"}

ASSUME StreamConfig ==
  /\ Replies \subseteq [text : Nat, calls : Seq(Nat \ {0})]
  /\ StreamCap \in Nat

VARIABLES
  vendor,
  reply,      \* what the model says
  joint,      \* a compatible server reports the usage with the finish reason
  wire,       \* the chunks still to be read
  connection, \* "open", "cut" (an end of file), "broken" (a read error), "failed" (the last
              \* chunk is the vendor's error), "refused"
  ctx,        \* "live" or "cancelled"
  partial,    \* the arguments of each call so far, fragment by fragment
  sending,    \* events of the chunk being read that are not sent yet
  reader,     \* the goroutine: "idle", "reading", "leaving", "closed" with its channel
  stream,     \* the channel
  consumer,   \* "collect" (CollectStream), "turn" (RunStream, doFlushStream), "complete"
  outcome,    \* "reading", "draining", "reply", "error"
  text,       \* the pieces the consumer has put together
  toolCalls,  \* and the calls
  finish      \* the finish reason of the last event that ends

request    == <<vendor, reply, joint, consumer>>
assembled  == <<outcome, text, toolCalls, finish>>
streamVars == <<request, wire, connection, ctx, partial, sending, reader, stream, assembled>>

-----------------------------------------------------------------------------
(* The vendor's side *)

Chunk(k, c, n) == [kind |-> k, call |-> c, nth |-> n]
Plain(k)       == Chunk(k, 0, 0)

TextChunks(r)  == [i \in 1..r.text |-> Chunk("text", 0, i)]
CallChunks(r)  == FlattenSeq([c \in 1..Len(r.calls) |->
                                [n \in 1..r.calls[c] |-> Chunk("call", c, n)]])

\* How a reply ends.  With stream_options the OpenAI formats report the usage in
\* a chunk of its own, unless a compatible server adds it to the finish reason.
Endings(v, j) ==
  CASE j                -> {<<Plain("finish+usage"), Plain("[DONE]")>>}
    [] v = "anthropic"  -> {<<Plain("finish"), Plain("[DONE]")>>, <<Plain("error")>>}
    [] v = "ollama"     -> {<<Plain("finish+usage")>>}
    [] v = "bedrock"    -> {<<Plain("finish"), Plain("usage")>>}
    [] OTHER            -> {<<Plain("finish"), Plain("usage"), Plain("[DONE]")>>}

StreamInit ==
  /\ vendor = "none" /\ consumer = "none" /\ joint = FALSE
  /\ reply = [text |-> 0, calls |-> <<>>]
  /\ wire = <<>> /\ connection = "none" /\ ctx = "live"
  /\ partial = <<>> /\ sending = <<>> /\ reader = "idle" /\ stream = <<>>
  /\ outcome = "reading" /\ text = <<>> /\ toolCalls = <<>> /\ finish = "none"

\* Stream: an answer with an error status is an error of the call, but to Ollama's
\* provider a stream of lines in which there is nothing.
OpenStream ==
  /\ reader = "idle" /\ outcome = "reading"
  /\ vendor' \in Vendors /\ consumer' \in {"collect", "turn"}
  /\ reply' \in Replies /\ (reply'.calls = <<>> \/ vendor' \notin WithoutTools)
  /\ joint' \in BOOLEAN /\ (joint' => vendor' = "openaicompat")
  /\ partial' = [c \in DOMAIN reply'.calls |-> <<>>]
  /\ \/ /\ connection' = "open" /\ reader' = "reading"
        /\ \E end \in Endings(vendor', joint') :
             wire' = TextChunks(reply') \o CallChunks(reply') \o end
        /\ UNCHANGED outcome
     \/ /\ connection' = "refused" /\ wire' = <<>>
        /\ IF vendor' = "ollama" THEN reader' = "reading" /\ UNCHANGED outcome
           ELSE outcome' = "error" /\ UNCHANGED reader
  /\ UNCHANGED <<ctx, sending, stream, text, toolCalls, finish>>

\* The server or a proxy closes the connection early, or it fails, is cancelled
\* or exceeds the client's timeout, or the vendor fails in the middle of the reply and
\* sends its error for a last chunk: what was not read is lost.
Disconnect ==
  /\ connection = "open" /\ wire # <<>>
  /\ connection' \in {"cut", "broken", "failed"}
  /\ wire' = <<>>
  /\ UNCHANGED <<request, ctx, partial, sending, reader, stream, assembled>>

Cancel ==
  /\ reader = "reading" /\ ctx = "live"
  /\ ctx' = "cancelled"
  /\ UNCHANGED <<request, wire, connection, partial, sending, reader, stream, assembled>>

-----------------------------------------------------------------------------
(* The provider's goroutine *)

Event(k, what) == [type |-> k, what |-> what]
ToolUse(c, a)  == Event("tool_use", <<c, a>>)
Done(reason)   == Event("done", reason)
StreamError    == Event("error", "none")

\* What the OpenAI formats give as the reason of the end; the agent compares it
\* with "stop".
Reason(r) == IF r.calls = <<>> THEN "stop" ELSE "tool_calls"

\* Unmarshal of all fragments of a call in order gives its arguments; of
\* anything else an error that is dropped, and no arguments.
Parsed(c, fragments) ==
  IF fragments = [n \in 1..reply.calls[c] |-> <<c, n>>] THEN "whole" ELSE "nil"

Uses(calls, order) == [i \in DOMAIN order |-> ToolUse(order[i], Parsed(order[i], calls[order[i]]))]

Started(calls) == {c \in DOMAIN calls : calls[c] # <<>>}

\* Broken: the fragments of a call are put together in no variable, so the event
\* of the last one is all there is.
AccumulateLast(v, calls, chunk) == [calls EXCEPT ![chunk.call] = <<<<chunk.call, chunk.nth>>>>]

\* The compatible reader finds the call by its index.  Bedrock's appends to all
\* the calls begun so far: "Bedrock streams 1 tool delta block at a time".
Accumulate(v, calls, chunk) ==
  LET begun == Started(calls) \union {chunk.call} IN
  [c \in DOMAIN calls |->
     IF c = chunk.call \/ (v = "bedrock" /\ c \in begun)
     THEN Append(calls[c], <<chunk.call, chunk.nth>>) ELSE calls[c]]

\* The events of a chunk, one sequence for each outcome.  OpenAI's: each fragment
\* of a call on its own, and only the first one has the id.
OpenAIEvents(chunk) ==
  CASE chunk.kind = "text"   -> {<<Event("text", chunk.nth)>>}
    [] chunk.kind = "call"   ->
         {<<ToolUse(IF chunk.nth = 1 THEN chunk.call ELSE 0,
                    Parsed(chunk.call, <<<<chunk.call, chunk.nth>>>>))>>}
    [] chunk.kind = "finish" -> {<<Done(Reason(reply))>>}
    [] OTHER                 -> {<<Done("none")>>}

\* The usage is looked at before the rest of a chunk.
CompatEvents(calls, chunk) ==
  CASE chunk.kind = "text"   -> {<<Event("text", chunk.nth)>>}
    [] chunk.kind = "call"   -> {<<>>}
    [] chunk.kind = "finish" ->
         {Uses(calls, order) \o <<Done(Reason(reply))>> :
            order \in {o \in SetToSeqs(Started(calls)) :
                        \A i, j \in DOMAIN o : i < j => o[i] < o[j]}}
    [] OTHER                 -> {<<Done("none")>>}

\* The deltas of a tool's input are not of the type that is read.
AnthropicEvents(chunk) ==
  CASE chunk.kind = "text"   -> {<<Event("text", chunk.nth)>>}
    [] chunk.kind = "finish" -> {<<Done("end_turn")>>}
    [] chunk.kind = "error"  -> {<<StreamError>>}
    [] OTHER                 -> {<<>>}

OllamaEvents(chunk) ==
  IF chunk.kind = "text" THEN {<<Event("text", chunk.nth)>>} ELSE {<<Done("stop")>>}

\* The calls are in a map: any order.
BedrockEvents(calls, chunk) ==
  CASE chunk.kind = "text"   -> {<<Event("text", chunk.nth)>>}
    [] chunk.kind = "call"   -> {<<>>}
    [] chunk.kind = "finish" ->
         {Uses(calls, order) \o <<Done("none")>> : order \in SetToSeqs(Started(calls))}
    [] OTHER                 -> {<<Done("none")>>}

Events(v, calls, chunk) ==
  CASE v = "openai"       -> OpenAIEvents(chunk)
    [] v = "openaicompat" -> CompatEvents(calls, chunk)
    [] v = "anthropic"    -> AnthropicEvents(chunk)
    [] v = "ollama"       -> OllamaEvents(chunk)
    [] v = "bedrock"      -> BedrockEvents(calls, chunk)

\* After these chunks the goroutine returns without reading on.
Leaves(v, chunk) ==
  \/ chunk.kind \in {"finish+usage", "[DONE]", "error"}
  \/ chunk.kind = "usage" /\ v # "bedrock"

\* Only the readers of a text protocol look at the context between two lines.
ReadChunk ==
  /\ reader = "reading" /\ sending = <<>> /\ wire # <<>>
  /\ ctx = "live" \/ vendor = "bedrock"
  /\ \E events \in Events(vendor, partial, Head(wire)) : sending' = events
  /\ partial' = IF Head(wire).kind = "call" /\ vendor \in {"openaicompat", "bedrock"}
                THEN Accumulate(vendor, partial, Head(wire)) ELSE partial
  /\ reader' = IF Leaves(vendor, Head(wire)) THEN "leaving" ELSE "reading"
  /\ wire' = Tail(wire)
  /\ UNCHANGED <<request, connection, ctx, stream, assembled>>

SeeCancelled ==
  /\ reader = "reading" /\ sending = <<>> /\ wire # <<>>
  /\ ctx = "cancelled" /\ vendor # "bedrock"
  /\ sending' = <<StreamError>> /\ reader' = "leaving"
  /\ UNCHANGED <<request, wire, connection, ctx, partial, stream, assembled>>

\* Anthropic's reader knows the vendor's error; to the others it is a chunk with nothing
\* in it.  An error of the scanner is OpenAI's alone to report.
SaysLost(v) ==
  \/ connection = "broken" /\ v = "openai"
  \/ connection = "failed" /\ v = "anthropic"

\* The scanner stops, or leaves after the vendor's error.
ReadEnd ==
  /\ reader = "reading" /\ sending = <<>> /\ wire = <<>>
  /\ reader' = "leaving"
  /\ sending' = IF SaysLost(vendor) THEN <<StreamError>> ELSE <<>>
  /\ UNCHANGED <<request, wire, connection, ctx, partial, stream, assembled>>

\* ch <- event blocks while the channel is full.
SendEvent ==
  /\ sending # <<>> /\ Len(stream) < StreamCap
  /\ stream' = Append(stream, Head(sending))
  /\ sending' = Tail(sending)
  /\ UNCHANGED <<request, wire, connection, ctx, partial, reader, assembled>>

CloseStream ==
  /\ reader = "leaving" /\ sending = <<>>
  /\ reader' = "closed"
  /\ UNCHANGED <<request, wire, connection, ctx, partial, sending, stream, assembled>>

-----------------------------------------------------------------------------
(* A reply in one piece *)

Response(txt, calls, why) == [text |-> txt, calls |-> calls, finish |-> why]

Said(r)  == [i \in 1..r.text |-> i]
Whole(r) == [c \in DOMAIN r.calls |-> <<c, "whole">>]

OpenAIResponse(r)    == Response(Said(r), Whole(r), Reason(r))
CompatResponse(r)    == Response(Said(r), Whole(r), Reason(r))
AnthropicResponse(r) == Response(Said(r), Whole(r), IF r.calls = <<>> THEN "stop" ELSE "tool_use")
BedrockResponse(r)   == Response(Said(r), Whole(r), IF r.calls = <<>> THEN "stop" ELSE "tool_use")
OllamaResponse(r)    == Response(Said(r), <<>>, "stop")
VertexResponse(r)    == Response(Said(r), <<>>, "stop")

Completed(v, r) ==
  CASE v = "openai"       -> OpenAIResponse(r)
    [] v = "openaicompat" -> CompatResponse(r)
    [] v = "anthropic"    -> AnthropicResponse(r)
    [] v = "bedrock"      -> BedrockResponse(r)
    [] v = "ollama"       -> OllamaResponse(r)
    [] v = "vertex"       -> VertexResponse(r)

\* Complete: the whole answer, or an error; only Ollama's provider reads an answer
\* with an error status too.
Complete ==
  /\ reader = "idle" /\ outcome = "reading"
  /\ vendor' \in Vendors \union {"vertex"} /\ consumer' = "complete" /\ joint' = FALSE
  /\ reply' \in Replies /\ (reply'.calls = <<>> \/ vendor' \notin WithoutTools)
  /\ \/ /\ outcome' = "reply" /\ connection' = "open"
        /\ LET r == Completed(vendor', reply') IN
           text' = r.text /\ toolCalls' = r.calls /\ finish' = r.finish
     \/ /\ connection' \in {"cut", "broken", "refused"}
        /\ outcome' = IF vendor' = "ollama" /\ connection' = "refused" THEN "reply" ELSE "error"
        /\ UNCHANGED <<text, toolCalls, finish>>
  /\ partial' = [c \in DOMAIN reply'.calls |-> <<>>]
  /\ UNCHANGED <<wire, ctx, sending, reader, stream>>

-----------------------------------------------------------------------------
(* The consumer *)

\* CollectStream looks at the context before each event and then drains the
\* channel; the loop of a turn does not look.  Both leave at an error event
\* without draining.
Receive ==
  /\ outcome = "reading" /\ stream # <<>>
  /\ stream' = Tail(stream)
  /\ LET e == Head(stream) IN
     IF consumer = "collect" /\ ctx = "cancelled"
     THEN outcome' = "draining" /\ UNCHANGED <<text, toolCalls, finish>>
     ELSE /\ outcome' = IF e.type = "error" THEN "error" ELSE "reading"
          /\ text' = IF e.type = "text" THEN Append(text, e.what) ELSE text
          /\ toolCalls' = IF e.type = "tool_use" THEN Append(toolCalls, e.what) ELSE toolCalls
          /\ finish' = IF e.type = "done" THEN e.what ELSE finish
  /\ UNCHANGED <<request, wire, connection, ctx, partial, sending, reader>>

DrainStream ==
  /\ outcome = "draining"
  /\ \/ /\ stream # <<>>
        /\ stream' = Tail(stream) /\ UNCHANGED outcome
     \/ /\ stream = <<>> /\ reader = "closed"
        /\ outcome' = "error" /\ UNCHANGED stream
  /\ UNCHANGED <<request, wire, connection, ctx, partial, sending, reader, text, toolCalls, finish>>

\* range over the channel ends when it is closed and empty.
Finish ==
  /\ outcome = "reading" /\ stream = <<>> /\ reader = "closed"
  /\ outcome' = "reply"
  /\ UNCHANGED <<request, wire, connection, ctx, partial, sending, reader, stream,
                 text, toolCalls, finish>>

ReaderStep   == ReadChunk \/ SeeCancelled \/ ReadEnd \/ SendEvent \/ CloseStream
ConsumerStep == Receive \/ DrainStream \/ Finish

StreamNext == OpenStream \/ Complete \/ Disconnect \/ Cancel \/ ReaderStep \/ ConsumerStep

\* A read returns: the vendor writes, ends the stream, or the client's timeout
\* breaks it.
StreamFairness == WF_streamVars(ReaderStep) /\ WF_streamVars(ConsumerStep)

-----------------------------------------------------------------------------
StreamTypeOK ==
  /\ vendor \in Vendors \union {"none", "vertex"} /\ joint \in BOOLEAN
  /\ reader # "idle" => reply \in Replies
  /\ connection \in {"none", "open", "cut", "broken", "failed", "refused"}
  /\ ctx \in {"live", "cancelled"}
  /\ DOMAIN partial = DOMAIN reply.calls
  /\ reader \in {"idle", "reading", "leaving", "closed"}
  /\ Len(stream) <= StreamCap
  /\ consumer \in {"none", "collect", "turn", "complete"}
  /\ outcome \in {"reading", "draining", "reply", "error"}
  /\ text \in Seq(Nat)

\* The calls whose arguments a vendor's reader can put together: of OpenAI's none
\* that comes in fragments, of Anthropic's none, of Bedrock's only the last, and
\* of a compatible server's all unless it sends the usage with the finish reason.
Kept(v, r) ==
  IF consumer = "complete" THEN DOMAIN r.calls ELSE
  CASE v = "openai"             -> {c \in DOMAIN r.calls : r.calls[c] = 1}
    [] v = "bedrock"            -> {c \in DOMAIN r.calls : c = Len(r.calls)}
    [] v = "anthropic" \/ joint -> {}
    [] OTHER                    -> DOMAIN r.calls

\* A reply that the agent takes for the model's: its text is what the model said,
\* in order and to the end, and each of its calls with arguments is one the model
\* made, made once; none is missing that the reader can put together.  Only a
\* connection that was lost without a word cuts the text, one that Ollama refused, or
\* an error of the vendor's that the reader skips, never one it knows, and then no
\* call is made up either;
\* and a reply with calls is not said to be the last one.
ReplyIsFaithful ==
  /\ IsPrefix(text, [i \in 1..reply.text |-> i])
  /\ \A i, j \in DOMAIN toolCalls :
       toolCalls[i][2] = "whole" => /\ toolCalls[i][1] \in Kept(vendor, reply)
                                    /\ toolCalls[i] = toolCalls[j] => i = j
  /\ outcome = "reply" =>
       \/ connection = "cut" \/ (connection = "broken" /\ vendor # "openai")
       \/ connection = "failed" /\ vendor # "anthropic"
       \/ connection = "refused" /\ vendor = "ollama"
       \/ /\ Len(text) = reply.text
          /\ \A c \in Kept(vendor, reply) : <<c, "whole">> \in ToSet(toolCalls)
          /\ finish = "stop" => toolCalls = <<>>

\* The goroutine that reads a reply is back, although its consumer may be gone
\* before it and the channel is bounded.
ReaderIsBack == reader \in {"idle", "closed"}
=============================================================================
