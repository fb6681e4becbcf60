---------------------------- MODULE MCConversation ----------------------------
(***************************************************************************)
(* What answers a chat message: the channel it comes in by, the turns of   *)
(* the agent on a session, the requests made of its memory, the calls of   *)
(* the failover provider and the streamed replies under them, and the      *)
(* buffer between a turn's tokens and the channel; the server a turn's     *)
(* tools may be on, the vectors its memory is searched with, and how the   *)
(* providers are wired up.  The turn meets the provider only in the ends   *)
(* of a request (a reply, an error, nothing), which AgentLoop leaves open, *)
(* the requests only in the order of calls and results it keeps, the       *)
(* buffer only in its tokens, the channel only in what the turn says and   *)
(* that it ends, and the tools only in that they answer: a behaviour is    *)
(* one of one of them, "part", while the others stay as they were started. *)
(***************************************************************************)
EXTENDS AgentLoop, WireMessages, FailoverProvider, ModelStream, StreamingBuffer,
        ChannelInbound, McpClient, Embedders, ProviderWiring, TLC

CONSTANTS t1, t2

\* A background goal with the commands of its session beside it, and two chat
\* messages of one session.
casts == {t1 :> "auto" @@ t2 :> "none", t1 :> "run" @@ t2 :> "stream"}

maxCalls == [k \in Kinds |-> IF k = "auto" THEN 2 ELSE 1]

\* Text and a call in pieces, text and calls of several fragments, a call alone.
replies == {[text |-> 2, calls |-> <<>>], [text |-> 1, calls |-> <<2, 1>>],
            [text |-> 0, calls |-> <<1>>]}

\* A provider of each kind, with another for when it fails.
configurations ==
  {{"ollama", "plano"}, {"groq", "vertex"}, {"openai"}, {"bedrock"}, {"lmstudio"}}

VARIABLE part

chatVars == <<agentVars, wireVars, failoverVars, streamVars, bufferVars, channelVars>>

otherVars == <<mcpVars, embedVars, wiringVars>>

vars == <<part, chatVars, otherVars>>

Init ==
  /\ part \in {"agent", "wire", "failover", "stream", "buffer", "channel", "mcp", "embed",
              "wiring"}
  /\ AgentInit /\ (part # "agent" => kind[t1] = "auto")
  /\ WireInit
  /\ FailoverInit /\ (part # "failover" => hasFallback)
  /\ StreamInit
  /\ BufferInit /\ (part # "buffer" => ~goal)
  /\ ChannelInit /\ (part # "channel" => channel = "slack" /\ dmMode = "open")
  /\ McpInit /\ (part # "mcp" => transport = "stdio" /\ peer = "foreign")
  /\ EmbedInit
  /\ WiringInit

Next ==
  \/ /\ part = "agent" /\ AgentNext
     /\ UNCHANGED <<part, wireVars, failoverVars, streamVars, bufferVars, channelVars, otherVars>>
  \/ /\ part = "wire" /\ WireNext
     /\ UNCHANGED <<part, agentVars, failoverVars, streamVars, bufferVars, channelVars, otherVars>>
  \/ /\ part = "failover" /\ FailoverNext
     /\ UNCHANGED <<part, agentVars, wireVars, streamVars, bufferVars, channelVars, otherVars>>
  \/ /\ part = "stream" /\ StreamNext
     /\ UNCHANGED <<part, agentVars, wireVars, failoverVars, bufferVars, channelVars, otherVars>>
  \/ /\ part = "buffer" /\ BufferNext
     /\ UNCHANGED <<part, agentVars, wireVars, failoverVars, streamVars, channelVars, otherVars>>
  \/ /\ part = "channel" /\ ChannelNext
     /\ UNCHANGED <<part, agentVars, wireVars, failoverVars, streamVars, bufferVars, otherVars>>
  \/ /\ part = "mcp" /\ McpNext
     /\ UNCHANGED <<part, chatVars, embedVars, wiringVars>>
  \/ /\ part = "embed" /\ EmbedNext
     /\ UNCHANGED <<part, chatVars, mcpVars, wiringVars>>
  \/ /\ part = "wiring" /\ WiringNext
     /\ UNCHANGED <<part, chatVars, mcpVars, embedVars>>

\* Nothing fair is enabled in the initial state of a part that does not run.
Spec ==
  /\ Init /\ [][Next]_vars
  /\ AgentFairness /\ FailoverFairness /\ StreamFairness /\ BufferFairness
  /\ ChannelFairness /\ McpFairness

\* Every variable of every part keeps its type.
TypeOK ==
  /\ AgentTypeOK /\ WireTypeOK /\ FailoverTypeOK
  /\ StreamTypeOK /\ BufferTypeOK /\ ChannelTypeOK
  /\ McpTypeOK /\ EmbedTypeOK /\ WiringTypeOK

\* The calls of a turn and their results stay in pairs, in the memory and in what is
\* sent to a provider, and a turn reports its end, or its error, once.
TurnsAreWhole == CallsMeetResults /\ RequestsKeepPairs /\ OneEnd

\* The text of a reply comes through as it was written: from the vendor's stream to the
\* turn, and from the turn to the channel.
TextIsFaithful == ReplyIsFaithful /\ TokensInOrder

\* Whatever came in is dealt with: no turn is left under way, no reader of a reply stays
\* behind, no text waits in a buffer, every event of a channel has its answer, and so has
\* every call of a tool.
ConversationSettles ==
  []<>(TurnsOver /\ ReaderIsBack /\ TextIsOut /\ EventsAnswered /\ CallsReturn)
=============================================================================
