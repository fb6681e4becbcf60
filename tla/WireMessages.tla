----------------------------- MODULE WireMessages -----------------------------
(***************************************************************************)
(* From the messages of the working memory to the request each vendor is   *)
(* sent: convertMessages of internal/agent/runner.go and the builders of   *)
(* internal/provider/{openai,openaicompat,anthropic,ollama,vertex,bedrock}.*)
(* What counts of a message is whether it has text, the tool calls it asks *)
(* for and the calls it answers.                                           *)
(***************************************************************************)
EXTENDS Integers, Sequences, SequencesExt

CONSTANTS
  CallIds,     \* ids of tool calls
  MaxMessages  \* bound: messages of a history

ASSUME WireConfig == MaxMessages \in Nat

VARIABLES
  history,   \* the working memory when a request is built
  requests   \* the messages of the request for each vendor, once it is built

wireVars == <<history, requests>>

WireFormats == {"openai", "openaicompat", "anthropic", "ollama", "vertex", "bedrock"}

-----------------------------------------------------------------------------
(* Messages and their parts *)

Part(type, id) == [type |-> type, id |-> id]
TextPart == Part("text", "none")

\* A message of the memory: parts are the calls of a reply or a tool's result,
\* never empty text beside them (a reply of calls alone gets a placeholder, a
\* tool without output a sentence).
Says(role)     == [role |-> role, parts |-> <<>>]
AsksFor(calls) ==
  [role |-> "assistant", parts |-> [i \in DOMAIN calls |-> Part("tool_use", calls[i])]]
Answers(id)    == [role |-> "tool", parts |-> <<Part("tool_result", id)>>]

MemoryMessages ==
  {Says(role) : role \in {"user", "system", "assistant"}}
    \union {AsksFor(calls) : calls \in {<<c>> : c \in CallIds} \union
              {<<c, d>> : c \in CallIds, d \in CallIds}}
    \union {Answers(id) : id \in CallIds}

\* convertMessages: the text, if there is any, goes before the parts.
Converted(m) == [role |-> m.role, content |-> <<TextPart>> \o m.parts]

IdsOf(type, content) ==
  FlattenSeq([i \in DOMAIN content |->
                IF content[i].type = type THEN <<content[i].id>> ELSE <<>>])

HasText(content) == TextPart \in ToSet(content)

-----------------------------------------------------------------------------
(* The builders *)

Wire(role, txt, calls, answers) ==
  [role |-> role, text |-> txt, calls |-> calls, answers |-> answers]

\* openai: one part of text is sent as it is; a result makes it a message of role
\* "tool" with its id, and stops the search; calls take the place of the text.
OpenAIMessage(m) ==
  LET calls   == IdsOf("tool_use", m.content)
      answers == IdsOf("tool_result", m.content) IN
  CASE answers # <<>> -> Wire("tool", TRUE, <<>>, <<answers[1]>>)
    [] answers = <<>> /\ calls # <<>> -> Wire(m.role, FALSE, calls, <<>>)
    [] OTHER -> Wire(m.role, HasText(m.content), <<>>, <<>>)

\* openaicompat: a message of several parts is sent as the array of its parts, in
\* which a server of this format looks for neither calls nor ids.
CompatMessage(m) ==
  IF Len(m.content) = 1 /\ m.content[1].type = "tool_result"
  THEN Wire(m.role, TRUE, <<>>, <<m.content[1].id>>)
  ELSE Wire(m.role, HasText(m.content), <<>>, <<>>)

\* anthropic: block by block, under the role the message has.
AnthropicMessage(m) ==
  Wire(m.role, HasText(m.content), IdsOf("tool_use", m.content), IdsOf("tool_result", m.content))

\* ollama and vertex: the text alone; vertex calls the assistant "model".
OllamaMessage(m) == Wire(m.role, HasText(m.content), <<>>, <<>>)
VertexMessage(m) ==
  Wire(IF m.role = "assistant" THEN "model" ELSE m.role, HasText(m.content), <<>>, <<>>)

OnlyToolResults(content) ==
  content # <<>> /\ \A i \in DOMAIN content : content[i].type = "tool_result"

\* bedrock, mergeToolResultTurnsForConverse: the results after a message become
\* one turn of the user.  Directly after a reply with calls, the results that
\* have no text come first, in a turn of their own.
MergeStep(acc, m) ==
  LET n == Len(acc.out)
      joins == \/ acc.mode = "batch"
               \/ acc.mode = "results" /\ OnlyToolResults(m.content) IN
  IF m.role # "tool"
  THEN [out  |-> Append(acc.out, m),
        mode |-> IF m.role = "assistant" /\ IdsOf("tool_use", m.content) # <<>> THEN "asked"
                 ELSE "none"]
  ELSE IF joins THEN [acc EXCEPT !.out[n].content = @ \o m.content]
  ELSE [out  |-> Append(acc.out, [role |-> "user", content |-> m.content]),
        mode |-> IF acc.mode = "asked" /\ OnlyToolResults(m.content) THEN "results" ELSE "batch"]

Merged(msgs) ==
  LET upTo[n \in 0..Len(msgs)] == IF n = 0 THEN [out |-> <<>>, mode |-> "none"]
                                  ELSE MergeStep(upTo[n - 1], msgs[n])
  IN  upTo[Len(msgs)].out

\* buildConverseMessages: every other role is the user's, and a message without
\* content gets some.
BedrockMessage(m) ==
  Wire(IF m.role = "assistant" THEN "assistant" ELSE "user", TRUE,
       IdsOf("tool_use", m.content), IdsOf("tool_result", m.content))

MapSeq(Op(_), msgs) == [i \in DOMAIN msgs |-> Op(msgs[i])]

Request(v, msgs) ==
  CASE v = "openai"       -> MapSeq(OpenAIMessage, msgs)
    [] v = "openaicompat" -> MapSeq(CompatMessage, msgs)
    [] v = "anthropic"    -> MapSeq(AnthropicMessage, msgs)
    [] v = "ollama"       -> MapSeq(OllamaMessage, msgs)
    [] v = "vertex"       -> MapSeq(VertexMessage, msgs)
    [] v = "bedrock"      -> MapSeq(BedrockMessage, Merged(msgs))

NotBuilt == [v \in WireFormats |-> <<>>]

WireInit == history = <<>> /\ requests = NotBuilt

\* A call is made once and answered at most once, after it was made (AgentLoop);
\* the answer of a shell block has no call.
AppendMessage(m) ==
  /\ requests = NotBuilt /\ Len(history) < MaxMessages
  /\ LET made == UNION {ToSet(IdsOf("tool_use", history[i].parts)) : i \in DOMAIN history}
         told == UNION {ToSet(IdsOf("tool_result", history[i].parts)) : i \in DOMAIN history} IN
     /\ ToSet(IdsOf("tool_use", m.parts)) \intersect (made \union told) = {}
     /\ ToSet(IdsOf("tool_result", m.parts)) \intersect told = {}
     /\ IsInjective(m.parts)
  /\ history' = Append(history, m)
  /\ UNCHANGED requests

BuildRequests ==
  /\ requests = NotBuilt /\ history # <<>>
  /\ requests' = [v \in WireFormats |-> Request(v, MapSeq(Converted, history))]
  /\ UNCHANGED history

WireNext == BuildRequests \/ \E m \in MemoryMessages : AppendMessage(m)

-----------------------------------------------------------------------------
WireTypeOK ==
  /\ history \in Seq(MemoryMessages) /\ Len(history) <= MaxMessages
  /\ DOMAIN requests = WireFormats
  /\ \A v \in WireFormats : \A i \in DOMAIN requests[v] :
       /\ requests[v][i].role \in {"user", "system", "assistant", "model", "tool"}
       /\ requests[v][i].text \in BOOLEAN

CallsAt(i)   == IdsOf("tool_use", history[i].parts)
AnswersAt(i) == IdsOf("tool_result", history[i].parts)

\* The results that follow message i of the history directly.
ToldAfter(i) ==
  FlattenSeq([j \in 1..(Len(history) - i) |->
    IF \A k \in 1..j : history[i + k].role = "tool" THEN AnswersAt(i + j) ELSE <<>>])

\* What the vendors with tools are told of the calls and results is what happened:
\* openai and anthropic message by message, bedrock in the form its API wants,
\* "the very next message is one user turn" that answers the calls, with all the
\* results that came directly after them and no other, whatever came between
\* the turns.  Nobody loses the text of a message, but openai that of a reply
\* with calls.
RequestsKeepPairs == requests # NotBuilt =>
  /\ \A v \in {"openai", "anthropic"} : \A i \in DOMAIN history :
       requests[v][i].calls = CallsAt(i) /\ requests[v][i].answers = AnswersAt(i)
  /\ LET w == requests["bedrock"] IN
     /\ \A i \in DOMAIN history : CallsAt(i) # <<>> =>
          \E j \in DOMAIN w :
            /\ w[j].calls = CallsAt(i)
            /\ ToldAfter(i) # <<>> =>
                 j < Len(w) /\ w[j + 1].role = "user" /\ w[j + 1].answers = ToldAfter(i)
     /\ FlattenSeq([j \in DOMAIN w |-> w[j].answers])
          = FlattenSeq([i \in DOMAIN history |-> AnswersAt(i)])
     /\ \A j \in 2..Len(w) : w[j].answers = <<>> \/ w[j - 1].answers = <<>>
  /\ \A v \in WireFormats : \A i \in DOMAIN requests[v] :
       requests[v][i].text \/ (v = "openai" /\ CallsAt(i) # <<>>)
=============================================================================
