-------------------------- MODULE ConversationProofs --------------------------
(***************************************************************************)
(* Proofs about what answers a chat message (MCConversation): the turns of *)
(* an agent (AgentLoop), the requests made of its memory (WireMessages),   *)
(* the calls of the failover provider (FailoverProvider), the buffer of    *)
(* tokens (StreamingBuffer), the channels (ChannelInbound), the servers of *)
(* tools (McpClient), the vectors of the notes (Embedders) and how the     *)
(* providers are wired up (ProviderWiring), for any number of messages,    *)
(* calls, tokens, providers, requests and notes; and what these and        *)
(* StreamProofs show in the behaviours of MCConversation.                  *)
(***************************************************************************)
EXTENDS MCConversation, StreamProofs

-----------------------------------------------------------------------------
(* The turns of an agent *)

LEMMA TotalIsNumber == ASSUME NEW m \in Seq(Message) PROVE TotalTokens(m) \in Nat
<1> DEFINE n == Len(m)
           step == [p \in Nat \X Nat |-> IF p[1] + 1 <= n THEN p[2] + m[p[1] + 1].tokens ELSE 0]
           Sums(f) == f = [k \in 0..n |-> IF k = 0 THEN 0 ELSE f[k - 1] + m[k].tokens]
           g == CHOOSE f : Sums(f)
<1>0. n \in Nat /\ \A k \in 1..n : m[k].tokens \in Nat
  <2>1. \A k \in 1..n : m[k] \in Message
    BY ElementOfSeq
  <2> QED BY <2>1, LenProperties DEF Message
<1>1. TotalTokens(m) = g[n]
  BY DEF TotalTokens
<1>2. \A k \in Nat, v \in Nat : step[<<k, v>>] \in Nat
  BY <1>0
<1>3. \A k \in 0..(n - 1), v \in Nat : step[<<k, v>>] = v + m[k + 1].tokens
  BY <1>0
<1> HIDE DEF step, g, n
<1>4. PICK f : Course(f, Nat, 0, step, n)
  BY <1>0, <1>2, CoursesExist
<1>5. Sums(f)
  <2>1. ASSUME NEW k \in 0..n PROVE f[k] = IF k = 0 THEN 0 ELSE f[k - 1] + m[k].tokens
    <3>1. CASE k = 0
      BY <1>4, <3>1 DEF Course
    <3>2. CASE k # 0
      <4>1. k \in 1..n /\ k - 1 \in 0..n /\ k - 1 \in 0..(n - 1) /\ k - 1 + 1 = k
        BY <1>0, <3>2
      <4>2. f[k] = step[<<k - 1, f[k - 1]>>] /\ f[k - 1] \in Nat
        BY <1>4, <4>1 DEF Course
      <4>3. step[<<k - 1, f[k - 1]>>] = f[k - 1] + m[k - 1 + 1].tokens
        BY <1>3, <4>1, <4>2
      <4> QED BY <3>2, <4>1, <4>2, <4>3
    <3> QED BY <3>1, <3>2
  <2>2. f = [k \in 0..n |-> f[k]]
    BY <1>4 DEF Course
  <2> QED BY <2>1, <2>2
<1>6. Sums(g)
  BY <1>5 DEF g
<1> DEFINE N == {k \in Nat : k <= n => g[k] \in Nat}
<1>7. 0 \in N
  BY <1>0, <1>6
<1>8. ASSUME NEW k \in Nat, k \in N PROVE k + 1 \in N
  <2> SUFFICES ASSUME k + 1 <= n PROVE g[k + 1] \in Nat
    OBVIOUS
  <2>1. k + 1 \in 0..n /\ k + 1 \in 1..n /\ k + 1 # 0 /\ k + 1 - 1 = k /\ k <= n
    BY <1>0
  <2>2. g[k + 1] = IF k + 1 = 0 THEN 0 ELSE g[k + 1 - 1] + m[k + 1].tokens
    BY <1>6, <2>1
  <2>3. g[k] \in Nat /\ m[k + 1].tokens \in Nat
    BY <1>0, <1>8, <2>1
  <2>4. g[k + 1] = g[k] + m[k + 1].tokens
    BY <2>1, <2>2
  <2> QED BY <2>3, <2>4
<1>9. Nat \subseteq N
  <2> HIDE DEF N
  <2> QED BY <1>7, <1>8, SetInduction
<1> QED BY <1>0, <1>1, <1>9

\* What is left of the memory when the messages after the first s are gone, up to n.
Cut(s, n) == SubSeq(working, 1, s) \o SubSeq(working, n + 1, Len(working))

CutsAt(s, n) ==
  s \in 0..n /\ n \in 0..Len(working) /\ (s = 0 \/ (s = 1 /\ working[1].role = "system"))

LEMMA CutIs ==
  ASSUME working \in Seq(Message), NEW s, NEW n, CutsAt(s, n)
  PROVE  /\ Cut(s, n) \in Seq(Message) /\ Len(Cut(s, n)) = s + Len(working) - n
         /\ DOMAIN Cut(s, n) = 1..(s + Len(working) - n)
         /\ \A k \in 1..(s + Len(working) - n) :
              Cut(s, n)[k] = working[IF k <= s THEN k ELSE k - s + n]
<1> DEFINE a == SubSeq(working, 1, s)
           b == SubSeq(working, n + 1, Len(working))
<1>0. Len(working) \in Nat /\ \A i \in 1..Len(working) : working[i] \in Message
  BY LenProperties, ElementOfSeq
<1>1. a \in Seq(Message) /\ Len(a) = s /\ \A i \in 1..s : a[i] = working[i]
  <2>1. 1 \in Int /\ s \in Int /\ \A i \in 1..s : working[i] \in Message
    BY <1>0 DEF CutsAt
  <2>2. (IF 1 <= s THEN s - 1 + 1 ELSE 0) = s /\ s - 1 + 1 = s /\ \A i \in 1..s : 1 + i - 1 = i
    BY <1>0 DEF CutsAt
  <2> HIDE DEF a
  <2>3. a \in Seq(Message) /\ Len(a) = (IF 1 <= s THEN s - 1 + 1 ELSE 0)
        /\ \A i \in 1..(s - 1 + 1) : a[i] = working[1 + i - 1]
    BY <2>1, SubSeqProperties DEF a
  <2> QED BY <2>2, <2>3
<1>2. b \in Seq(Message) /\ Len(b) = Len(working) - n
      /\ \A i \in 1..(Len(working) - n) : b[i] = working[n + i]
  <2>1. n + 1 \in Int /\ Len(working) \in Int
          /\ \A i \in (n + 1)..Len(working) : working[i] \in Message
    BY <1>0 DEF CutsAt
  <2>2. (IF n + 1 <= Len(working) THEN Len(working) - (n + 1) + 1 ELSE 0) = Len(working) - n
        /\ Len(working) - (n + 1) + 1 = Len(working) - n
        /\ \A i \in 1..(Len(working) - n) : n + 1 + i - 1 = n + i
    BY <1>0 DEF CutsAt
  <2> HIDE DEF b
  <2>3. b \in Seq(Message)
        /\ Len(b) = (IF n + 1 <= Len(working) THEN Len(working) - (n + 1) + 1 ELSE 0)
        /\ \A i \in 1..(Len(working) - (n + 1) + 1) : b[i] = working[n + 1 + i - 1]
    BY <2>1, SubSeqProperties DEF b
  <2> QED BY <2>2, <2>3
<1>3. Cut(s, n) = a \o b
  BY DEF Cut
<1> HIDE DEF a, b
<1>4. /\ Cut(s, n) \in Seq(Message) /\ Len(Cut(s, n)) = s + (Len(working) - n)
      /\ \A k \in 1..(s + (Len(working) - n)) :
           Cut(s, n)[k] = IF k <= s THEN a[k] ELSE b[k - s]
  <2>1. /\ a \o b \in Seq(Message) /\ Len(a \o b) = Len(a) + Len(b)
        /\ \A k \in 1..(Len(a) + Len(b)) :
             (a \o b)[k] = IF k <= Len(a) THEN a[k] ELSE b[k - Len(a)]
    BY <1>1, <1>2, ConcatProperties
  <2> QED BY <1>1, <1>2, <1>3, <2>1
<1>5. s + (Len(working) - n) = s + Len(working) - n
  BY <1>0 DEF CutsAt
<1>6. ASSUME NEW k \in 1..(s + Len(working) - n)
      PROVE  Cut(s, n)[k] = working[IF k <= s THEN k ELSE k - s + n]
  <2>1. CASE k <= s
    <3>1. k \in 1..s /\ k \in 1..(s + (Len(working) - n))
      BY <1>0, <2>1 DEF CutsAt
    <3> QED BY <1>1, <1>4, <2>1, <3>1
  <2>2. CASE ~ (k <= s)
    <3>1. k - s \in 1..(Len(working) - n) /\ n + (k - s) = k - s + n
          /\ k \in 1..(s + (Len(working) - n))
      BY <1>0, <2>2 DEF CutsAt
    <3> QED BY <1>2, <1>4, <2>2, <3>1
  <2> QED BY <2>1, <2>2
<1>7. DOMAIN Cut(s, n) = 1..Len(Cut(s, n))
  BY <1>4, LenProperties
<1> QED BY <1>4, <1>5, <1>6, <1>7

\* Compact cuts.
LEMMA CompactCuts ==
  ASSUME working \in Seq(Message), NEW budget
  PROVE  \E s, n : CutsAt(s, n) /\ Compacted(budget) = Cut(s, n)
<1> DEFINE start == IF working # <<>> /\ working[1].role = "system" THEN 1 ELSE 0
           fits == {n \in start..Len(working) : TotalTokens(Cut(start, n)) <= budget}
           least == CHOOSE n \in fits : \A k \in fits : n <= k
<1>0. Len(working) \in Nat /\ start \in 0..Len(working)
      /\ \A n \in start..Len(working) : CutsAt(start, n)
  <2>1. Len(working) \in Nat /\ (working # <<>> => Len(working) # 0)
    BY EmptySeq, LenProperties
  <2> QED BY <2>1 DEF CutsAt
<1>1. Compacted(budget) =
        IF TotalTokens(working) <= budget \/ Len(working) <= 1 THEN working
        ELSE IF fits = {} THEN Cut(start, Len(working)) ELSE Cut(start, least)
  BY DEF Compacted, Cut
<1>2. CutsAt(0, 0) /\ Cut(0, 0) = working
  <2>1. CutsAt(0, 0)
    BY <1>0 DEF CutsAt
  <2>2. SubSeq(working, 1, Len(working)) = working /\ SubSeq(working, 1, 0) = <<>>
    <3>1. 0 \in Int /\ 1 \in Int /\ 0 < 1
      OBVIOUS
    <3> QED BY <3>1, SubSeqFull, SubSeqEmpty
  <2>3. <<>> \o working = working
    BY ConcatEmptySeq
  <2>4. Cut(0, 0) = SubSeq(working, 1, 0) \o SubSeq(working, 1, Len(working))
    BY DEF Cut
  <2> QED BY <2>1, <2>2, <2>3, <2>4
<1>3. CutsAt(start, Len(working))
  BY <1>0
<1>4. fits # {} => CutsAt(start, least)
  <2> SUFFICES ASSUME fits # {} PROVE CutsAt(start, least)
    OBVIOUS
  <2>1. fits \subseteq Nat /\ fits \subseteq start..Len(working)
    BY <1>0
  <2>2. \E n \in fits : \A k \in fits : n <= k
    <3> HIDE DEF fits
    <3> QED BY <2>1, LeastNumber
  <2>3. least \in fits
    <3> HIDE DEF fits
    <3> QED BY <2>2
  <2> HIDE DEF fits, least, start
  <2> QED BY <1>0, <2>1, <2>3
<1> HIDE DEF fits, least, start
<1> QED BY <1>1, <1>2, <1>3, <1>4

-----------------------------------------------------------------------------
\* A call to be executed is in the memory, unless it never was or has been dropped.
PendingKnown == \A t \in Turns : \A id \in Range(pending[t]) :
  /\ id.turn = t
  /\ ~id.native \/ id \in dropped \/ \E j \in DOMAIN working : id \in working[j].calls

\* Every call is in one message, and the calls of the next reply are new.
CallsAreNew ==
  /\ \A i \in DOMAIN working : \A id \in working[i].calls : id.reply < asked[id.turn]
  /\ \A i, j \in DOMAIN working : working[i].calls \intersect working[j].calls # {} => i = j

SystemIsPlain == \A i \in DOMAIN working : working[i].role = "system" => working[i].calls = {}

PairsInv == CallsMeetResults /\ PendingKnown /\ CallsAreNew /\ SystemIsPlain

\* Calls are left to execute only while a turn does that.
PendingPhases == \A t \in Turns :
  pending[t] # <<>> => phase[t] \in {"tools", "flush tools", "crashed"}

AgentInv == AgentTypeOK /\ PairsInv /\ PendingPhases /\ OneEnd

LEMMA AgentBegins == AgentInit => AgentInv
<1> SUFFICES ASSUME AgentInit PROVE AgentInv
  OBVIOUS
<1>1. 0 \in 0..MaxCommands
  BY AgentConfig
<1>2. working = <<>> /\ DOMAIN working = {} /\ <<>> \in Seq(Message) /\ <<>> \in Seq(CallId)
      /\ Range(<<>>) = {}
  BY DEF AgentInit, Range
<1>3. AgentTypeOK
  BY <1>1, <1>2, AgentConfig DEF AgentInit, AgentTypeOK
<1>4. PairsInv
  BY <1>2 DEF AgentInit, PairsInv, CallsMeetResults, PendingKnown, CallsAreNew, SystemIsPlain
<1> QED BY <1>3, <1>4 DEF AgentInit, AgentInv, PendingPhases, OneEnd

\* Steps after which the memory, the calls and the history are what they were.
LEMMA PairsStay ==
  PairsInv /\ UNCHANGED <<working, pending, asked, dropped, abandoned>> => PairsInv'
  BY DEF PairsInv, CallsMeetResults, PendingKnown, CallsAreNew, SystemIsPlain

LEMMA Remembered ==
  ASSUME AgentTypeOK, NEW m \in Message, working' = Append(working, m)
  PROVE  /\ Len(working) \in Nat /\ DOMAIN working = 1..Len(working)
         /\ working' \in Seq(Message) /\ DOMAIN working' = 1..(Len(working) + 1)
         /\ Len(working') = Len(working) + 1
         /\ \A i \in 1..Len(working) : working'[i] = working[i]
         /\ working'[Len(working) + 1] = m
<1>1. working \in Seq(Message)
  BY Zenon DEF AgentTypeOK
<1> QED BY <1>1, AppendProperties, LenProperties

\* A text is remembered.
LEMMA TextKeepsPairs ==
  ASSUME AgentTypeOK, PairsInv, NEW role \in {"user", "system", "assistant"}, Remember(Text(role)),
         UNCHANGED <<pending, asked, dropped, abandoned>>
  PROVE  PairsInv' /\ working' \in Seq(Message)
<1> DEFINE m == Text(role)
           n == Len(working)
<1>1. m \in Message /\ m.calls = {} /\ m.answers = NoCall
  BY DEF Text, Message
<1>2. /\ n \in Nat /\ DOMAIN working = 1..n /\ DOMAIN working' = 1..(n + 1) /\ Len(working') = n + 1
      /\ working' \in Seq(Message)
      /\ \A i \in 1..n : working'[i] = working[i]
      /\ working'[n + 1] = m
  BY <1>1, Remembered DEF Remember
<1> HIDE DEF m, n
<1>3. CallsMeetResults'
  <2>1. ASSUME NEW i \in DOMAIN working', working'[i].answers # NoCall
        PROVE  \/ ~ working'[i].answers.native \/ working'[i].answers \in dropped
               \/ \E j \in 1..(i - 1) : working'[i].answers \in working'[j].calls
    <3>1. i \in 1..n
      BY <1>1, <1>2, <2>1
    <3>2. \A j \in 1..(i - 1) : j \in 1..n
      BY <1>2, <3>1
    <3> QED BY <1>2, <2>1, <3>1, <3>2 DEF PairsInv, CallsMeetResults
  <2>2. ASSUME NEW i \in DOMAIN working', NEW id \in working'[i].calls
        PROVE  \/ id \in Range(pending[id.turn]) \/ id \in abandoned
               \/ \E j \in (i + 1)..Len(working') : working'[j].answers = id
    <3>1. i \in 1..n
      BY <1>1, <1>2, <2>2
    <3>2. \A j \in (i + 1)..n : j \in (i + 1)..(n + 1) /\ working'[j] = working[j]
      BY <1>2, <3>1
    <3> QED BY <1>2, <2>2, <3>1, <3>2 DEF PairsInv, CallsMeetResults, n
  <2> QED BY <2>1, <2>2 DEF CallsMeetResults
<1>4. PendingKnown'
  <2>1. \A i \in DOMAIN working : i \in DOMAIN working' /\ working'[i] = working[i]
    BY <1>2
  <2> QED BY <2>1 DEF PairsInv, PendingKnown
<1>5. \A i \in DOMAIN working' : working'[i].calls # {}
        => i \in DOMAIN working /\ working'[i] = working[i]
  BY <1>1, <1>2
<1>6. CallsAreNew'
  <2>1. ASSUME NEW i \in DOMAIN working', NEW id \in working'[i].calls
        PROVE  id.reply < asked[id.turn]
    BY <1>5, <2>1 DEF PairsInv, CallsAreNew
  <2>2. ASSUME NEW i \in DOMAIN working', NEW j \in DOMAIN working',
               working'[i].calls \intersect working'[j].calls # {} PROVE i = j
    BY <1>5, <2>2 DEF PairsInv, CallsAreNew
  <2> QED BY <2>1, <2>2 DEF CallsAreNew
<1>7. SystemIsPlain'
  BY <1>5 DEF PairsInv, SystemIsPlain
<1> QED BY <1>2, <1>3, <1>4, <1>6, <1>7 DEF PairsInv

\* A reply with its calls is remembered; they are to be executed, or given up.
LEMMA ReplyKeepsPairs ==
  ASSUME AgentTypeOK, PairsInv, NEW t \in Turns, NEW n \in Nat, NEW calls,
         calls = <<>> \/ calls = Numbered(t, n, TRUE), NEW k \in Nat,
         working' = Append(working, Assistant(Range(calls), k)),
         asked' = [asked EXCEPT ![t] = @ + 1], UNCHANGED dropped, abandoned \subseteq abandoned',
         \A u \in Turns \ {t} : pending'[u] = pending[u], pending[t] = <<>>,
         \A id \in Range(calls) : id \in Range(pending'[t]) \/ id \in abandoned',
         \A id \in Range(pending'[t]) : id.turn = t /\ (~id.native \/ id \in Range(calls))
  PROVE  PairsInv' /\ working' \in Seq(Message)
<1> DEFINE m == Assistant(Range(calls), k)
           l == Len(working)
<1>0. \A id \in Range(calls) : id \in CallId /\ id.turn = t /\ id.reply = asked[t]
  <2>1. asked[t] \in Nat
    BY Zenon DEF AgentTypeOK
  <2>2. CASE calls = <<>>
    BY <2>2 DEF Range
  <2>3. CASE calls = Numbered(t, n, TRUE)
    <3>1. \A i \in 1..n : calls[i] = [turn |-> t, reply |-> asked[t], nth |-> i, native |-> TRUE]
      BY <2>3 DEF Numbered
    <3>2. DOMAIN calls = 1..n
      BY <2>3 DEF Numbered
    <3>3. ASSUME NEW i \in 1..n
          PROVE  calls[i] \in CallId /\ calls[i].turn = t /\ calls[i].reply = asked[t]
      <4>1. i \in Nat
        OBVIOUS
      <4>2. [turn |-> t, reply |-> asked[t], nth |-> i, native |-> TRUE] \in CallId
        BY <2>1, <4>1 DEF CallId
      <4> QED BY <3>1, <4>2
    <3> QED BY <3>2, <3>3 DEF Range
  <2> QED BY <2>2, <2>3
<1>1. m \in Message /\ m.calls = Range(calls) /\ m.answers = NoCall /\ m.role = "assistant"
  BY <1>0 DEF Assistant, Message
<1>2. /\ l \in Nat /\ DOMAIN working = 1..l /\ DOMAIN working' = 1..(l + 1) /\ Len(working') = l + 1
      /\ working' \in Seq(Message)
      /\ \A i \in 1..l : working'[i] = working[i]
      /\ working'[l + 1] = m
  BY <1>1, Remembered
<1>3. \A i \in 1..l : \A id \in working[i].calls : id \in CallId /\ id.turn \in Turns
  <2>1. \A i \in 1..l : working[i] \in Message
    BY <1>2, ElementOfSeq DEF AgentTypeOK
  <2> QED BY <2>1 DEF Message, CallId
<1>4. asked \in [Turns -> Nat]
  BY DEF AgentTypeOK
<1>5. Range(pending[t]) = {}
  BY DEF Range
<1> HIDE DEF m, l
<1>6. CallsMeetResults'
  <2>1. ASSUME NEW i \in DOMAIN working', working'[i].answers # NoCall
        PROVE  \/ ~ working'[i].answers.native \/ working'[i].answers \in dropped'
               \/ \E j \in 1..(i - 1) : working'[i].answers \in working'[j].calls
    <3>1. i \in 1..l
      BY <1>1, <1>2, <2>1
    <3>2. \A j \in 1..(i - 1) : j \in 1..l
      BY <1>2, <3>1
    <3> QED BY <1>2, <2>1, <3>1, <3>2 DEF PairsInv, CallsMeetResults
  <2>2. ASSUME NEW i \in DOMAIN working', NEW id \in working'[i].calls
        PROVE  \/ id \in Range(pending[id.turn])' \/ id \in abandoned'
               \/ \E j \in (i + 1)..Len(working') : working'[j].answers = id
    <3>1. CASE i \in 1..l
      <4>1. \A j \in (i + 1)..l : j \in (i + 1)..(l + 1) /\ working'[j] = working[j]
        BY <1>2, <3>1
      <4>2. id \in working[i].calls /\ id.turn \in Turns
        BY <1>2, <1>3, <2>2, <3>1
      <4>3. CASE id \in Range(pending[id.turn])
        <5>1. id.turn # t
          BY <1>5, <4>3
        <5> QED BY <4>2, <4>3, <5>1
      <4>4. CASE id \notin Range(pending[id.turn])
        <5>1. id \in abandoned \/ \E j \in (i + 1)..l : working[j].answers = id
          BY <1>2, <3>1, <4>2, <4>4 DEF PairsInv, CallsMeetResults, l
        <5> QED BY <1>2, <4>1, <5>1
      <4> QED BY <4>3, <4>4
    <3>2. CASE i = l + 1
      <4>1. id \in Range(calls) /\ id.turn = t
        BY <1>0, <1>1, <1>2, <2>2, <3>2
      <4> QED BY <4>1
    <3> QED BY <1>2, <3>1, <3>2
  <2> QED BY <2>1, <2>2 DEF CallsMeetResults
<1>7. PendingKnown'
  <2>1. \A i \in DOMAIN working : i \in DOMAIN working' /\ working'[i] = working[i]
    BY <1>2
  <2>2. ASSUME NEW u \in Turns, NEW id \in Range(pending'[u])
        PROVE  id.turn = u /\ (\/ ~id.native \/ id \in dropped'
                               \/ \E j \in DOMAIN working' : id \in working'[j].calls)
    <3>1. CASE u # t
      <4>1. id \in Range(pending[u])
        BY <2>2, <3>1
      <4> QED BY <2>1, <4>1 DEF PairsInv, PendingKnown
    <3>2. CASE u = t
      <4>1. l + 1 \in DOMAIN working' /\ working'[l + 1].calls = Range(calls)
        BY <1>1, <1>2
      <4> QED BY <2>2, <3>2, <4>1
    <3> QED BY <3>1, <3>2
  <2> QED BY <2>2 DEF PendingKnown
<1>8. \A i \in 1..l : \A id \in working[i].calls : id.reply < asked[id.turn]
        /\ id \notin Range(calls)
  <2>1. ASSUME NEW i \in 1..l, NEW id \in working[i].calls
        PROVE id.reply < asked[id.turn] /\ id \notin Range(calls)
    <3>1. id.reply < asked[id.turn]
      BY <1>2 DEF PairsInv, CallsAreNew
    <3>2. id.turn = t => ~ (id.reply = asked[t])
      BY <1>3, <1>4, <3>1 DEF CallId
    <3> QED BY <1>0, <3>1, <3>2
  <2> QED BY <2>1
<1>9. CallsAreNew'
  <2>1. ASSUME NEW i \in DOMAIN working', NEW id \in working'[i].calls
        PROVE  id.reply < asked'[id.turn]
    <3>1. \A u \in Turns : asked[u] \in Nat /\ asked[u] <= asked'[u]
          /\ asked[t] < asked'[t] /\ asked'[u] \in Nat
      BY <1>4
    <3>2. CASE i \in 1..l
      <4>1. id \in working[i].calls
        BY <1>2, <2>1, <3>2
      <4>2. id.reply \in Nat /\ id.turn \in Turns /\ id.reply < asked[id.turn]
        BY <1>3, <1>8, <3>2, <4>1 DEF CallId
      <4> QED BY <3>1, <4>2
    <3>3. CASE i = l + 1
      <4>1. id \in Range(calls)
        BY <1>1, <1>2, <2>1, <3>3
      <4> QED BY <1>0, <3>1, <4>1
    <3> QED BY <1>2, <3>2, <3>3
  <2>2. ASSUME NEW i \in DOMAIN working', NEW j \in DOMAIN working',
               working'[i].calls \intersect working'[j].calls # {} PROVE i = j
    <3>1. PICK id : id \in working'[i].calls /\ id \in working'[j].calls
      BY <2>2
    <3>2. CASE i \in 1..l /\ j \in 1..l
      <4>1. working[i].calls \intersect working[j].calls # {}
        BY <1>2, <2>2, <3>2
      <4> QED BY <1>2, <3>2, <4>1 DEF PairsInv, CallsAreNew
    <3>3. CASE i = l + 1 /\ j \in 1..l
      BY <1>1, <1>2, <1>8, <3>1, <3>3
    <3>4. CASE i \in 1..l /\ j = l + 1
      BY <1>1, <1>2, <1>8, <3>1, <3>4
    <3> QED BY <1>2, <3>2, <3>3, <3>4
  <2> QED BY <2>1, <2>2 DEF CallsAreNew
<1>10. SystemIsPlain'
  <2>1. ASSUME NEW i \in DOMAIN working', working'[i].role = "system" PROVE working'[i].calls = {}
    <3>1. i \in 1..l
      BY <1>1, <1>2, <2>1
    <3> QED BY <1>2, <2>1, <3>1 DEF PairsInv, SystemIsPlain
  <2> QED BY <2>1 DEF SystemIsPlain
<1> QED BY <1>2, <1>6, <1>7, <1>9, <1>10 DEF PairsInv

\* A call is executed.
LEMMA ResultKeepsPairs ==
  ASSUME AgentTypeOK, PairsInv, NEW t \in Turns, pending[t] # <<>>,
         working' = Append(working, ToolResult(Head(pending[t]))),
         \A u \in Turns \ {t} : pending'[u] = pending[u], pending'[t] = Tail(pending[t]),
         UNCHANGED <<asked, dropped, abandoned>>
  PROVE  PairsInv' /\ working' \in Seq(Message) /\ pending'[t] \in Seq(CallId)
<1> DEFINE c == Head(pending[t])
           m == ToolResult(c)
           l == Len(working)
<1>0. /\ pending[t] \in Seq(CallId) /\ c \in CallId /\ c \in Range(pending[t])
      /\ Tail(pending[t]) \in Seq(CallId)
      /\ Range(Tail(pending[t])) \subseteq Range(pending[t])
      /\ Range(pending[t]) \subseteq {c} \union Range(Tail(pending[t]))
  <2> DEFINE s == pending[t]
  <2>1. s \in Seq(CallId) /\ s # <<>>
    BY DEF AgentTypeOK
  <2> HIDE DEF s
  <2>2. /\ Len(s) \in Nat \ {0} /\ DOMAIN s = 1..Len(s) /\ Head(s) = s[1] /\ Head(s) \in CallId
        /\ Tail(s) \in Seq(CallId) /\ DOMAIN Tail(s) = 1..(Len(s) - 1)
        /\ \A i \in 1..(Len(s) - 1) : Tail(s)[i] = s[i + 1]
    <3>1. Len(s) \in Nat \ {0} /\ DOMAIN s = 1..Len(s)
      BY <2>1, EmptySeq, LenProperties
    <3>2. Head(s) \in CallId /\ Tail(s) \in Seq(CallId) /\ Len(Tail(s)) = Len(s) - 1
          /\ \A i \in 1..Len(Tail(s)) : Tail(s)[i] = s[i + 1]
      BY <2>1, HeadTailProperties
    <3>3. DOMAIN Tail(s) = 1..(Len(s) - 1)
      BY <3>2, LenProperties
    <3>4. Head(s) = s[1]
      BY <2>1
    <3> QED BY <3>1, <3>2, <3>3, <3>4
  <2>3. Head(s) \in Range(s) /\ Range(Tail(s)) \subseteq Range(s)
    BY <2>2 DEF Range
  <2>4. ASSUME NEW i \in 1..Len(s) PROVE s[i] \in {Head(s)} \union Range(Tail(s))
    <3>1. CASE i = 1
      BY <2>2, <3>1
    <3>2. CASE i # 1
      <4>1. i - 1 \in DOMAIN Tail(s) /\ Tail(s)[i - 1] = s[i]
        BY <2>2, <3>2
      <4> QED BY <4>1 DEF Range
    <3> QED BY <3>1, <3>2
  <2>5. Range(s) \subseteq {Head(s)} \union Range(Tail(s))
    BY <2>2, <2>4 DEF Range
  <2> QED BY <2>1, <2>2, <2>3, <2>5 DEF s
<1>1. m \in Message /\ m.calls = {} /\ m.answers = c /\ m.role = "tool"
  BY <1>0 DEF ToolResult, Message
<1>2. /\ l \in Nat /\ DOMAIN working = 1..l /\ DOMAIN working' = 1..(l + 1) /\ Len(working') = l + 1
      /\ working' \in Seq(Message)
      /\ \A i \in 1..l : working'[i] = working[i]
      /\ working'[l + 1] = m
  BY <1>1, Remembered
<1>3. pending'[t] = Tail(pending[t])
  OBVIOUS
<1> HIDE DEF m, l, c
<1>4. \A u \in Turns : Range(pending'[u]) \subseteq Range(pending[u])
      /\ Range(pending[u]) \subseteq {c} \union Range(pending'[u])
  <2>1. ASSUME NEW u \in Turns PROVE Range(pending'[u]) \subseteq Range(pending[u])
              /\ Range(pending[u]) \subseteq {c} \union Range(pending'[u])
    <3>1. CASE u = t
      BY <1>0, <1>3, <3>1
    <3>2. CASE u # t
      BY <3>2
    <3> QED BY <3>1, <3>2
  <2> QED BY <2>1
<1>5. CallsMeetResults'
  <2>1. ASSUME NEW i \in DOMAIN working', working'[i].answers # NoCall
        PROVE  \/ ~ working'[i].answers.native \/ working'[i].answers \in dropped'
               \/ \E j \in 1..(i - 1) : working'[i].answers \in working'[j].calls
    <3>1. CASE i \in 1..l
      <4>1. \A j \in 1..(i - 1) : j \in 1..l
        BY <1>2, <3>1
      <4> QED BY <1>2, <2>1, <3>1, <4>1 DEF PairsInv, CallsMeetResults
    <3>2. CASE i = l + 1
      <4>1. ~c.native \/ c \in dropped \/ \E j \in 1..l : c \in working[j].calls
        BY <1>0, <1>2 DEF PairsInv, PendingKnown
      <4>2. \A j \in 1..l : j \in 1..(i - 1)
        BY <1>2, <3>2
      <4> QED BY <1>1, <1>2, <3>2, <4>1, <4>2
    <3> QED BY <1>2, <3>1, <3>2
  <2>2. ASSUME NEW i \in DOMAIN working', NEW id \in working'[i].calls
        PROVE  \/ id \in Range(pending[id.turn])' \/ id \in abandoned'
               \/ \E j \in (i + 1)..Len(working') : working'[j].answers = id
    <3>1. i \in 1..l /\ id \in working[i].calls /\ l + 1 \in (i + 1)..(l + 1)
      BY <1>1, <1>2, <2>2
    <3>2. \A j \in (i + 1)..l : j \in (i + 1)..(l + 1) /\ working'[j] = working[j]
      BY <1>2, <3>1
    <3>3. id.turn \in Turns
      <4>1. working[i] \in Message
        BY <1>2, <3>1, ElementOfSeq DEF AgentTypeOK, l
      <4> QED BY <3>1, <4>1 DEF Message, CallId
    <3>4. CASE id = c
      BY <1>1, <1>2, <3>1, <3>4
    <3>5. CASE id # c
      <4>1. \/ id \in Range(pending[id.turn]) \/ id \in abandoned
            \/ \E j \in (i + 1)..l : working[j].answers = id
        BY <1>2, <3>1 DEF PairsInv, CallsMeetResults, l
      <4>2. id \in Range(pending[id.turn]) => id \in Range(pending'[id.turn])
        BY <1>4, <3>3, <3>5
      <4> QED BY <1>2, <3>2, <4>1, <4>2
    <3> QED BY <3>4, <3>5
  <2> QED BY <2>1, <2>2 DEF CallsMeetResults
<1>6. PendingKnown'
  <2>1. \A i \in DOMAIN working : i \in DOMAIN working' /\ working'[i] = working[i]
    BY <1>2
  <2> QED BY <1>4, <2>1 DEF PairsInv, PendingKnown
<1>7. \A i \in DOMAIN working' : working'[i].calls # {}
        => i \in DOMAIN working /\ working'[i] = working[i]
  BY <1>1, <1>2
<1>8. CallsAreNew'
  <2>1. ASSUME NEW i \in DOMAIN working', NEW id \in working'[i].calls
        PROVE  id.reply < asked[id.turn]
    BY <1>7, <2>1 DEF PairsInv, CallsAreNew
  <2>2. ASSUME NEW i \in DOMAIN working', NEW j \in DOMAIN working',
               working'[i].calls \intersect working'[j].calls # {} PROVE i = j
    BY <1>7, <2>2 DEF PairsInv, CallsAreNew
  <2> QED BY <2>1, <2>2 DEF CallsAreNew
<1>9. SystemIsPlain'
  BY <1>7 DEF PairsInv, SystemIsPlain
<1> QED BY <1>0, <1>2, <1>3, <1>5, <1>6, <1>8, <1>9 DEF PairsInv

\* Messages are dropped.
LEMMA CutKeepsPairs ==
  ASSUME AgentTypeOK, PairsInv, NEW s, NEW n, CutsAt(s, n), working' = Cut(s, n),
         dropped' = dropped \union (CallsOf(working) \ CallsOf(working')),
         UNCHANGED <<pending, asked, abandoned>>
  PROVE  PairsInv' /\ working' \in Seq(Message)
<1> DEFINE l == Len(working)
           k == s + Len(working) - n
           old(i) == IF i <= s THEN i ELSE i - s + n
<1>0. working \in Seq(Message)
  BY Zenon DEF AgentTypeOK
<1>1. /\ working' \in Seq(Message) /\ Len(working') = k /\ DOMAIN working' = 1..k
      /\ \A i \in 1..k : working'[i] = working[old(i)]
  BY <1>0, CutIs
<1>2. /\ l \in Nat /\ DOMAIN working = 1..l /\ n \in 0..l /\ s \in 0..n
      /\ s = 0 \/ (s = 1 /\ working[1].role = "system")
  BY <1>0, LenProperties DEF CutsAt
<1>3. \A i \in 1..k : old(i) \in 1..l /\ (old(i) <= s \/ old(i) > n)
  BY <1>2
<1>4. \A i, j \in 1..k : old(i) < old(j) <=> i < j
  BY <1>2
<1>5. \A j \in 1..l : j > n => j - n + s \in 1..k /\ old(j - n + s) = j
  BY <1>2
<1>6. s = 1 => working[1].calls = {}
  BY <1>2 DEF PairsInv, SystemIsPlain
<1>7. \A i \in 1..k : working'[i].calls # {} => old(i) > n
  <2>1. ASSUME NEW i \in 1..k, old(i) <= s PROVE working'[i].calls = {}
    <3>1. s = 1 /\ old(i) = 1
      BY <1>2, <1>3, <2>1
    <3> QED BY <1>1, <1>6, <3>1
  <2> QED BY <1>3, <2>1
\* A call whose message goes is dropped: it is in no other message.
<1>8. ASSUME NEW j \in 1..l, NEW id \in working[j].calls, ~ (j > n) PROVE id \in dropped'
  <2>1. id \in CallsOf(working)
    BY <1>2, <1>8 DEF CallsOf
  <2>2. ASSUME NEW i \in 1..k, id \in working'[i].calls PROVE FALSE
    <3>1. id \in working[old(i)].calls /\ old(i) \in 1..l
      BY <1>1, <1>3, <2>2
    <3>2. working[old(i)].calls \intersect working[j].calls # {}
      BY <1>8, <3>1
    <3>3. old(i) = j
      BY <1>2, <3>1, <3>2 DEF PairsInv, CallsAreNew
    <3> QED BY <1>7, <1>8, <2>2, <3>3
  <2>3. id \notin CallsOf(working')
    BY <1>1, <2>2 DEF CallsOf
  <2> QED BY <2>1, <2>3
<1> HIDE DEF old, k, l
<1>9. CallsMeetResults'
  <2>1. ASSUME NEW i \in DOMAIN working', working'[i].answers # NoCall
        PROVE  \/ ~ working'[i].answers.native \/ working'[i].answers \in dropped'
               \/ \E j \in 1..(i - 1) : working'[i].answers \in working'[j].calls
    <3> DEFINE id == working'[i].answers
    <3>1. i \in 1..k /\ id = working[old(i)].answers /\ old(i) \in 1..l
      BY <1>1, <1>3, <2>1
    <3>2. ~id.native \/ id \in dropped \/ \E j \in 1..(old(i) - 1) : id \in working[j].calls
      BY <1>2, <2>1, <3>1 DEF PairsInv, CallsMeetResults
    <3>3. ASSUME NEW j \in 1..(old(i) - 1), id \in working[j].calls
          PROVE  id \in dropped' \/ \E h \in 1..(i - 1) : id \in working'[h].calls
      <4>1. j \in 1..l /\ j < old(i)
        BY <1>2, <3>1, <3>3
      <4>2. CASE ~ (j > n)
        BY <1>8, <3>3, <4>1, <4>2
      <4>3. CASE j > n
        <5> DEFINE h == j - n + s
        <5>1. h \in 1..k /\ old(h) = j
          BY <1>5, <4>1, <4>3
        <5>2. h < i
          BY <1>4, <3>1, <4>1, <5>1
        <5>3. h \in 1..(i - 1)
          BY <3>1, <5>1, <5>2 DEF k
        <5>4. id \in working'[h].calls
          BY <1>1, <3>3, <5>1
        <5> QED BY <5>3, <5>4
      <4> QED BY <4>2, <4>3
    <3> QED BY <3>2, <3>3
  <2>2. ASSUME NEW i \in DOMAIN working', NEW id \in working'[i].calls
        PROVE  \/ id \in Range(pending[id.turn])' \/ id \in abandoned'
               \/ \E j \in (i + 1)..Len(working') : working'[j].answers = id
    <3>1. i \in 1..k /\ id \in working[old(i)].calls /\ old(i) \in 1..l /\ old(i) > n
      BY <1>1, <1>3, <1>7, <2>2
    <3>2. \/ id \in Range(pending[id.turn]) \/ id \in abandoned
          \/ \E j \in (old(i) + 1)..l : working[j].answers = id
      BY <1>2, <3>1 DEF PairsInv, CallsMeetResults, l
    <3>3. ASSUME NEW j \in (old(i) + 1)..l, working[j].answers = id
          PROVE  \E h \in (i + 1)..Len(working') : working'[h].answers = id
      <4> DEFINE h == j - n + s
      <4>1. j \in 1..l /\ j > n /\ old(i) < j
        BY <1>2, <3>1, <3>3
      <4>2. h \in 1..k /\ old(h) = j
        BY <1>5, <4>1
      <4>3. i < h
        BY <1>4, <3>1, <4>1, <4>2
      <4>4. h \in (i + 1)..k /\ working'[h].answers = id
        BY <1>1, <3>1, <3>3, <4>2, <4>3
      <4> QED BY <1>1, <4>4
    <3> QED BY <3>2, <3>3
  <2> QED BY <2>1, <2>2 DEF CallsMeetResults
<1>10. PendingKnown'
  <2>1. ASSUME NEW t \in Turns, NEW id \in Range(pending[t])
        PROVE  id.turn = t /\ (\/ ~id.native \/ id \in dropped'
                               \/ \E j \in DOMAIN working' : id \in working'[j].calls)
    <3>1. id.turn = t /\ (~id.native \/ id \in dropped \/ \E j \in 1..l : id \in working[j].calls)
      BY <1>2 DEF PairsInv, PendingKnown
    <3>2. ASSUME NEW j \in 1..l, id \in working[j].calls
          PROVE  id \in dropped' \/ \E h \in DOMAIN working' : id \in working'[h].calls
      BY <1>1, <1>5, <1>8, <3>2
    <3> QED BY <3>1, <3>2
  <2> QED BY <2>1 DEF PendingKnown
<1>11. CallsAreNew'
  <2>1. ASSUME NEW i \in DOMAIN working', NEW id \in working'[i].calls
        PROVE  id.reply < asked[id.turn]
    BY <1>1, <1>2, <1>3, <2>1 DEF PairsInv, CallsAreNew
  <2>2. ASSUME NEW i \in DOMAIN working', NEW j \in DOMAIN working',
               working'[i].calls \intersect working'[j].calls # {} PROVE i = j
    <3>1. i \in 1..k /\ j \in 1..k /\ working'[i] = working[old(i)] /\ working'[j] = working[old(j)]
          /\ old(i) \in 1..l /\ old(j) \in 1..l
      BY <1>1, <1>3
    <3>2. old(i) = old(j)
      BY <1>2, <2>2, <3>1 DEF PairsInv, CallsAreNew
    <3>3. ~ (i < j) /\ ~ (j < i)
      BY <1>2, <1>4, <3>1, <3>2
    <3> QED BY <1>2, <3>1, <3>3 DEF k
  <2> QED BY <2>1, <2>2 DEF CallsAreNew
<1>12. SystemIsPlain'
  BY <1>1, <1>2, <1>3 DEF PairsInv, SystemIsPlain
<1> QED BY <1>1, <1>9, <1>10, <1>11, <1>12 DEF PairsInv

\* What the steps that leave the turns' memory alone, or add a text to it, keep.
LEMMA QuietStep ==
  ASSUME AgentInv,
         UNCHANGED working \/ \E role \in {"user", "system", "assistant"} : Remember(Text(role)),
         UNCHANGED <<pending, asked, dropped, abandoned>>
  PROVE  PairsInv' /\ working' \in Seq(Message) /\ pending' \in [Turns -> Seq(CallId)]
         /\ asked' \in [Turns -> Nat] /\ dropped' \subseteq CallId /\ abandoned' \subseteq CallId
<1>0. AgentTypeOK /\ PairsInv
  BY DEF AgentInv
<1>1. PairsInv' /\ working' \in Seq(Message)
  <2>1. CASE UNCHANGED working
    BY <1>0, <2>1, PairsStay, Zenon DEF AgentTypeOK
  <2>2. CASE \E role \in {"user", "system", "assistant"} : Remember(Text(role))
    BY <1>0, <2>2, TextKeepsPairs
  <2> QED BY <2>1, <2>2
<1> QED BY <1>0, <1>1, Zenon DEF AgentTypeOK

\* The state of a turn: its types and ends, and the phases with calls to execute.
TurnsInv ==
  /\ kind \in [Turns -> Kinds]
  /\ phase \in [Turns -> {"idle", "plan", "flush", "flushing", "flush tools", "model",
                          "asking", "nudge", "tools", "closing", "compacting", "ended", "hung",
                          "crashed"}]
  /\ iterations \in [Turns -> Nat] /\ usage \in [Turns -> Nat]
  /\ finished \in [Turns -> BOOLEAN] /\ total \in [Turns -> Nat]
  /\ commands \in 0..MaxCommands
  /\ ends \in [Turns -> Nat] /\ flushErrors \in [Turns -> Nat]
  /\ PendingPhases /\ OneEnd

MemoryInv ==
  /\ PairsInv /\ working \in Seq(Message) /\ pending \in [Turns -> Seq(CallId)]
  /\ asked \in [Turns -> Nat] /\ dropped \subseteq CallId /\ abandoned \subseteq CallId

LEMMA AgentInvIs == AgentInv <=> TurnsInv /\ MemoryInv
  BY Zenon DEF AgentInv, TurnsInv, MemoryInv, AgentTypeOK

LEMMA AgentConstants ==
  /\ \A k \in Kinds : MaxCalls[k] \in Nat
  /\ Usages \subseteq Nat /\ MaxCommands \in Nat
  BY AgentConfig

\* A turn is over and says so; a flush that failed said so before.
LEMMA EndIsTold ==
  ASSUME TurnsInv, NEW t \in Turns, phase[t] # "ended", TellEnd(t),
         \/ Go(t, "ended") /\ UNCHANGED flushErrors
         \/ Go(t, AfterFlush(t)) /\ flushErrors' = [flushErrors EXCEPT ![t] = @ + 1]
  PROVE  OneEnd' /\ ends' \in [Turns -> Nat] /\ flushErrors' \in [Turns -> Nat]
<1>1. ends \in [Turns -> Nat] /\ flushErrors \in [Turns -> Nat] /\ DOMAIN phase = Turns /\ OneEnd
  BY DEF TurnsInv
<1>2. ends'[t] = ends[t] + 1 /\ \A u \in Turns \ {t} : ends'[u] = ends[u]
  BY <1>1 DEF TellEnd
<1>3. ends' \in [Turns -> Nat] /\ flushErrors' \in [Turns -> Nat]
  BY <1>1 DEF TellEnd
<1>4. ends[t] = flushErrors[t] /\ flushErrors[t] \in Nat
  <2>1. ends[t] = flushErrors[t] + 0
    BY <1>1 DEF OneEnd
  <2> QED BY <1>1, <2>1
<1>5. CASE Go(t, "ended") /\ UNCHANGED flushErrors
  <2>1. phase'[t] = "ended" /\ \A u \in Turns \ {t} : phase'[u] = phase[u]
    BY <1>1, <1>5 DEF Go
  <2>2. ASSUME NEW u \in Turns
        PROVE  ends'[u] = flushErrors'[u] + (IF phase'[u] = "ended" THEN 1 ELSE 0)
    <3>1. CASE u = t
      BY <1>2, <1>4, <1>5, <2>1, <3>1
    <3>2. CASE u # t
      BY <1>1, <1>2, <1>5, <2>1, <3>2 DEF OneEnd
    <3> QED BY <3>1, <3>2
  <2> QED BY <1>3, <2>2 DEF OneEnd
<1>6. CASE Go(t, AfterFlush(t)) /\ flushErrors' = [flushErrors EXCEPT ![t] = @ + 1]
  <2>1. phase'[t] # "ended" /\ \A u \in Turns \ {t} : phase'[u] = phase[u]
    BY <1>1, <1>6 DEF Go, AfterFlush
  <2>2. flushErrors'[t] = flushErrors[t] + 1
          /\ \A u \in Turns \ {t} : flushErrors'[u] = flushErrors[u]
    BY <1>1, <1>6
  <2>3. ASSUME NEW u \in Turns
        PROVE  ends'[u] = flushErrors'[u] + (IF phase'[u] = "ended" THEN 1 ELSE 0)
    <3>1. CASE u = t
      BY <1>2, <1>4, <2>2, <2>1, <3>1
    <3>2. CASE u # t
      BY <1>1, <1>2, <2>2, <2>1, <3>2 DEF OneEnd
    <3> QED BY <3>1, <3>2
  <2> QED BY <1>3, <2>3 DEF OneEnd
<1> QED BY <1>5, <1>6

LEMMA PlainSteps ==
  ASSUME AgentInv, NEW t \in Turns,
         \/ Begin(t) \/ Plan(t) \/ PlanPanics(t) \/ CheckFlush(t) \/ FlushFails(t)
         \/ Checkpoint(t) \/ Exhaust(t) \/ ModelFails(t) \/ ModelSilent(t) \/ ReadTotal(t)
              \/ Nudge(t)
  PROVE  AgentInv'
<1>1. UNCHANGED working \/ \E role \in {"user", "system", "assistant"} : Remember(Text(role))
  BY DEF Begin, Plan, PlanPanics, CheckFlush, FlushFails, Checkpoint, Exhaust, ModelFails,
         ModelSilent, ReadTotal, Nudge
<1>2. UNCHANGED <<pending, asked, dropped, abandoned>>
  BY DEF Begin, Plan, PlanPanics, CheckFlush, FlushFails, Checkpoint, Exhaust, ModelFails,
         ModelSilent, ReadTotal, Nudge, agentHistory
<1>3. MemoryInv'
  BY <1>1, <1>2, QuietStep DEF MemoryInv
<1>4. TurnsInv /\ TotalTokens(working) \in Nat
  BY AgentInvIs, TotalIsNumber DEF MemoryInv
<1>5. TurnsInv'
  <2>1. CASE Begin(t)
    BY <1>4, <2>1 DEF Begin, Go, TurnsInv, PendingPhases, OneEnd, agentHistory
  <2>2. CASE Plan(t)
    BY <1>4, <2>2 DEF Plan, AfterPlan, Go, TurnsInv, PendingPhases, OneEnd, agentHistory
  <2>3. CASE PlanPanics(t)
    BY <1>4, <2>3 DEF PlanPanics, TurnsInv, PendingPhases, OneEnd, agentHistory
  <2>4. CASE CheckFlush(t)
    BY <1>4, <2>4 DEF CheckFlush, AfterFlush, Go, TurnsInv, PendingPhases, OneEnd, agentHistory
  <2>5. CASE FlushFails(t)
    <3>1. Streams(t) => OneEnd' /\ ends' \in [Turns -> Nat] /\ flushErrors' \in [Turns -> Nat]
      <4>1. phase[t] # "ended" /\ Go(t, AfterFlush(t))
        BY <2>5 DEF FlushFails
      <4> QED BY <1>4, <2>5, <4>1, EndIsTold DEF FlushFails
    <3>2. ~Streams(t) => OneEnd' /\ ends' \in [Turns -> Nat] /\ flushErrors' \in [Turns -> Nat]
      BY <1>4, <2>5 DEF FlushFails, AfterFlush, Go, TurnsInv, OneEnd
    <3> QED BY <1>4, <2>5, <3>1, <3>2 DEF FlushFails, AfterFlush, Go, TurnsInv, PendingPhases
  <2>6. CASE Checkpoint(t)
    BY <1>4, <2>6 DEF Checkpoint, Go, TurnsInv, PendingPhases, OneEnd, agentHistory
  <2>7. CASE Exhaust(t)
    <3>1. OneEnd' /\ ends' \in [Turns -> Nat]
      <4>1. phase[t] # "ended" /\ Go(t, "ended") /\ TellEnd(t) /\ UNCHANGED flushErrors
        BY <2>7 DEF Exhaust
      <4> QED BY <1>4, <4>1, EndIsTold
    <3> QED BY <1>4, <2>7, <3>1 DEF Exhaust, Go, TurnsInv, PendingPhases
  <2>8. CASE ModelFails(t)
    <3>1. OneEnd' /\ ends' \in [Turns -> Nat]
      <4>1. phase[t] # "ended" /\ Go(t, "ended") /\ TellEnd(t) /\ UNCHANGED flushErrors
        BY <2>8 DEF ModelFails, Asking
      <4> QED BY <1>4, <4>1, EndIsTold
    <3>2. phase' = [phase EXCEPT ![t] = "ended"] /\ phase[t] \in {"model", "asking"}
      BY <2>8 DEF ModelFails, Asking, Go
    <3>3. PendingPhases'
      BY <1>2, <1>4, <3>2 DEF TurnsInv, PendingPhases
    <3>4. iterations' \in [Turns -> Nat]
      <4>1. iterations \in [Turns -> Nat]
        BY <1>4 DEF TurnsInv
      <4>2. iterations' = [iterations EXCEPT ![t] = @ + 1]
        BY <2>8 DEF ModelFails, Iterate
      <4> QED BY <4>1, <4>2
    <3>5. phase' \in [Turns -> {"idle", "plan", "flush", "flushing", "flush tools", "model",
                          "asking", "nudge", "tools", "closing", "compacting", "ended", "hung",
                          "crashed"}]
      BY <1>4, <3>2 DEF TurnsInv
    <3> QED BY <1>4, <2>8, <3>1, <3>3, <3>4, <3>5 DEF ModelFails, TurnsInv
  <2>9. CASE ModelSilent(t)
    BY <1>4, <2>9 DEF ModelSilent, Asking, Go, TurnsInv, PendingPhases, OneEnd, agentHistory
  <2>10. CASE ReadTotal(t)
    BY <1>4, <2>10 DEF ReadTotal, Go, TurnsInv, PendingPhases, OneEnd, agentHistory
  <2>11. CASE Nudge(t)
    BY <1>4, <2>11 DEF Nudge, Go, TurnsInv, PendingPhases, OneEnd, agentHistory
  <2> QED BY <2>1, <2>2, <2>3, <2>4, <2>5, <2>6, <2>7, <2>8, <2>9, <2>10, <2>11
<1>6. (AgentInv <=> TurnsInv /\ MemoryInv)'
  BY AgentInvIs, PTL
<1> QED BY <1>3, <1>5, <1>6

LEMMA Numbers ==
  ASSUME AgentInv, NEW t \in Turns, NEW n \in Nat, NEW b \in BOOLEAN
  PROVE  /\ Numbered(t, n, b) \in Seq(CallId)
         /\ \A id \in Range(Numbered(t, n, b)) : id.turn = t /\ id.native = b
<1> DEFINE calls == Numbered(t, n, b)
<1>1. asked[t] \in Nat
  BY DEF AgentInv, AgentTypeOK
<1>2. DOMAIN calls = 1..n /\ calls = [i \in 1..n |-> calls[i]]
      /\ \A i \in 1..n : calls[i] = [turn |-> t, reply |-> asked[t], nth |-> i, native |-> b]
  BY DEF Numbered
<1>3. \A i \in 1..n : calls[i] \in CallId /\ calls[i].turn = t /\ calls[i].native = b
  <2> HIDE DEF calls
  <2> QED BY <1>1, <1>2 DEF CallId
<1> HIDE DEF calls
<1>4. calls \in Seq(CallId)
  BY <1>2, <1>3
<1>5. calls \in Seq(CallId) /\ \A id \in Range(calls) : id.turn = t /\ id.native = b
  BY <1>2, <1>3, <1>4 DEF Range
<1> QED BY <1>5 DEF calls

\* What becomes of the calls of a reply: p are to be executed, and gone are given up.
HandedOn(t, calls, p, gone) ==
  /\ pending' = [pending EXCEPT ![t] = p] /\ p \in Seq(CallId)
  /\ abandoned' = abandoned \union gone /\ gone \subseteq Range(calls)
  /\ Range(calls) \subseteq Range(p) \union gone
  /\ \A id \in Range(p) : id.turn = t /\ (~id.native \/ id \in Range(calls))

LEMMA ReplyGiven ==
  ASSUME AgentInv, NEW t \in Turns, NEW n \in Nat, NEW calls, NEW tokens \in Usages,
         calls = <<>> \/ calls = Numbered(t, n, TRUE), Reply(t, calls, tokens),
         phase[t] \notin {"tools", "flush tools", "crashed"}, NEW p, NEW gone,
         HandedOn(t, calls, p, gone), UNCHANGED dropped
  PROVE  MemoryInv' /\ usage' \in [Turns -> Nat]
<1>0. TurnsInv /\ MemoryInv /\ AgentTypeOK /\ PairsInv
  BY AgentInvIs DEF AgentInv
<1>1. pending[t] = <<>>
  BY <1>0 DEF TurnsInv, PendingPhases
<1>2. pending'[t] = p /\ \A u \in Turns \ {t} : pending'[u] = pending[u]
  BY <1>0 DEF MemoryInv, HandedOn
<1>3. usage[t] \in Nat /\ tokens \in Nat
  BY <1>0, AgentConstants DEF TurnsInv
<1>4. PICK k \in Nat : working' = Append(working, Assistant(Range(calls), k))
  <2>1. (IF Streams(t) THEN usage[t] + tokens ELSE tokens) \in Nat
    <3>1. usage[t] + tokens \in Nat
      BY ONLY <1>3
    <3> QED BY <1>3, <3>1
  <2> QED BY <2>1 DEF Reply, Remember
<1>5. asked' = [asked EXCEPT ![t] = @ + 1] /\ usage' = [usage EXCEPT ![t] = @ + tokens]
  BY DEF Reply
<1>6. asked' \in [Turns -> Nat] /\ usage' \in [Turns -> Nat]
  <2>1. asked \in [Turns -> Nat] /\ usage \in [Turns -> Nat]
    BY <1>0 DEF TurnsInv, MemoryInv
  <2>2. asked[t] + 1 \in Nat /\ usage[t] + tokens \in Nat
    <3>1. usage[t] + tokens \in Nat
      BY ONLY <1>3
    <3>2. asked[t] \in Nat
      BY <2>1
    <3>3. asked[t] + 1 \in Nat
      BY ONLY <3>2
    <3> QED BY <3>1, <3>3
  <2> QED BY <1>5, <2>1, <2>2
<1>7. Range(calls) \subseteq CallId
  <2>1. calls \in Seq(CallId)
    <3>1. CASE calls = <<>>
      BY ONLY <3>1, EmptySeq
    <3>2. CASE calls = Numbered(t, n, TRUE)
      BY <3>2, Numbers
    <3> QED BY <3>1, <3>2
  <2>2. \A i \in DOMAIN calls : calls[i] \in CallId
    BY <2>1, ElementOfSeq, LenProperties
  <2> QED BY <2>2 DEF Range
<1>8. pending' \in [Turns -> Seq(CallId)] /\ abandoned' \subseteq CallId
        /\ dropped' \subseteq CallId
  BY <1>0, <1>7 DEF MemoryInv, HandedOn
<1>9. /\ abandoned \subseteq abandoned'
      /\ \A id \in Range(calls) : id \in Range(pending'[t]) \/ id \in abandoned'
      /\ \A id \in Range(pending'[t]) : id.turn = t /\ (~id.native \/ id \in Range(calls))
  BY <1>2 DEF HandedOn
<1>10. PairsInv' /\ working' \in Seq(Message)
  BY <1>0, <1>1, <1>2, <1>4, <1>5, <1>9, ReplyKeepsPairs
<1> QED BY <1>6, <1>8, <1>10 DEF MemoryInv

LEMMA ReplySteps ==
  ASSUME AgentInv, NEW t \in Turns,
         FlushReply(t) \/ Answer(t) \/ CallTools(t) \/ CallBlocks(t) \/ Idle(t)
  PROVE  AgentInv'
<1>0. TurnsInv /\ MemoryInv /\ MaxCalls[kind[t]] \in Nat
  BY AgentInvIs, AgentConstants DEF TurnsInv
<1>1. phase[t] \in {"flushing", "asking", "model"}
        /\ UNCHANGED <<kind, total, commands, flushErrors, dropped>>
  BY DEF FlushReply, Answer, CallTools, CallBlocks, Idle, Asking
<1>2. pending[t] = <<>> /\ pending = [pending EXCEPT ![t] = <<>>] /\ DOMAIN pending = Turns
      /\ <<>> \in Seq(CallId) /\ Range(<<>>) = {}
  <2>1. pending \in [Turns -> Seq(CallId)] /\ pending[t] = <<>>
    BY <1>0, <1>1 DEF TurnsInv, MemoryInv, PendingPhases
  <2>2. Range(<<>>) = {}
    BY DEF Range
  <2> QED BY <2>1, <2>2
<1>3. \A n \in Nat : Numbered(t, n, TRUE) \in Seq(CallId)
           /\ \A id \in Range(Numbered(t, n, TRUE)) : id.turn = t /\ id.native = TRUE
  BY Numbers
<1>4. MemoryInv' /\ usage' \in [Turns -> Nat]
  <2>1. CASE FlushReply(t)
    <3>1. PICK n \in 0..MaxCalls[kind[t]], tokens \in Usages :
            /\ Reply(t, Numbered(t, n, TRUE), tokens)
            /\ pending' = [pending EXCEPT ![t] = Numbered(t, n, TRUE)] /\ UNCHANGED abandoned
      BY <2>1 DEF FlushReply
    <3>2. n \in Nat
      BY <1>0
    <3>3. HandedOn(t, Numbered(t, n, TRUE), Numbered(t, n, TRUE), {})
      BY <1>3, <3>1, <3>2 DEF HandedOn
    <3> QED BY <1>1, <3>1, <3>2, <3>3, ReplyGiven
  <2>2. CASE Answer(t)
    <3>1. PICK n \in 0..MaxCalls[kind[t]], tokens \in Usages :
            /\ Reply(t, Numbered(t, n, TRUE), tokens)
            /\ abandoned' = abandoned \union Range(Numbered(t, n, TRUE)) /\ UNCHANGED pending
      BY <2>2 DEF Answer
    <3>2. n \in Nat
      BY <1>0
    <3>3. HandedOn(t, Numbered(t, n, TRUE), <<>>, Range(Numbered(t, n, TRUE)))
      BY <1>2, <3>1 DEF HandedOn
    <3> QED BY <1>1, <3>1, <3>2, <3>3, ReplyGiven
  <2>3. CASE CallTools(t)
    <3>1. PICK n \in 1..MaxCalls[kind[t]], tokens \in Usages :
            /\ Reply(t, Numbered(t, n, TRUE), tokens)
            /\ pending' = [pending EXCEPT ![t] = Numbered(t, n, TRUE)] /\ UNCHANGED abandoned
      BY <2>3 DEF CallTools
    <3>2. n \in Nat
      BY <1>0
    <3>3. HandedOn(t, Numbered(t, n, TRUE), Numbered(t, n, TRUE), {})
      BY <1>3, <3>1, <3>2 DEF HandedOn
    <3> QED BY <1>1, <3>1, <3>2, <3>3, ReplyGiven
  <2>4. CASE CallBlocks(t)
    <3>1. PICK n \in 1..MaxCalls[kind[t]], tokens \in Usages :
            /\ Reply(t, <<>>, tokens)
            /\ pending' = [pending EXCEPT ![t] = Numbered(t, n, FALSE)] /\ UNCHANGED abandoned
      BY <2>4 DEF CallBlocks
    <3>2. n \in Nat
      BY <1>0
    <3>3. Numbered(t, n, FALSE) \in Seq(CallId)
          /\ \A id \in Range(Numbered(t, n, FALSE)) : id.turn = t /\ id.native = FALSE
      BY <3>2, Numbers
    <3>4. HandedOn(t, <<>>, Numbered(t, n, FALSE), {})
      BY <1>2, <3>1, <3>3 DEF HandedOn
    <3> QED BY <1>1, <3>1, <3>2, <3>4, ReplyGiven
  <2>5. CASE Idle(t)
    <3>1. PICK tokens \in Usages : Reply(t, <<>>, tokens) /\ UNCHANGED <<pending, abandoned>>
      BY <2>5 DEF Idle
    <3>2. HandedOn(t, <<>>, <<>>, {})
      BY <1>2, <3>1 DEF HandedOn
    <3>3. 0 \in Nat
      OBVIOUS
    <3> QED BY <1>1, <3>1, <3>2, <3>3, ReplyGiven
  <2> QED BY <2>1, <2>2, <2>3, <2>4, <2>5
<1>5. /\ iterations' \in [Turns -> Nat] /\ finished' \in [Turns -> BOOLEAN]
  <2>1. iterations \in [Turns -> Nat] /\ finished \in [Turns -> BOOLEAN]
    BY <1>0 DEF TurnsInv
  <2>2. iterations' = iterations \/ iterations' = [iterations EXCEPT ![t] = @ + 1]
    BY DEF FlushReply, Answer, CallTools, CallBlocks, Idle, Iterate
  <2>3. finished' = finished \/ \E b \in BOOLEAN : finished' = [finished EXCEPT ![t] = b]
    BY Zenon DEF FlushReply, Answer, CallTools, CallBlocks, Idle
  <2>4. iterations' \in [Turns -> Nat]
    BY <2>1, <2>2
  <2>5. finished' \in [Turns -> BOOLEAN]
    BY <2>1, <2>3
  <2> QED BY <2>4, <2>5
<1>6. \E q \in {"ended", "closing", "tools", "flush tools", "nudge", "flush", "plan", "model"} :
        Go(t, q)
  BY DEF FlushReply, Answer, CallTools, CallBlocks, Idle, AfterFlush
<1>7. phase[t] # "ended"
        /\ phase' \in [Turns -> {"idle", "plan", "flush", "flushing", "flush tools", "model",
                          "asking", "nudge", "tools", "closing", "compacting", "ended", "hung",
                          "crashed"}]
  BY <1>0, <1>1, <1>6 DEF TurnsInv, Go
<1>8. OneEnd' /\ ends' \in [Turns -> Nat] /\ flushErrors' \in [Turns -> Nat]
  <2>1. CASE Go(t, "ended") /\ TellEnd(t)
    BY <1>0, <1>1, <1>7, <2>1, EndIsTold
  <2>2. CASE UNCHANGED ends
               /\ \E q \in {"closing", "tools", "flush tools", "nudge", "flush", "plan", "model"} :
                    Go(t, q)
    BY <1>0, <1>1, <1>7, <2>2 DEF Go, OneEnd, TurnsInv
  <2> QED BY <2>1, <2>2 DEF FlushReply, Answer, CallTools, CallBlocks, Idle, AfterFlush
<1>9. PendingPhases'
  <2>1. \A u \in Turns \ {t} : pending'[u] = pending[u] /\ phase'[u] = phase[u]
    BY <1>0, <1>6 DEF FlushReply, Answer, CallTools, CallBlocks, Idle, Go, TurnsInv, MemoryInv
  <2>2. pending'[t] = <<>> \/ phase'[t] \in {"tools", "flush tools"}
    <3>1. DOMAIN phase = Turns
      BY <1>0 DEF TurnsInv
    <3> QED BY <1>2, <3>1 DEF FlushReply, Answer, CallTools, CallBlocks, Idle, Go
  <2> QED BY <1>0, <2>1, <2>2 DEF TurnsInv, PendingPhases
<1>10. TurnsInv'
  BY <1>0, <1>1, <1>4, <1>5, <1>7, <1>8, <1>9 DEF TurnsInv
<1>11. (AgentInv <=> TurnsInv /\ MemoryInv)'
  BY AgentInvIs, PTL
<1> QED BY <1>4, <1>10, <1>11

LEMMA ToolSteps ==
  ASSUME AgentInv, NEW t \in Turns, ExecuteTool(t) \/ ExecuteLastTool(t)
  PROVE  AgentInv'
<1>0. TurnsInv /\ MemoryInv /\ AgentTypeOK /\ PairsInv
  BY AgentInvIs DEF AgentInv
<1>1. /\ UNCHANGED <<kind, iterations, usage, finished, total, commands, asked, ends, flushErrors,
                     dropped, abandoned>>
      /\ working' = Append(working, ToolResult(Head(pending[t])))
      /\ phase[t] \in {"tools", "flush tools"}
  BY DEF ExecuteTool, ExecuteLastTool, Remember, agentHistory
<1>2. pending[t] \in Seq(CallId) /\ pending[t] # <<>>
  <2>1. pending[t] \in Seq(CallId)
    BY <1>0 DEF MemoryInv
  <2>2. Len(pending[t]) > 1 \/ Len(pending[t]) = 1
    BY DEF ExecuteTool, ExecuteLastTool
  <2>3. Len(<<>>) = 0
    OBVIOUS
  <2> QED BY <2>1, <2>2, <2>3
<1>3. pending' = [pending EXCEPT ![t] = Tail(pending[t])]
  <2>1. CASE ExecuteTool(t)
    BY <2>1 DEF ExecuteTool
  <2>2. CASE ExecuteLastTool(t)
    <3>1. Len(pending[t]) = 1
      BY <2>2 DEF ExecuteLastTool
    <3>2. Tail(pending[t]) \in Seq(CallId) /\ Len(Tail(pending[t])) = 0
      BY <1>2, <3>1, HeadTailProperties
    <3>3. Tail(pending[t]) = <<>>
      BY <3>2, EmptySeq
    <3> QED BY <2>2, <3>3 DEF ExecuteLastTool
  <2> QED BY <2>1, <2>2
<1>4. pending'[t] = Tail(pending[t]) /\ \A u \in Turns \ {t} : pending'[u] = pending[u]
  BY <1>0, <1>3 DEF MemoryInv
<1>5. PairsInv' /\ working' \in Seq(Message) /\ pending'[t] \in Seq(CallId)
  BY <1>0, <1>1, <1>2, <1>4, ResultKeepsPairs
<1>6. MemoryInv'
  BY <1>0, <1>1, <1>3, <1>4, <1>5 DEF MemoryInv
<1>7. CASE ExecuteTool(t)
  <2>1. phase' = phase
    BY <1>7 DEF ExecuteTool
  <2>2. PendingPhases'
    BY <1>0, <1>1, <1>4, <2>1 DEF TurnsInv, PendingPhases
  <2>3. TurnsInv'
    BY <1>0, <1>1, <2>1, <2>2 DEF TurnsInv, OneEnd
  <2>4. (AgentInv <=> TurnsInv /\ MemoryInv)'
    BY AgentInvIs, PTL
  <2> QED BY <1>6, <2>3, <2>4
<1>8. CASE ExecuteLastTool(t)
  <2>1. PICK q \in {"closing", "plan", "flush", "model"} : Go(t, q)
    BY <1>8 DEF ExecuteLastTool, AfterFlush
  <2>2. pending'[t] = <<>>
    BY <1>0, <1>8 DEF ExecuteLastTool, MemoryInv
  <2>3. phase'[t] = q /\ \A u \in Turns \ {t} : phase'[u] = phase[u]
    BY <1>0, <2>1 DEF Go, TurnsInv
  <2>4. phase' \in [Turns -> {"idle", "plan", "flush", "flushing", "flush tools", "model",
                          "asking", "nudge", "tools", "closing", "compacting", "ended", "hung",
                          "crashed"}]
    BY <1>0, <2>1 DEF Go, TurnsInv
  <2>5. PendingPhases'
    BY <1>0, <1>4, <2>2, <2>3 DEF TurnsInv, PendingPhases
  <2>6. OneEnd'
    BY <1>0, <1>1, <2>3 DEF TurnsInv, OneEnd
  <2>7. TurnsInv'
    BY <1>0, <1>1, <2>4, <2>5, <2>6 DEF TurnsInv
  <2>8. (AgentInv <=> TurnsInv /\ MemoryInv)'
    BY AgentInvIs, PTL
  <2> QED BY <1>6, <2>7, <2>8
<1> QED BY <1>7, <1>8

\* The end of a turn, and the commands, drop messages.
LEMMA DroppingSteps ==
  ASSUME AgentInv, Reset \/ CompactCommand \/ \E t \in Turns : CompactAndEnd(t)
  PROVE  AgentInv'
<1>0. TurnsInv /\ MemoryInv /\ AgentTypeOK /\ PairsInv /\ working \in Seq(Message)
  BY AgentInvIs DEF AgentInv, MemoryInv
<1>1. \E s, n : CutsAt(s, n) /\ working' = Cut(s, n)
  <2>1. CASE Reset
    <3>1. Len(working) \in Nat
      BY <1>0, LenProperties
    <3>2. CutsAt(0, Len(working))
      BY <3>1 DEF CutsAt
    <3>3. Cut(0, Len(working)) \in Seq(Message) /\ Len(Cut(0, Len(working))) = 0
      BY <1>0, <3>1, <3>2, CutIs
    <3>4. working' = <<>> /\ Cut(0, Len(working)) = <<>>
      BY <2>1, <3>3, EmptySeq DEF Reset, Command
    <3> QED BY <3>2, <3>4
  <2>2. CASE CompactCommand
    BY <1>0, <2>2, CompactCuts DEF CompactCommand, Command
  <2>3. CASE \E t \in Turns : CompactAndEnd(t)
    BY <1>0, <2>3, CompactCuts DEF CompactAndEnd
  <2> QED BY <2>1, <2>2, <2>3
<1>2. /\ dropped' = dropped \union (CallsOf(working) \ CallsOf(working'))
      /\ UNCHANGED <<kind, iterations, usage, pending, finished, total, asked, flushErrors,
           abandoned>>
  BY DEF Reset, CompactCommand, Command, CompactAndEnd, turnVars
<1>3. PairsInv' /\ working' \in Seq(Message)
  BY <1>0, <1>1, <1>2, CutKeepsPairs
<1>4. CallsOf(working) \subseteq CallId
  <2>1. \A i \in DOMAIN working : working[i] \in Message
    BY <1>0, ElementOfSeq, LenProperties
  <2> QED BY <2>1 DEF CallsOf, Message
<1>5. MemoryInv'
  BY <1>0, <1>2, <1>3, <1>4 DEF MemoryInv
<1>6. TurnsInv'
  <2>1. CASE Reset \/ CompactCommand
    <3>1. commands' \in 0..MaxCommands
      <4>1. commands < MaxCommands /\ commands' = commands + 1
        BY <2>1 DEF Reset, CompactCommand, Command
      <4>2. commands \in 0..MaxCommands
        BY <1>0 DEF TurnsInv
      <4> QED BY <4>1, <4>2, AgentConstants
    <3>2. UNCHANGED <<phase, ends>>
      BY <2>1 DEF Reset, CompactCommand, Command, turnVars
    <3> QED BY <1>0, <1>2, <3>1, <3>2 DEF TurnsInv, PendingPhases, OneEnd
  <2>2. ASSUME NEW t \in Turns, CompactAndEnd(t) PROVE TurnsInv'
    <3>1. phase[t] = "compacting" /\ Go(t, "ended") /\ TellEnd(t) /\ UNCHANGED commands
      BY <2>2 DEF CompactAndEnd
    <3>2. OneEnd' /\ ends' \in [Turns -> Nat] /\ flushErrors' \in [Turns -> Nat]
      BY <1>0, <1>2, <3>1, EndIsTold
    <3>3. PendingPhases'
      BY <1>0, <1>2, <3>1 DEF TurnsInv, Go, PendingPhases
    <3>4. phase' \in [Turns -> {"idle", "plan", "flush", "flushing", "flush tools", "model",
                          "asking", "nudge", "tools", "closing", "compacting", "ended", "hung",
                          "crashed"}]
      BY <1>0, <3>1 DEF Go, TurnsInv
    <3> QED BY <1>0, <1>2, <3>1, <3>2, <3>3, <3>4 DEF TurnsInv
  <2> QED BY <2>1, <2>2
<1>7. (AgentInv <=> TurnsInv /\ MemoryInv)'
  BY AgentInvIs, PTL
<1> QED BY <1>5, <1>6, <1>7

LEMMA AgentStep == AgentInv /\ [AgentNext]_agentVars => AgentInv'
<1> SUFFICES ASSUME AgentInv, [AgentNext]_agentVars PROVE AgentInv'
  OBVIOUS
<1>1. CASE AgentNext
  <2>1. ASSUME NEW t \in Turns, Begin(t) \/ TurnStep(t) PROVE AgentInv'
    BY <2>1, PlainSteps, ReplySteps, ToolSteps, DroppingSteps DEF TurnStep
  <2> QED BY <1>1, <2>1, DroppingSteps DEF AgentNext
<1>2. CASE UNCHANGED agentVars
  <2>1. UNCHANGED <<working, kind, phase, iterations, usage, pending, finished, total, commands,
          asked,
                    ends, flushErrors, dropped, abandoned>>
    BY <1>2 DEF agentVars, turnVars, agentHistory
  <2>2. AgentTypeOK' /\ PairsInv'
    BY <2>1, PairsStay DEF AgentInv, AgentTypeOK
  <2> QED BY <2>1, <2>2 DEF AgentInv, PendingPhases, OneEnd
<1> QED BY <1>1, <1>2

LEMMA AgentKeeps ==
  AgentInit /\ [][AgentNext]_agentVars => [](AgentTypeOK /\ CallsMeetResults /\ OneEnd)
<1>1. AgentInv => AgentTypeOK /\ CallsMeetResults /\ OneEnd
  BY DEF AgentInv, PairsInv
<1> QED BY <1>1, AgentBegins, AgentStep, PTL

-----------------------------------------------------------------------------
(* The requests made of the memory *)

Ids     == CallIds \union {"none"}
PartSet == [type : {"text", "tool_use", "tool_result"}, id : Ids]
Roles   == {"user", "system", "assistant", "tool"}
TurnSet == [role : Roles, content : Seq(PartSet)]

\* A sequence and its last element.
LastApart(g, n, S) ==
  /\ [j \in 1..n |-> g[j]] \in Seq(S) /\ g[n + 1] \in S /\ g \in Seq(S)
  /\ g = Append([j \in 1..n |-> g[j]], g[n + 1])

LEMMA SplitLast ==
  ASSUME NEW S, NEW n \in Nat, NEW g \in [1..(n + 1) -> S]
  PROVE  LastApart(g, n, S)
<1> DEFINE s == [j \in 1..n |-> g[j]]
           t == Append(s, g[n + 1])
<1>1. g[n + 1] \in S /\ g \in Seq(S) /\ DOMAIN g = 1..(n + 1)
  <2>1. n + 1 \in Nat /\ n + 1 \in 1..(n + 1)
    OBVIOUS
  <2>2. g \in Seq(S)
    BY <2>1, SeqDef
  <2> QED BY <2>1, <2>2
<1>2. s \in Seq(S) /\ Len(s) = n /\ \A j \in 1..n : s[j] = g[j]
  <2>1. s \in [1..n -> S] /\ DOMAIN s = 1..n /\ \A j \in 1..n : s[j] = g[j]
    OBVIOUS
  <2>2. s \in Seq(S)
    BY <2>1, SeqDef
  <2> HIDE DEF s
  <2> QED BY <2>1, <2>2, LenProperties
<1>3. Len(g) = n + 1
  BY <1>1, LenProperties
<1> HIDE DEF s
<1>4. /\ t \in Seq(S) /\ Len(t) = n + 1 /\ (\A j \in 1..n : t[j] = s[j]) /\ t[n + 1] = g[n + 1]
  BY <1>1, <1>2, AppendProperties
<1> HIDE DEF t
<1>5. \A j \in 1..(n + 1) : j \in 1..n \/ j = n + 1
  OBVIOUS
<1>6. \A j \in 1..Len(g) : g[j] = t[j]
  BY <1>2, <1>3, <1>4, <1>5
<1>7. g = t
  BY <1>1, <1>3, <1>4, <1>6, SeqEqual
<1> QED BY <1>1, <1>2, <1>7 DEF s, t, LastApart

\* The ids of the parts of a type, part after part.
LEMMA IdsOfAppend ==
  ASSUME NEW type, NEW s \in Seq(PartSet), NEW p \in PartSet
  PROVE  /\ IdsOf(type, s) \in Seq(Ids)
         /\ IdsOf(type, Append(s, p)) =
              IdsOf(type, s) \o (IF p.type = type THEN <<p.id>> ELSE <<>>)
<1> DEFINE of(q) == IF q.type = type THEN <<q.id>> ELSE <<>>
           n == Len(s)
           t == Append(s, p)
           g == [i \in DOMAIN t |-> of(t[i])]
<1>1. \A q \in PartSet : of(q) \in Seq(Ids)
  BY DEF PartSet
<1>2. /\ n \in Nat /\ DOMAIN s = 1..n /\ t \in Seq(PartSet) /\ Len(t) = n + 1
      /\ (\A i \in 1..n : t[i] = s[i]) /\ t[n + 1] = p /\ DOMAIN t = 1..(n + 1)
      /\ \A i \in 1..(n + 1) : t[i] \in PartSet
  <2>1. t \in Seq(PartSet) /\ Len(t) = n + 1
        /\ (\A i \in 1..n : t[i] = s[i]) /\ t[n + 1] = p
    BY AppendProperties
  <2>2. n \in Nat /\ DOMAIN s = 1..n
    BY LenProperties
  <2> HIDE DEF t, n
  <2> QED BY <2>1, <2>2, LenProperties, ElementOfSeq
<1> HIDE DEF t, n, of
<1>3. g \in [1..(n + 1) -> Seq(Ids)]
  BY <1>1, <1>2
<1>4. [i \in 1..n |-> g[i]] \in Seq(Seq(Ids)) /\ g[n + 1] \in Seq(Ids)
      /\ g = Append([i \in 1..n |-> g[i]], g[n + 1])
  <2> HIDE DEF g
  <2>1. LastApart(g, n, Seq(Ids))
    BY <1>2, <1>3, SplitLast
  <2> QED BY <2>1 DEF LastApart
<1>5. \A i \in 1..(n + 1) : g[i] = of(t[i])
  BY <1>2
<1>6. n + 1 \in 1..(n + 1) /\ \A i \in 1..n : i \in 1..(n + 1)
  BY <1>2
<1>7. [i \in 1..n |-> g[i]] = [i \in DOMAIN s |-> of(s[i])]
  <2> HIDE DEF g
  <2> QED BY <1>2, <1>5, <1>6
<1>8. g[n + 1] = of(p)
  <2> HIDE DEF g
  <2> QED BY <1>2, <1>5, <1>6
<1>9. FlattenSeq(g) = FlattenSeq([i \in DOMAIN s |-> of(s[i])]) \o of(p)
      /\ FlattenSeq([i \in DOMAIN s |-> of(s[i])]) \in Seq(Ids)
  <2> HIDE DEF g
  <2> QED BY <1>4, <1>7, <1>8, FlattenAppend, FlattenType
<1>10. IdsOf(type, s) = FlattenSeq([i \in DOMAIN s |-> of(s[i])])
  BY DEF IdsOf, of
<1>11. IdsOf(type, t) = FlattenSeq(g)
  BY DEF IdsOf, of
<1> QED BY <1>9, <1>10, <1>11 DEF of, t

LEMMA IdsOfEmpty ==
  ASSUME NEW type PROVE IdsOf(type, <<>>) = <<>>
<1>1. [i \in DOMAIN <<>> |-> IF <<>>[i].type = type THEN <<<<>>[i].id>> ELSE <<>>] = <<>>
  OBVIOUS
<1> QED BY <1>1, FlattenEmpty DEF IdsOf

LEMMA IdsOfConcat ==
  ASSUME NEW type, NEW s \in Seq(PartSet), NEW t \in Seq(PartSet)
  PROVE  /\ IdsOf(type, s) \in Seq(Ids)
         /\ IdsOf(type, s \o t) = IdsOf(type, s) \o IdsOf(type, t)
<1> DEFINE T == {u \in Seq(PartSet) : /\ IdsOf(type, u) \in Seq(Ids)
                                      /\ IdsOf(type, s \o u) = IdsOf(type, s) \o IdsOf(type, u)}
<1>0. \A u \in Seq(PartSet) : IdsOf(type, u) \in Seq(Ids)
  <2>1. <<>> \in Seq(Ids)
    BY EmptySeq
  <2>2. PICK p : p \in PartSet \/ PartSet = {}
    OBVIOUS
  <2>3. TextPart \in PartSet
    BY DEF TextPart, Part, PartSet, Ids
  <2> QED BY <2>3, IdsOfAppend
<1>1. <<>> \in T
  <2>1. s \o <<>> = s /\ IdsOf(type, s) \o <<>> = IdsOf(type, s)
    BY <1>0, ConcatEmptySeq
  <2>2. <<>> \in Seq(PartSet) /\ <<>> \in Seq(Ids)
    BY EmptySeq
  <2> QED BY <2>1, <2>2, IdsOfEmpty
<1>2. ASSUME NEW u \in Seq(PartSet), NEW p \in PartSet, u \in T PROVE Append(u, p) \in T
  <2> DEFINE x == IF p.type = type THEN <<p.id>> ELSE <<>>
  <2>1. x \in Seq(Ids)
    BY DEF PartSet
  <2>2. Append(u, p) \in Seq(PartSet) /\ s \o u \in Seq(PartSet)
    BY AppendProperties, ConcatProperties
  <2>3. s \o Append(u, p) = Append(s \o u, p)
    BY <2>2, AppendIsConcat, ConcatAssociative, EmptySeq, AppendProperties
  <2>4. IdsOf(type, Append(u, p)) = IdsOf(type, u) \o x
    BY IdsOfAppend
  <2>5. IdsOf(type, Append(s \o u, p)) = IdsOf(type, s \o u) \o x
    BY <2>2, IdsOfAppend
  <2>6. IdsOf(type, s \o u) = IdsOf(type, s) \o IdsOf(type, u)
    BY <1>2
  <2> HIDE DEF x
  <2>7. (IdsOf(type, s) \o IdsOf(type, u)) \o x = IdsOf(type, s) \o (IdsOf(type, u) \o x)
    BY <1>0, <2>1, ConcatAssociative
  <2>8. IdsOf(type, s \o Append(u, p)) = IdsOf(type, s) \o IdsOf(type, Append(u, p))
    BY <2>3, <2>4, <2>5, <2>6, <2>7
  <2> QED BY <1>0, <2>2, <2>8
<1>3. Seq(PartSet) \subseteq T
  <2> HIDE DEF T
  <2> QED BY <1>1, <1>2, SequencesInSet
<1> QED BY <1>0, <1>3

\* Of a type that no part has there are none.
LEMMA IdsOfNone ==
  ASSUME NEW type
  PROVE  \A s \in Seq(PartSet) : (\A i \in DOMAIN s : s[i].type # type) => IdsOf(type, s) = <<>>
<1> DEFINE T == {s \in Seq(PartSet) : (\A i \in DOMAIN s : s[i].type # type)
                  => IdsOf(type, s) = <<>>}
<1>1. <<>> \in T
  BY EmptySeq, IdsOfEmpty
<1>2. ASSUME NEW s \in Seq(PartSet), NEW p \in PartSet, s \in T PROVE Append(s, p) \in T
  <2> DEFINE t == Append(s, p)
             n == Len(s)
  <2>1. /\ n \in Nat /\ DOMAIN s = 1..n /\ t \in Seq(PartSet) /\ Len(t) = n + 1
        /\ (\A i \in 1..n : t[i] = s[i]) /\ t[n + 1] = p /\ DOMAIN t = 1..(n + 1)
    <3>1. t \in Seq(PartSet) /\ Len(t) = n + 1
          /\ (\A i \in 1..n : t[i] = s[i]) /\ t[n + 1] = p
      BY AppendProperties
    <3>2. n \in Nat /\ DOMAIN s = 1..n
      BY LenProperties
    <3> HIDE DEF t, n
    <3> QED BY <3>1, <3>2, LenProperties
  <2>2. IdsOf(type, t) = IdsOf(type, s) \o (IF p.type = type THEN <<p.id>> ELSE <<>>)
    BY IdsOfAppend
  <2> HIDE DEF t, n
  <2>3. ASSUME \A i \in DOMAIN t : t[i].type # type PROVE IdsOf(type, t) = <<>>
    <3>1. p.type # type
      <4>1. n + 1 \in 1..(n + 1)
        BY <2>1
      <4> QED BY <2>1, <2>3, <4>1
    <3>2. \A i \in DOMAIN s : s[i].type # type
      <4>1. \A i \in 1..n : i \in 1..(n + 1)
        BY <2>1
      <4> QED BY <2>1, <2>3, <4>1
    <3>3. IdsOf(type, s) = <<>>
      BY <1>2, <3>2
    <3>4. <<>> \o <<>> = <<>>
      OBVIOUS
    <3> QED BY <2>2, <3>1, <3>3, <3>4
  <2> QED BY <2>1, <2>3 DEF t
<1>3. Seq(PartSet) \subseteq T
  <2> HIDE DEF T
  <2> QED BY <1>1, <1>2, SequencesInSet
<1> QED BY <1>3

\* What a message of the memory asks and tells.
MessageIs(m) ==
  /\ m.role \in Roles /\ m.parts \in Seq(PartSet)
  /\ \A i \in DOMAIN m.parts : m.parts[i].type # "text"
  /\ m.role = "tool" => \E id \in CallIds : IdsOf("tool_result", m.parts) = <<id>>
  /\ m.role = "tool" => IdsOf("tool_use", m.parts) = <<>>
  /\ m.role # "tool" => IdsOf("tool_result", m.parts) = <<>>
  /\ IdsOf("tool_use", m.parts) # <<>> => m.role = "assistant"

LEMMA MessagesAre ==
  \A m \in MemoryMessages : MessageIs(m)
<1> SUFFICES ASSUME NEW m \in MemoryMessages PROVE MessageIs(m)
  OBVIOUS
<1>0. \A type, id : Part(type, id).type = type /\ Part(type, id).id = id
  BY DEF Part
<1>1. \A c \in CallIds : Part("tool_use", c) \in PartSet /\ Part("tool_result", c) \in PartSet
  BY DEF Part, PartSet, Ids
<1>2. ASSUME NEW role \in {"user", "system", "assistant"}, m = Says(role) PROVE MessageIs(m)
  <2>1. m.role = role /\ m.parts = <<>>
    BY <1>2 DEF Says
  <2>2. <<>> \in Seq(PartSet) /\ DOMAIN <<>> = {}
    OBVIOUS
  <2>3. \A type : IdsOf(type, m.parts) = <<>>
    BY <2>1, IdsOfEmpty
  <2> QED BY <2>1, <2>2, <2>3 DEF MessageIs, Roles
<1>3. ASSUME NEW id \in CallIds, m = Answers(id) PROVE MessageIs(m)
  <2> DEFINE p == Part("tool_result", id)
  <2>1. m.role = "tool" /\ m.parts = <<p>>
    BY <1>3 DEF Answers
  <2>2. p \in PartSet /\ p.type = "tool_result" /\ p.id = id
    BY <1>0, <1>1
  <2> HIDE DEF p
  <2>3. <<>> \in Seq(PartSet) /\ Append(<<>>, p) = <<p>> /\ <<p>> \in Seq(PartSet)
        /\ DOMAIN <<p>> = {1} /\ <<p>>[1] = p
    BY <2>2
  <2>4. \A type : IdsOf(type, <<p>>) = IdsOf(type, <<>>)
          \o (IF p.type = type THEN <<p.id>> ELSE <<>>)
    <3> TAKE type
    <3>1. IdsOf(type, Append(<<>>, p)) = IdsOf(type, <<>>)
            \o (IF p.type = type THEN <<p.id>> ELSE <<>>)
      BY <2>2, <2>3, IdsOfAppend
    <3> QED BY <2>3, <3>1
  <2>5. <<>> \o <<id>> = <<id>> /\ <<>> \o <<>> = <<>>
    OBVIOUS
  <2>6. IdsOf("tool_result", m.parts) = <<id>> /\ IdsOf("tool_use", m.parts) = <<>>
    <3>1. IdsOf("tool_result", <<p>>) = <<>> \o <<id>>
      BY <2>2, <2>4, IdsOfEmpty
    <3>2. IdsOf("tool_use", <<p>>) = <<>> \o <<>>
      BY <2>2, <2>4, IdsOfEmpty
    <3> QED BY <2>1, <2>5, <3>1, <3>2
  <2> QED BY <2>1, <2>2, <2>3, <2>6 DEF MessageIs, Roles
<1>4. ASSUME NEW calls \in {<<c>> : c \in CallIds} \union {<<c, d>> : c \in CallIds, d \in CallIds},
             m = AsksFor(calls)
      PROVE  MessageIs(m)
  <2>1. calls \in Seq(CallIds)
    <3>1. \A c \in CallIds : <<c>> \in Seq(CallIds)
      OBVIOUS
    <3>2. \A c, d \in CallIds : <<c, d>> \in Seq(CallIds)
      OBVIOUS
    <3>3. \/ \E c \in CallIds : calls = <<c>>
          \/ \E c, d \in CallIds : calls = <<c, d>>
      BY <1>4
    <3>4. CASE \E c \in CallIds : calls = <<c>>
      <4>1. PICK c \in CallIds : calls = <<c>>
        BY <3>4
      <4>2. <<c>> \in Seq(CallIds)
        BY <3>1
      <4> QED BY ONLY <4>1, <4>2
    <3>5. CASE \E c, d \in CallIds : calls = <<c, d>>
      <4>1. PICK c, d \in CallIds : calls = <<c, d>>
        BY <3>5
      <4>2. <<c, d>> \in Seq(CallIds)
        BY <3>2
      <4> QED BY ONLY <4>1, <4>2
    <3> QED BY ONLY <3>3, <3>4, <3>5
  <2>2. m.role = "assistant" /\ m.parts = [i \in DOMAIN calls |-> Part("tool_use", calls[i])]
    BY <1>4 DEF AsksFor
  <2>3. DOMAIN calls = 1..Len(calls) /\ Len(calls) \in Nat
          /\ \A i \in DOMAIN calls : calls[i] \in CallIds
    BY <2>1, LenProperties, ElementOfSeq
  <2>4. m.parts \in [1..Len(calls) -> PartSet]
          /\ \A i \in DOMAIN m.parts : m.parts[i].type = "tool_use"
    BY <1>0, <1>1, <2>2, <2>3
  <2>5. m.parts \in Seq(PartSet)
    BY <2>3, <2>4, SeqDef
  <2>6. IdsOf("tool_result", m.parts) = <<>>
    BY <2>4, <2>5, IdsOfNone
  <2> QED BY <2>2, <2>4, <2>5, <2>6 DEF MessageIs, Roles
<1> QED BY <1>2, <1>3, <1>4 DEF MemoryMessages

\* A message for the provider has its text first.
ConvertedIs(m, t) ==
  /\ t \in TurnSet /\ t.role = m.role /\ t.content # <<>>
  /\ IdsOf("tool_use", t.content) = IdsOf("tool_use", m.parts)
  /\ IdsOf("tool_result", t.content) = IdsOf("tool_result", m.parts)
  /\ HasText(t.content) /\ ~OnlyToolResults(t.content) /\ t.content[1].type # "tool_result"

LEMMA ConvertedAre ==
  \A m \in MemoryMessages : ConvertedIs(m, Converted(m))
<1> SUFFICES ASSUME NEW m \in MemoryMessages PROVE ConvertedIs(m, Converted(m))
  OBVIOUS
<1> DEFINE t == Converted(m)
<1>1. t.role = m.role /\ t.content = <<TextPart>> \o m.parts
  BY DEF Converted
<1>2. m.role \in Roles /\ m.parts \in Seq(PartSet)
  BY MessagesAre DEF MessageIs
<1>3. TextPart \in PartSet /\ TextPart.type = "text"
  BY DEF TextPart, Part, PartSet, Ids
<1>4. <<TextPart>> \in Seq(PartSet) /\ Len(<<TextPart>>) = 1 /\ <<TextPart>>[1] = TextPart
      /\ DOMAIN <<TextPart>> = {1}
  BY <1>3
<1>5. /\ t.content \in Seq(PartSet) /\ Len(t.content) = 1 + Len(m.parts) /\ t.content[1] = TextPart
      /\ 1 \in DOMAIN t.content /\ t.content # <<>>
  <2> DEFINE c == <<TextPart>> \o m.parts
  <2>1. Len(m.parts) \in Nat
    BY <1>2, LenProperties
  <2>2. /\ c \in Seq(PartSet) /\ Len(c) = 1 + Len(m.parts)
        /\ \A i \in 1..(1 + Len(m.parts)) : c[i] = IF i <= 1
             THEN <<TextPart>>[i] ELSE m.parts[i - 1]
    BY <1>2, <1>4, ConcatProperties
  <2> HIDE DEF c
  <2>3. 1 \in 1..(1 + Len(m.parts)) /\ DOMAIN c = 1..(1 + Len(m.parts))
    BY <2>1, <2>2, LenProperties
  <2>4. c[1] = TextPart /\ c # <<>>
    <3>1. DOMAIN <<>> = {}
      OBVIOUS
    <3> QED BY <1>4, <2>2, <2>3, <3>1
  <2>5. t.content = c
    BY <1>1 DEF c
  <2> HIDE DEF t
  <2> QED BY <2>2, <2>3, <2>4, <2>5
<1>6. t \in TurnSet
  <2>1. t = [role |-> m.role, content |-> t.content]
    BY DEF Converted
  <2> HIDE DEF t
  <2> QED BY <1>2, <1>5, <2>1 DEF TurnSet
<1>7. ASSUME NEW type, type # "text" PROVE IdsOf(type, t.content) = IdsOf(type, m.parts)
  <2>1. IdsOf(type, <<TextPart>>) = <<>>
    BY <1>3, <1>4, <1>7, IdsOfNone
  <2>2. IdsOf(type, <<TextPart>> \o m.parts) = IdsOf(type, <<TextPart>>) \o IdsOf(type, m.parts)
    BY <1>2, <1>4, IdsOfConcat
  <2>3. IdsOf(type, m.parts) \in Seq(Ids)
    BY <1>2, IdsOfConcat
  <2>4. <<>> \o IdsOf(type, m.parts) = IdsOf(type, m.parts)
    BY <2>3, ConcatEmptySeq
  <2> QED BY <1>1, <2>1, <2>2, <2>4
<1>8. HasText(t.content) /\ ~OnlyToolResults(t.content) /\ t.content[1].type # "tool_result"
  BY <1>3, <1>5 DEF HasText, OnlyToolResults, ToSet
<1> HIDE DEF t
<1> QED BY <1>1, <1>5, <1>6, <1>7, <1>8 DEF ConvertedIs, t

-----------------------------------------------------------------------------
(* The merge *)

MergeStates == [out : Seq(TurnSet), mode : {"none", "asked", "results", "batch"}]

CallsIn(t)   == IdsOf("tool_use", t.content)
AnswersIn(t) == IdsOf("tool_result", t.content)

\* The states of the merge, from before the first message to after the last.
Merges(f, msgs) ==
  /\ f \in [0..Len(msgs) -> MergeStates]
  /\ f[0] = [out |-> <<>>, mode |-> "none"]
  /\ \A n \in 1..Len(msgs) : f[n] = MergeStep(f[n - 1], msgs[n])

LEMMA MergeStepType ==
  ASSUME NEW acc \in MergeStates, NEW m \in TurnSet PROVE MergeStep(acc, m) \in MergeStates
<1> DEFINE n == Len(acc.out)
           asUser == [role |-> "user", content |-> m.content]
           longer == [acc.out EXCEPT ![n].content = @ \o m.content]
<1>1. acc.out \in Seq(TurnSet) /\ acc.mode \in {"none", "asked", "results", "batch"}
      /\ acc = [out |-> acc.out, mode |-> acc.mode]
  BY DEF MergeStates
<1>2. m.content \in Seq(PartSet)
  BY DEF TurnSet
<1>3. asUser \in TurnSet
  BY <1>2 DEF TurnSet, Roles
<1>4. Append(acc.out, m) \in Seq(TurnSet) /\ Append(acc.out, asUser) \in Seq(TurnSet)
  BY <1>1, <1>3, AppendProperties
<1>5. longer \in Seq(TurnSet)
  <2>1. DOMAIN acc.out = 1..n /\ n \in Nat
    BY <1>1, LenProperties
  <2>2. ASSUME NEW i \in DOMAIN acc.out PROVE longer[i] \in TurnSet
    <3>1. acc.out[i] \in TurnSet
      BY <1>1, <2>2, ElementOfSeq, <2>1
    <3>2. acc.out[i].content \in Seq(PartSet)
      BY <3>1 DEF TurnSet
    <3>3. acc.out[i].content \o m.content \in Seq(PartSet)
      BY <1>2, <3>2, ConcatProperties
    <3>4. [acc.out[i] EXCEPT !.content = @ \o m.content] \in TurnSet
      BY <3>1, <3>3 DEF TurnSet
    <3>5. longer[i] = IF i = n THEN [acc.out[i] EXCEPT !.content = @ \o m.content] ELSE acc.out[i]
      OBVIOUS
    <3> HIDE DEF longer
    <3> QED BY <3>1, <3>4, <3>5
  <2>3. DOMAIN longer = 1..n /\ longer = [i \in DOMAIN longer |-> longer[i]]
    BY <2>1
  <2> HIDE DEF longer
  <2>4. longer \in [1..n -> TurnSet]
    BY <2>1, <2>2, <2>3
  <2> QED BY <2>1, <2>4, SeqDef
<1>6. [acc EXCEPT !.out[n].content = @ \o m.content] = [out |-> longer, mode |-> acc.mode]
  <2>1. \A x \in MergeStates : \A y : [x EXCEPT !.out = y] = [out |-> y, mode |-> x.mode]
    BY DEF MergeStates
  <2>2. [acc EXCEPT !.out = longer] = [out |-> longer, mode |-> acc.mode]
    BY <2>1
  <2> QED BY <2>2
<1>7. \A out \in Seq(TurnSet), mode \in {"none", "asked", "results", "batch"} :
        [out |-> out, mode |-> mode] \in MergeStates
  BY DEF MergeStates
<1> DEFINE joins == \/ acc.mode = "batch"
                    \/ acc.mode = "results" /\ OnlyToolResults(m.content)
           toBatch == IF acc.mode = "asked"
                        /\ OnlyToolResults(m.content) THEN "results" ELSE "batch"
           toNone == IF m.role = "assistant" /\ CallsIn(m) # <<>> THEN "asked" ELSE "none"
<1>8. MergeStep(acc, m) = IF m.role # "tool" THEN [out |-> Append(acc.out, m), mode |-> toNone]
                          ELSE IF joins THEN [out |-> longer, mode |-> acc.mode]
                          ELSE [out |-> Append(acc.out, asUser), mode |-> toBatch]
  BY <1>6 DEF MergeStep, CallsIn
<1>9. toBatch \in {"none", "asked", "results", "batch"}
        /\ toNone \in {"none", "asked", "results", "batch"}
  OBVIOUS
<1> HIDE DEF longer, asUser, joins, toBatch, toNone, n
<1> QED BY <1>1, <1>4, <1>5, <1>7, <1>8, <1>9

LEMMA MergedIs ==
  ASSUME NEW msgs \in Seq(TurnSet)
  PROVE  \E f : Merges(f, msgs) /\ Merged(msgs) = f[Len(msgs)].out
<1> DEFINE base == [out |-> <<>>, mode |-> "none"]
           L == Len(msgs)
           step == [x \in Nat \X MergeStates |->
                      IF x[1] < L THEN MergeStep(x[2], msgs[x[1] + 1]) ELSE x[2]]
<1>0. L \in Nat
  BY LenProperties
<1>1. base \in MergeStates
  BY EmptySeq DEF MergeStates
<1>2. ASSUME NEW n \in Nat, NEW v \in MergeStates
      PROVE  /\ step[<<n, v>>] = IF n < L THEN MergeStep(v, msgs[n + 1]) ELSE v
             /\ step[<<n, v>>] \in MergeStates
  <2>1. <<n, v>> \in Nat \X MergeStates
    OBVIOUS
  <2>2. step[<<n, v>>] = IF n < L THEN MergeStep(v, msgs[n + 1]) ELSE v
    BY <2>1
  <2>3. n < L => msgs[n + 1] \in TurnSet
    <3>1. n < L => n + 1 \in 1..Len(msgs)
      BY <1>0
    <3> QED BY <3>1, ElementOfSeq
  <2> HIDE DEF step
  <2> QED BY <2>2, <2>3, MergeStepType
<1> HIDE DEF step, L, base
<1>3. \A n \in Nat, v \in MergeStates : step[<<n, v>>] \in MergeStates
  BY <1>2
<1>4. PICK g : Recursion(g, MergeStates, base, step)
  BY <1>1, <1>3, RecursionExists
<1>5. \A n \in Nat : g[n] \in MergeStates /\ g[0] = base /\ g[n + 1] = step[<<n, g[n]>>]
  BY <1>4 DEF Recursion
<1> DEFINE f == [n \in 0..L |-> g[n]]
<1>6. ASSUME NEW n \in 1..L PROVE g[n] = MergeStep(g[n - 1], msgs[n])
  <2>1. n - 1 \in Nat /\ n - 1 + 1 = n /\ n - 1 < L
    BY <1>0
  <2>2. PICK k \in Nat : k = n - 1
    BY <2>1
  <2>3. g[k + 1] = step[<<k, g[k]>>] /\ g[k] \in MergeStates /\ k + 1 = n /\ k < L
    BY <1>5, <2>1, <2>2
  <2>4. step[<<k, g[k]>>] = MergeStep(g[k], msgs[k + 1])
    BY <1>2, <2>3
  <2> QED BY <2>2, <2>3, <2>4
<1>7. f = [n \in 0..L |-> IF n = 0 THEN base ELSE MergeStep(f[n - 1], msgs[n])]
  <2>1. ASSUME NEW n \in 0..L PROVE f[n] = IF n = 0 THEN base ELSE MergeStep(f[n - 1], msgs[n])
    <3>1. CASE n = 0
      <4>1. f[n] = g[n]
        OBVIOUS
      <4> HIDE DEF f
      <4> QED BY <1>5, <3>1, <4>1
    <3>2. CASE n # 0
      <4>1. n \in 1..L /\ n - 1 \in 0..L
        BY <1>0, <3>2
      <4>2. f[n - 1] = g[n - 1] /\ f[n] = g[n]
        BY <4>1
      <4> HIDE DEF f
      <4> QED BY <1>6, <3>2, <4>1, <4>2
    <3> QED BY <3>1, <3>2
  <2>2. DOMAIN f = 0..L /\ f = [n \in DOMAIN f |-> f[n]]
    OBVIOUS
  <2> HIDE DEF f
  <2> QED BY <2>1, <2>2
<1> DEFINE u == CHOOSE h : h = [n \in 0..L |-> IF n = 0 THEN base ELSE MergeStep(h[n - 1], msgs[n])]
<1>8. u = [n \in 0..L |-> IF n = 0 THEN base ELSE MergeStep(u[n - 1], msgs[n])]
  <2> HIDE DEF f
  <2> QED BY <1>7
<1>9. Merged(msgs) = u[L].out
  BY DEF Merged, u, L, base
<1> HIDE DEF u, f
<1>10. u[0] = base /\ \A n \in 1..L : u[n] = MergeStep(u[n - 1], msgs[n])
  <2>1. \A n \in 0..L : u[n] = IF n = 0 THEN base ELSE MergeStep(u[n - 1], msgs[n])
    BY <1>8, Zenon
  <2>2. 0 \in 0..L /\ \A n \in 1..L : n \in 0..L /\ n # 0
    BY <1>0
  <2> QED BY <2>1, <2>2
<1>11. \A n \in Nat : n \in 0..L => u[n] = g[n]
  <2> DEFINE N == {n \in Nat : n \in 0..L => u[n] = g[n]}
  <2>1. 0 \in N
    BY <1>5, <1>10
  <2>2. ASSUME NEW n \in Nat, n \in N PROVE n + 1 \in N
    <3>1. n + 1 \in 0..L => n \in 0..L /\ n + 1 \in 1..L /\ n + 1 - 1 = n
      BY <1>0
    <3>2. PICK k : k = n + 1
      OBVIOUS
    <3>3. k \in 1..L => u[k] = MergeStep(u[k - 1], msgs[k]) /\ g[k] = MergeStep(g[k - 1], msgs[k])
      BY <1>6, <1>10
    <3> QED BY <2>2, <3>1, <3>2, <3>3
  <2>3. Nat \subseteq N
    <3> HIDE DEF N
    <3> QED BY <2>1, <2>2, SetInduction
  <2> QED BY <2>3
<1>12. u \in [0..L -> MergeStates]
  <2>1. \A n \in 0..L : n \in Nat /\ g[n] \in MergeStates
    <3>1. \A n \in 0..L : n \in Nat
      BY <1>0
    <3>2. \A n \in Nat : g[n] \in MergeStates
      BY <1>5
    <3> QED BY ONLY <3>1, <3>2
  <2>2. DOMAIN u = 0..L /\ u = [n \in DOMAIN u |-> u[n]]
    BY <1>8, Zenon
  <2> QED BY <1>11, <2>1, <2>2
<1>13. Merges(u, msgs)
  BY <1>10, <1>12 DEF Merges, L, base
<1> QED BY <1>9, <1>13 DEF L

-----------------------------------------------------------------------------
(* What the merge is told of *)

WholeHistory == history \in Seq(MemoryMessages)

\* Every message after i and up to n is a result.
Open(i, n) == \A k \in 1..(n - i) : history[i + k].role = "tool"

\* The results that follow message i directly, of those up to n.
ToldTo(i, n) ==
  FlattenSeq([j \in 1..(n - i) |->
    IF \A k \in 1..j : history[i + k].role = "tool" THEN AnswersAt(i + j) ELSE <<>>])

\* All the results up to n.
ToldUpTo(n) == FlattenSeq([i \in 1..n |-> AnswersAt(i)])

LEMMA HistoryIs ==
  ASSUME WholeHistory
  PROVE  \A i \in 1..Len(history) :
           history[i] \in MemoryMessages /\ MessageIs(history[i]) /\ AnswersAt(i) \in Seq(Ids)
<1> SUFFICES ASSUME NEW i \in 1..Len(history)
             PROVE  history[i] \in MemoryMessages /\ MessageIs(history[i])
                      /\ AnswersAt(i) \in Seq(Ids)
  OBVIOUS
<1>1. history[i] \in MemoryMessages
  BY ElementOfSeq DEF WholeHistory
<1>2. MessageIs(history[i])
  BY <1>1, MessagesAre
<1>3. history[i].parts \in Seq(PartSet)
  BY <1>2 DEF MessageIs
<1>4. <<>> \in Seq(PartSet)
  BY EmptySeq
<1>5. AnswersAt(i) \in Seq(Ids)
  BY <1>3, <1>4, IdsOfConcat DEF AnswersAt
<1> QED BY <1>1, <1>2, <1>5

LEMMA OpenGoesOn ==
  ASSUME NEW n \in Nat, NEW i \in 1..n
  PROVE  /\ Open(i, n + 1) <=> Open(i, n) /\ history[n + 1].role = "tool"
         /\ i < n /\ Open(i, n) => history[n].role = "tool"
         /\ Open(i, i) /\ Open(n + 1, n + 1)
<1>1. i \in Nat /\ n - i \in Nat /\ i <= n
  OBVIOUS
<1>2. PICK d \in Nat : d = n - i
  BY <1>1
<1>3. n + 1 - i = d + 1 /\ i + (d + 1) = n + 1 /\ i + d = n
  BY <1>1, <1>2
<1>4. \A k : k \in 1..(d + 1) <=> k \in 1..d \/ k = d + 1
  OBVIOUS
<1>5. PICK e : e = n + 1
  OBVIOUS
<1>6. Open(i, e) <=> Open(i, n) /\ history[e].role = "tool"
  <2>1. Open(i, e) <=> \A k \in 1..(d + 1) : history[i + k].role = "tool"
    <3>1. e - i = d + 1
      BY <1>1, <1>2, <1>5
    <3> QED BY <3>1 DEF Open
  <2>2. Open(i, n) <=> \A k \in 1..d : history[i + k].role = "tool"
    BY <1>2 DEF Open
  <2>3. (\A k \in 1..(d + 1) : history[i + k].role = "tool") <=>
          (\A k \in 1..d : history[i + k].role = "tool") /\ history[i + (d + 1)].role = "tool"
    BY ONLY <1>4
  <2> QED BY <1>3, <1>5, <2>1, <2>2, <2>3
<1>7. i < n /\ Open(i, n) => history[n].role = "tool"
  <2>1. i < n => d \in 1..d
    BY <1>1, <1>2
  <2>2. Open(i, n) <=> \A k \in 1..d : history[i + k].role = "tool"
    BY <1>2 DEF Open
  <2> QED BY <1>3, <2>1, <2>2
<1>8. \A x \in Nat : 1..(x - x) = {}
  OBVIOUS
<1>9. n + 1 \in Nat /\ i \in Nat
  BY <1>1
<1>10. Open(i, i) /\ Open(n + 1, n + 1)
  <2>1. ASSUME NEW x \in Nat PROVE Open(x, x)
    BY <1>8 DEF Open
  <2> QED BY <1>9, <2>1
<1> QED BY <1>5, <1>6, <1>7, <1>10

LEMMA NothingTold ==
  \A i \in Nat : ToldTo(i, i) = <<>> /\ ToldUpTo(0) = <<>>
<1> SUFFICES ASSUME NEW i \in Nat PROVE ToldTo(i, i) = <<>> /\ ToldUpTo(0) = <<>>
  OBVIOUS
<1>1. i - i = 0
  OBVIOUS
<1>2. [j \in 1..0 |-> IF \A k \in 1..j : history[i + k].role = "tool"
                      THEN AnswersAt(i + j) ELSE <<>>] = <<>>
  OBVIOUS
<1>3. [j \in 1..0 |-> AnswersAt(j)] = <<>>
  OBVIOUS
<1> QED BY <1>1, <1>2, <1>3, FlattenEmpty DEF ToldTo, ToldUpTo

LEMMA ToldStep ==
  ASSUME WholeHistory, NEW n \in Nat, n < Len(history), NEW i \in 1..n
  PROVE  /\ ToldTo(i, n) \in Seq(Ids)
         /\ ToldTo(i, n + 1) =
              ToldTo(i, n) \o (IF Open(i, n + 1) THEN AnswersAt(n + 1) ELSE <<>>)
<1>0. i \in Nat /\ n - i \in Nat /\ i <= n /\ Len(history) \in Nat
  BY LenProperties DEF WholeHistory
<1>1. PICK d \in Nat : d = n - i
  BY <1>0
<1>2. n + 1 - i = d + 1 /\ i + (d + 1) = n + 1 /\ i + d = n
  BY <1>0, <1>1
<1>3. PICK e : e = n + 1
  OBVIOUS
<1> DEFINE of(j) == IF \A k \in 1..j : history[i + k].role = "tool" THEN AnswersAt(i + j) ELSE <<>>
           g == [j \in 1..(d + 1) |-> of(j)]
<1>4. \A j \in 1..(d + 1) : of(j) \in Seq(Ids)
  <2>1. ASSUME NEW j \in 1..(d + 1) PROVE AnswersAt(i + j) \in Seq(Ids)
    <3>1. i + j \in 1..Len(history)
      BY <1>0, <1>2
    <3> QED BY <3>1, HistoryIs
  <2>2. <<>> \in Seq(Ids)
    BY EmptySeq
  <2> QED BY <2>1, <2>2
<1>5. g \in [1..(d + 1) -> Seq(Ids)] /\ (\A j \in 1..(d + 1) : g[j] = of(j))
  <2> HIDE DEF of
  <2> QED BY <1>4
<1>6. d + 1 \in 1..(d + 1) /\ \A j \in 1..d : j \in 1..(d + 1)
  OBVIOUS
<1>7. [j \in 1..d |-> g[j]] = [j \in 1..d |-> of(j)] /\ g[d + 1] = of(d + 1)
  <2> HIDE DEF g, of
  <2> QED BY <1>5, <1>6
<1>8. LastApart(g, d, Seq(Ids))
  <2> HIDE DEF g
  <2> QED BY <1>5, SplitLast
<1>9. FlattenSeq(g) = FlattenSeq([j \in 1..d |-> of(j)]) \o of(d + 1)
      /\ FlattenSeq([j \in 1..d |-> of(j)]) \in Seq(Ids)
  <2> HIDE DEF g, of
  <2> QED BY <1>7, <1>8, FlattenAppend, FlattenType DEF LastApart
<1>10. ToldTo(i, n) = FlattenSeq([j \in 1..d |-> of(j)])
  BY <1>1 DEF ToldTo
<1>11. ToldTo(i, e) = FlattenSeq(g)
  <2>1. e - i = d + 1
    BY <1>0, <1>1, <1>3
  <2> QED BY <2>1 DEF ToldTo
<1>12. of(d + 1) = IF Open(i, e) THEN AnswersAt(e) ELSE <<>>
  <2>1. Open(i, e) <=> \A k \in 1..(d + 1) : history[i + k].role = "tool"
    <3>1. e - i = d + 1
      BY <1>0, <1>1, <1>3
    <3> QED BY <3>1 DEF Open
  <2>2. AnswersAt(i + (d + 1)) = AnswersAt(e)
    BY <1>2, <1>3
  <2> QED BY <2>1, <2>2
<1> HIDE DEF of, g
<1> QED BY <1>3, <1>9, <1>10, <1>11, <1>12

LEMMA ToldUpToStep ==
  ASSUME WholeHistory, NEW n \in Nat, n < Len(history)
  PROVE  ToldUpTo(n) \in Seq(Ids) /\ ToldUpTo(n + 1) = ToldUpTo(n) \o AnswersAt(n + 1)
<1> DEFINE g == [i \in 1..(n + 1) |-> AnswersAt(i)]
<1>1. Len(history) \in Nat
  BY LenProperties DEF WholeHistory
<1>2. \A i \in 1..(n + 1) : AnswersAt(i) \in Seq(Ids)
  <2>1. \A i \in 1..(n + 1) : i \in 1..Len(history)
    BY <1>1
  <2> QED BY <2>1, HistoryIs
<1>3. g \in [1..(n + 1) -> Seq(Ids)] /\ \A i \in 1..(n + 1) : g[i] = AnswersAt(i)
  BY <1>2
<1>4. n + 1 \in 1..(n + 1) /\ \A j \in 1..n : j \in 1..(n + 1)
  OBVIOUS
<1>5. [j \in 1..n |-> g[j]] = [j \in 1..n |-> AnswersAt(j)] /\ g[n + 1] = AnswersAt(n + 1)
  <2> HIDE DEF g
  <2> QED BY <1>3, <1>4
<1>6. LastApart(g, n, Seq(Ids))
  <2> HIDE DEF g
  <2> QED BY <1>3, SplitLast
<1>7. FlattenSeq(g) = FlattenSeq([j \in 1..n |-> AnswersAt(j)]) \o AnswersAt(n + 1)
      /\ FlattenSeq([j \in 1..n |-> AnswersAt(j)]) \in Seq(Ids)
  <2> HIDE DEF g
  <2> QED BY <1>5, <1>6, FlattenAppend, FlattenType DEF LastApart
<1> QED BY <1>7 DEF ToldUpTo

-----------------------------------------------------------------------------
(* A step of the merge: a turn more, or more answers in the last *)

OutTells(o) == FlattenSeq([j \in DOMAIN o |-> AnswersIn(o[j])])

Lengthens(o, q, calls, answers) ==
  /\ Len(q) = Len(o) + 1 /\ \A j \in 1..Len(o) : q[j] = o[j]
  /\ CallsIn(q[Len(q)]) = calls /\ AnswersIn(q[Len(q)]) = answers
  /\ OutTells(q) = OutTells(o) \o answers

Extends(o, q, answers) ==
  /\ Len(q) = Len(o) /\ \A j \in 1..(Len(o) - 1) : q[j] = o[j]
  /\ q[Len(o)].role = o[Len(o)].role /\ CallsIn(q[Len(o)]) = CallsIn(o[Len(o)])
  /\ AnswersIn(q[Len(o)]) = AnswersIn(o[Len(o)]) \o answers
  /\ OutTells(q) = OutTells(o) \o answers

LEMMA IdsInTurns ==
  \A t \in TurnSet : CallsIn(t) \in Seq(Ids) /\ AnswersIn(t) \in Seq(Ids)
<1> SUFFICES ASSUME NEW t \in TurnSet PROVE CallsIn(t) \in Seq(Ids) /\ AnswersIn(t) \in Seq(Ids)
  OBVIOUS
<1>1. t.content \in Seq(PartSet)
  BY DEF TurnSet
<1>2. <<>> \in Seq(PartSet)
  BY EmptySeq
<1> QED BY <1>1, <1>2, IdsOfConcat DEF CallsIn, AnswersIn

LEMMA OutTellsAppend ==
  ASSUME NEW o \in Seq(TurnSet), NEW t \in TurnSet
  PROVE  OutTells(o) \in Seq(Ids) /\ OutTells(Append(o, t)) = OutTells(o) \o AnswersIn(t)
<1> DEFINE n == Len(o)
           q == Append(o, t)
           g == [j \in DOMAIN q |-> AnswersIn(q[j])]
<1>1. /\ n \in Nat /\ DOMAIN o = 1..n /\ q \in Seq(TurnSet) /\ Len(q) = n + 1
      /\ (\A i \in 1..n : q[i] = o[i]) /\ q[n + 1] = t /\ DOMAIN q = 1..(n + 1)
      /\ \A i \in 1..(n + 1) : q[i] \in TurnSet
  <2>1. q \in Seq(TurnSet) /\ Len(q) = n + 1
        /\ (\A i \in 1..n : q[i] = o[i]) /\ q[n + 1] = t
    BY AppendProperties
  <2>2. n \in Nat /\ DOMAIN o = 1..n
    BY LenProperties
  <2> HIDE DEF q, n
  <2> QED BY <2>1, <2>2, LenProperties, ElementOfSeq
<1> HIDE DEF q, n
<1>2. g \in [1..(n + 1) -> Seq(Ids)] /\ \A i \in 1..(n + 1) : g[i] = AnswersIn(q[i])
  BY <1>1, IdsInTurns
<1>3. n + 1 \in 1..(n + 1) /\ \A i \in 1..n : i \in 1..(n + 1)
  BY <1>1
<1>4. [j \in 1..n |-> g[j]] = [j \in DOMAIN o |-> AnswersIn(o[j])] /\ g[n + 1] = AnswersIn(t)
  <2> HIDE DEF g
  <2> QED BY <1>1, <1>2, <1>3
<1>5. LastApart(g, n, Seq(Ids))
  <2> HIDE DEF g
  <2> QED BY <1>1, <1>2, SplitLast
<1>6. FlattenSeq(g) = OutTells(o) \o AnswersIn(t) /\ OutTells(o) \in Seq(Ids)
  <2> HIDE DEF g
  <2> QED BY <1>4, <1>5, FlattenAppend, FlattenType DEF LastApart, OutTells
<1>7. OutTells(q) = FlattenSeq(g)
  BY DEF OutTells
<1> QED BY <1>6, <1>7 DEF q

LEMMA AppendLengthens ==
  ASSUME NEW o \in Seq(TurnSet), NEW t \in TurnSet
  PROVE  /\ Lengthens(o, Append(o, t), CallsIn(t), AnswersIn(t))
         /\ Append(o, t)[Len(Append(o, t))] = t
<1> DEFINE q == Append(o, t)
<1>1. Len(q) = Len(o) + 1 /\ (\A i \in 1..Len(o) : q[i] = o[i]) /\ q[Len(o) + 1] = t
  BY AppendProperties
<1>2. OutTells(q) = OutTells(o) \o AnswersIn(t)
  BY OutTellsAppend
<1> HIDE DEF q
<1> QED BY <1>1, <1>2 DEF Lengthens, q

LEMMA LastExtends ==
  ASSUME NEW o \in Seq(TurnSet), o # <<>>, NEW c \in Seq(PartSet), IdsOf("tool_use", c) = <<>>
  PROVE  Extends(o, [o EXCEPT ![Len(o)].content = @ \o c], IdsOf("tool_result", c))
<1> DEFINE q == [o EXCEPT ![Len(o)].content = @ \o c]
           t == o[Len(o)]
           u == [t EXCEPT !.content = @ \o c]
<1>1. Len(o) \in Nat /\ Len(o) # 0 /\ DOMAIN o = 1..Len(o)
  BY LenProperties, EmptySeq
<1>2. PICK n \in Nat : Len(o) = n + 1
  <2>1. Len(o) - 1 \in Nat /\ Len(o) = Len(o) - 1 + 1
    BY <1>1
  <2> QED BY <2>1
<1>3. n + 1 \in 1..(n + 1) /\ (\A i \in 1..n : i \in 1..(n + 1) /\ i # n + 1) /\ n + 1 - 1 = n
  OBVIOUS
<1>4. t \in TurnSet /\ t = o[n + 1]
  BY <1>1, <1>2, <1>3, ElementOfSeq
<1>5. /\ u \in TurnSet /\ u.role = t.role /\ CallsIn(u) = CallsIn(t)
      /\ AnswersIn(u) = AnswersIn(t) \o IdsOf("tool_result", c)
  <2>1. t.content \in Seq(PartSet) /\ t.role \in Roles
          /\ t = [role |-> t.role, content |-> t.content]
    BY <1>4 DEF TurnSet
  <2>2. u = [role |-> t.role, content |-> t.content \o c]
    <3>1. \A x \in TurnSet : \A y : [x EXCEPT !.content = y] = [role |-> x.role, content |-> y]
      <4>1. ASSUME NEW x \in TurnSet, NEW y
            PROVE  [x EXCEPT !.content = y] = [role |-> x.role, content |-> y]
        <5>1. PICK r, s : x = [role |-> r, content |-> s]
          BY DEF TurnSet
        <5> QED BY ONLY <5>1
      <4> QED BY ONLY <4>1
    <3>2. u = [t EXCEPT !.content = t.content \o c]
      OBVIOUS
    <3> HIDE DEF t, u
    <3> QED BY <1>4, <3>1, <3>2
  <2>3. t.content \o c \in Seq(PartSet)
    BY <2>1, ConcatProperties
  <2>4. u \in TurnSet /\ u.role = t.role /\ u.content = t.content \o c
    <3> HIDE DEF t
    <3> QED BY <2>1, <2>2, <2>3 DEF TurnSet
  <2>5. \A type : IdsOf(type, t.content \o c) = IdsOf(type, t.content) \o IdsOf(type, c)
    BY <2>1, IdsOfConcat
  <2>6. CallsIn(t) \in Seq(Ids)
    BY <1>4, IdsInTurns
  <2>7. CallsIn(t) \o <<>> = CallsIn(t)
    BY <2>6, ConcatEmptySeq
  <2> HIDE DEF t, u
  <2> QED BY <2>4, <2>5, <2>7 DEF CallsIn, AnswersIn
<1>6. /\ DOMAIN q = 1..(n + 1) /\ q[n + 1] = u /\ q = [j \in 1..(n + 1) |-> q[j]]
      /\ \A i \in 1..n : q[i] = o[i]
  BY <1>1, <1>2, <1>3
<1>7. \A i \in 1..(n + 1) : o[i] \in TurnSet
  BY <1>2, ElementOfSeq
<1> DEFINE g == [i \in 1..n |-> o[i]]
<1>8. g \in Seq(TurnSet) /\ o = Append(g, t)
  <2>1. o \in [1..(n + 1) -> TurnSet]
    BY <1>1, <1>2, <1>7
  <2>2. LastApart(o, n, TurnSet)
    BY <2>1, SplitLast
  <2> QED BY <1>4, <2>2 DEF LastApart
<1>9. q = Append(g, u) /\ Len(q) = n + 1
  <2>1. \A i \in 1..(n + 1) : i \in 1..n \/ i = n + 1
    OBVIOUS
  <2>2. \A i \in 1..(n + 1) : q[i] \in TurnSet
    <3> HIDE DEF q, u
    <3> QED BY <1>3, <1>5, <1>6, <1>7, <2>1
  <2>3. q \in [1..(n + 1) -> TurnSet]
    <3> HIDE DEF q
    <3> QED BY <1>6, <2>2
  <2>4. LastApart(q, n, TurnSet)
    <3> HIDE DEF q
    <3> QED BY <2>3, SplitLast
  <2>5. [i \in 1..n |-> q[i]] = g
    <3> HIDE DEF q
    <3> QED BY <1>6
  <2> HIDE DEF q, u, g
  <2>6. q \in Seq(TurnSet) /\ q = Append(g, q[n + 1])
    BY <2>4, <2>5 DEF LastApart
  <2>7. Len(q) = n + 1
    BY <1>6, <2>6, LenProperties
  <2> QED BY <1>6, <2>6, <2>7
<1>10. OutTells(q) = OutTells(o) \o IdsOf("tool_result", c)
  <2> HIDE DEF g, q, t, u
  <2>1. OutTells(o) = OutTells(g) \o AnswersIn(t) /\ OutTells(g) \in Seq(Ids)
    BY <1>4, <1>8, OutTellsAppend
  <2>2. OutTells(q) = OutTells(g) \o AnswersIn(u)
    BY <1>5, <1>8, <1>9, OutTellsAppend
  <2>3. IdsOf("tool_result", c) \in Seq(Ids) /\ AnswersIn(t) \in Seq(Ids)
    <3>1. <<>> \in Seq(PartSet)
      BY EmptySeq
    <3> QED BY <1>4, <3>1, IdsInTurns, IdsOfConcat
  <2>4. (OutTells(g) \o AnswersIn(t)) \o IdsOf("tool_result", c)
          = OutTells(g) \o (AnswersIn(t) \o IdsOf("tool_result", c))
    BY <2>1, <2>3, ConcatAssociative
  <2> QED BY <1>5, <2>1, <2>2, <2>4
<1> HIDE DEF q, u, g
<1>11. Len(q) = Len(o) /\ q[Len(o)] = u /\ \A j \in 1..(Len(o) - 1) : q[j] = o[j]
  <2>1. Len(q) = Len(o) /\ q[Len(o)] = u
    BY <1>2, <1>6, <1>9
  <2>2. Len(o) - 1 = n
    BY <1>2
  <2> QED BY <1>6, <2>1, <2>2
<1>12. Extends(o, q, IdsOf("tool_result", c))
  BY <1>5, <1>10, <1>11 DEF Extends
<1> QED BY <1>12 DEF q

\* What a step of the merge does with a message of the memory.
StepIs(acc, h, next) ==
  /\ h.role # "tool" =>
       /\ Lengthens(acc.out, next.out, IdsOf("tool_use", h.parts), <<>>)
       /\ next.mode \in {"none", "asked"}
  /\ h.role = "tool" /\ acc.mode # "batch" =>
       /\ Lengthens(acc.out, next.out, <<>>, IdsOf("tool_result", h.parts))
       /\ next.out[Len(next.out)].role = "user" /\ next.mode = "batch"
  /\ h.role = "tool" /\ acc.mode = "batch" =>
       Extends(acc.out, next.out, IdsOf("tool_result", h.parts)) /\ next.mode = "batch"

LEMMA MergeStepIs ==
  ASSUME NEW acc \in MergeStates, acc.mode # "results", acc.mode = "batch" => acc.out # <<>>,
         NEW h \in MemoryMessages
  PROVE  StepIs(acc, h, MergeStep(acc, Converted(h)))
<1> DEFINE m == Converted(h)
           next == MergeStep(acc, m)
           asUser == [role |-> "user", content |-> m.content]
           longer == [acc.out EXCEPT ![Len(acc.out)].content = @ \o m.content]
<1>1. ConvertedIs(h, m)
  BY ConvertedAre
<1>2. MessageIs(h)
  BY MessagesAre
<1>3. acc.out \in Seq(TurnSet) /\ acc.mode \in {"none", "asked", "results", "batch"}
  BY DEF MergeStates
<1>4. /\ m \in TurnSet /\ m.role = h.role /\ CallsIn(m) = IdsOf("tool_use", h.parts)
      /\ AnswersIn(m) = IdsOf("tool_result", h.parts) /\ ~OnlyToolResults(m.content)
  BY <1>1 DEF ConvertedIs, CallsIn, AnswersIn
<1>5. /\ h.role = "tool" => CallsIn(m) = <<>>
      /\ h.role # "tool" => AnswersIn(m) = <<>>
  BY <1>2, <1>4 DEF MessageIs
<1> HIDE DEF m
<1>6. m.content \in Seq(PartSet)
  BY <1>4 DEF TurnSet
<1>7. /\ asUser \in TurnSet /\ asUser.role = "user"
      /\ CallsIn(asUser) = CallsIn(m) /\ AnswersIn(asUser) = AnswersIn(m)
  BY <1>6 DEF TurnSet, Roles, CallsIn, AnswersIn
<1>8. ASSUME h.role # "tool" PROVE StepIs(acc, h, next)
  <2> DEFINE mode == IF m.role = "assistant" /\ IdsOf("tool_use", m.content) # <<>> THEN "asked"
                     ELSE "none"
  <2>1. next = [out |-> Append(acc.out, m), mode |-> mode]
    BY <1>4, <1>8 DEF MergeStep
  <2>2. mode \in {"none", "asked"}
    OBVIOUS
  <2> HIDE DEF mode, next
  <2>3. next.out = Append(acc.out, m) /\ next.mode = mode
    BY <2>1
  <2>4. Lengthens(acc.out, next.out, CallsIn(m), AnswersIn(m))
    BY <1>3, <1>4, <2>3, AppendLengthens
  <2> QED BY <1>4, <1>5, <1>8, <2>2, <2>3, <2>4 DEF StepIs
<1>9. ASSUME h.role = "tool", acc.mode # "batch" PROVE StepIs(acc, h, next)
  <2>1. next = [out |-> Append(acc.out, asUser), mode |-> "batch"]
    BY <1>4, <1>9 DEF MergeStep
  <2> HIDE DEF next, asUser
  <2>2. next.out = Append(acc.out, asUser) /\ next.mode = "batch"
    BY <2>1
  <2>3. /\ Lengthens(acc.out, next.out, CallsIn(asUser), AnswersIn(asUser))
        /\ next.out[Len(next.out)] = asUser
    BY <1>3, <1>7, <2>2, AppendLengthens
  <2> QED BY <1>4, <1>5, <1>7, <1>9, <2>2, <2>3 DEF StepIs
<1>10. ASSUME h.role = "tool", acc.mode = "batch" PROVE StepIs(acc, h, next)
  <2>1. next = [acc EXCEPT !.out = longer]
    BY <1>4, <1>10 DEF MergeStep
  <2> HIDE DEF next, longer
  <2>2. next.out = longer /\ next.mode = "batch"
    <3>1. PICK o, w : acc = [out |-> o, mode |-> w]
      BY DEF MergeStates
    <3>2. w = "batch"
      BY <1>10, <3>1
    <3> QED BY ONLY <2>1, <3>1, <3>2
  <2>3. Extends(acc.out, longer, AnswersIn(m))
    <3>1. IdsOf("tool_use", m.content) = <<>>
      BY <1>5, <1>10 DEF CallsIn
    <3>2. Extends(acc.out, longer, IdsOf("tool_result", m.content))
      BY <1>3, <1>6, <1>10, <3>1, LastExtends DEF longer
    <3> QED BY <3>2 DEF AnswersIn
  <2> QED BY <1>4, <1>10, <2>2, <2>3 DEF StepIs
<1> QED BY <1>8, <1>9, <1>10 DEF m

-----------------------------------------------------------------------------
(* What has been merged after n messages *)

\* The turn of message i is the p-th, and the one after it has its results.
Heard(o, p, i, n) ==
  /\ p \in 1..Len(o) /\ CallsIn(o[p]) = CallsAt(i)
  /\ Open(i, n) /\ i = n => Len(o) = p /\ ToldTo(i, n) = <<>>
  /\ Open(i, n) /\ i # n =>
       Len(o) = p + 1 /\ o[p + 1].role = "user" /\ AnswersIn(o[p + 1]) = ToldTo(i, n)
  /\ ~Open(i, n) => p < Len(o)
  /\ ~Open(i, n) /\ ToldTo(i, n) # <<>> =>
       p + 1 < Len(o) /\ o[p + 1].role = "user" /\ AnswersIn(o[p + 1]) = ToldTo(i, n)

Modes(a, n) ==
  /\ a \in MergeStates /\ a.mode # "results"
  /\ a.mode = "batch" <=> n # 0 /\ history[n].role = "tool"
  /\ n # 0 <=> Len(a.out) # 0
  /\ n # 0 /\ a.mode = "batch" =>
       a.out[Len(a.out)].role = "user" /\ AnswersIn(a.out[Len(a.out)]) # <<>>
  /\ n # 0 /\ a.mode # "batch" => AnswersIn(a.out[Len(a.out)]) = <<>>

ApartIn(o) == \A j \in 2..Len(o) : AnswersIn(o[j]) = <<>> \/ AnswersIn(o[j - 1]) = <<>>

MergeInv(f, n) ==
  /\ Modes(f[n], n) /\ ApartIn(f[n].out) /\ OutTells(f[n].out) = ToldUpTo(n)
  /\ \A i \in 1..n : history[i].role # "tool" => Heard(f[n].out, Len(f[i].out), i, n)

\* The step to message n + 1.
Advances(a, b, n) ==
  /\ WholeHistory /\ n \in Nat /\ n < Len(history)
  /\ a \in MergeStates /\ b \in MergeStates /\ StepIs(a, history[n + 1], b)

LEMMA AdvanceIs ==
  ASSUME NEW a, NEW b, NEW n, Advances(a, b, n)
  PROVE  /\ n \in Nat /\ n + 1 \in 1..Len(history) /\ Len(a.out) \in Nat /\ Len(b.out) \in Nat
         /\ a.out \in Seq(TurnSet) /\ b.out \in Seq(TurnSet)
         /\ \A i \in 1..Len(a.out) : AnswersIn(a.out[i]) \in Seq(Ids)
         /\ MessageIs(history[n + 1]) /\ AnswersAt(n + 1) \in Seq(Ids)
<1>1. n \in Nat /\ Len(history) \in Nat /\ n + 1 \in 1..Len(history)
  <2>1. n \in Nat /\ n < Len(history) /\ Len(history) \in Nat
    BY LenProperties DEF Advances, WholeHistory
  <2> QED BY <2>1
<1>2. a.out \in Seq(TurnSet) /\ b.out \in Seq(TurnSet)
  BY DEF Advances, MergeStates
<1>3. \A i \in 1..Len(a.out) : AnswersIn(a.out[i]) \in Seq(Ids)
  BY <1>2, ElementOfSeq, IdsInTurns
<1>4. MessageIs(history[n + 1]) /\ AnswersAt(n + 1) \in Seq(Ids)
  BY <1>1, HistoryIs DEF Advances
<1> QED BY <1>1, <1>2, <1>3, <1>4, LenProperties

LEMMA ModesStep ==
  ASSUME NEW a, NEW b, NEW n, Advances(a, b, n), Modes(a, n) PROVE Modes(b, n + 1)
<1> PICK e : e = n + 1
  OBVIOUS
<1> DEFINE h == history[e]
<1>1. /\ n \in Nat /\ e = n + 1 /\ e # 0 /\ Len(a.out) \in Nat /\ Len(b.out) \in Nat
      /\ MessageIs(h) /\ AnswersAt(e) \in Seq(Ids)
      /\ \A i \in 1..Len(a.out) : AnswersIn(a.out[i]) \in Seq(Ids)
  BY AdvanceIs
<1>2. b \in MergeStates /\ StepIs(a, h, b)
  BY DEF Advances
<1>3. AnswersAt(e) = IdsOf("tool_result", h.parts)
  BY DEF AnswersAt
<1>4. h.role = "tool" => \E id : AnswersAt(e) = <<id>>
  BY <1>1, <1>3 DEF MessageIs
<1>5. \A s \in Seq(Ids) : \A id : <<id>> \in Seq(Ids) => s \o <<id>> # <<>> /\ <<id>> # <<>>
  OBVIOUS
<1> HIDE DEF h
<1>6. CASE h.role # "tool"
  <2>1. Lengthens(a.out, b.out, IdsOf("tool_use", h.parts), <<>>) /\ b.mode \in {"none", "asked"}
    BY <1>2, <1>6 DEF StepIs
  <2>2. Len(b.out) = Len(a.out) + 1 /\ AnswersIn(b.out[Len(b.out)]) = <<>>
    BY <2>1 DEF Lengthens
  <2>3. Len(b.out) # 0
    BY <1>1, <2>2
  <2> QED BY <1>1, <1>2, <1>6, <2>1, <2>2, <2>3 DEF Modes, h
<1>7. CASE h.role = "tool" /\ a.mode # "batch"
  <2>1. /\ Lengthens(a.out, b.out, <<>>, AnswersAt(e))
        /\ b.out[Len(b.out)].role = "user" /\ b.mode = "batch"
    BY <1>2, <1>3, <1>7 DEF StepIs
  <2>2. Len(b.out) = Len(a.out) + 1 /\ AnswersIn(b.out[Len(b.out)]) = AnswersAt(e)
    BY <2>1 DEF Lengthens
  <2>3. Len(b.out) # 0 /\ AnswersAt(e) # <<>>
    <3>1. Len(b.out) # 0
      BY <1>1, <2>2
    <3>2. PICK id : AnswersAt(e) = <<id>>
      BY <1>4, <1>7
    <3>3. AnswersAt(e) # <<>>
      BY ONLY <3>2
    <3> QED BY <3>1, <3>3
  <2> QED BY <1>1, <1>2, <1>7, <2>1, <2>2, <2>3 DEF Modes, h
<1>8. CASE h.role = "tool" /\ a.mode = "batch"
  <2>1. Extends(a.out, b.out, AnswersAt(e)) /\ b.mode = "batch"
    BY <1>2, <1>3, <1>8 DEF StepIs
  <2>2. n # 0 /\ Len(a.out) # 0 /\ a.out[Len(a.out)].role = "user"
    BY <1>8 DEF Modes
  <2>3. Len(b.out) = Len(a.out) /\ b.out[Len(b.out)].role = "user"
        /\ AnswersIn(b.out[Len(b.out)]) = AnswersIn(a.out[Len(a.out)]) \o AnswersAt(e)
    BY <2>1, <2>2 DEF Extends
  <2>4. AnswersIn(a.out[Len(a.out)]) \in Seq(Ids)
    <3>1. Len(a.out) \in 1..Len(a.out)
      BY <1>1, <2>2
    <3> QED BY <1>1, <3>1
  <2>5. AnswersIn(b.out[Len(b.out)]) # <<>>
    BY <1>1, <1>4, <1>5, <1>8, <2>3, <2>4
  <2> QED BY <1>1, <1>2, <1>8, <2>1, <2>2, <2>3, <2>5 DEF Modes, h
<1> QED BY <1>6, <1>7, <1>8

LEMMA ApartStep ==
  ASSUME NEW a, NEW b, NEW n, Advances(a, b, n), Modes(a, n), ApartIn(a.out)
  PROVE  ApartIn(b.out)
<1> DEFINE h == history[n + 1]
           L == Len(a.out)
<1>1. n \in Nat /\ L \in Nat /\ MessageIs(h)
  BY AdvanceIs
<1>2. StepIs(a, h, b)
  BY DEF Advances
<1> HIDE DEF h
<1> SUFFICES ASSUME NEW j \in 2..Len(b.out)
             PROVE  AnswersIn(b.out[j]) = <<>> \/ AnswersIn(b.out[j - 1]) = <<>>
  BY DEF ApartIn
<1>3. j \in Nat /\ j >= 2 /\ j <= Len(b.out)
  <2>1. Len(b.out) \in Nat
    BY AdvanceIs
  <2> QED BY <2>1
<1>4. PICK k \in Nat : k = j - 1 /\ j = k + 1 /\ k >= 1
  <2>1. j - 1 \in Nat /\ j - 1 + 1 = j /\ j - 1 >= 1
    BY <1>3
  <2> QED BY <2>1
<1>5. j \in 2..L => AnswersIn(a.out[j]) = <<>> \/ AnswersIn(a.out[k]) = <<>>
  BY <1>4 DEF ApartIn
<1>6. CASE h.role # "tool" \/ a.mode # "batch"
  <2>1. PICK calls, answers :
          /\ Lengthens(a.out, b.out, calls, answers)
          /\ (h.role # "tool" /\ answers = <<>>) \/ (h.role = "tool" /\ a.mode # "batch")
    <3>1. CASE h.role # "tool"
      <4>1. Lengthens(a.out, b.out, IdsOf("tool_use", h.parts), <<>>)
        BY <1>2, <3>1 DEF StepIs
      <4> QED BY <3>1, <4>1
    <3>2. CASE h.role = "tool" /\ a.mode # "batch"
      <4>1. Lengthens(a.out, b.out, <<>>, IdsOf("tool_result", h.parts))
        BY <1>2, <3>2 DEF StepIs
      <4> QED BY <3>2, <4>1
    <3> QED BY <1>6, <3>1, <3>2
  <2>2. Len(b.out) = L + 1 /\ (\A i \in 1..L : b.out[i] = a.out[i])
        /\ AnswersIn(b.out[Len(b.out)]) = answers
    BY <2>1 DEF Lengthens
  <2> HIDE DEF L
  <2>3. CASE j = L + 1
    <3>1. k = L /\ k \in 1..L /\ L # 0
      BY <1>1, <1>4, <2>3
    <3>2. CASE h.role # "tool"
      BY <2>1, <2>2, <2>3, <3>2
    <3>3. CASE h.role = "tool" /\ a.mode # "batch"
      <4>1. AnswersIn(a.out[L]) = <<>>
        BY <3>1, <3>3 DEF Modes, L
      <4> QED BY <1>4, <2>2, <3>1, <4>1
    <3> QED BY <2>1, <3>2, <3>3
  <2>4. CASE j # L + 1
    <3>1. j \in 1..L /\ k \in 1..L /\ j \in 2..L
      BY <1>1, <1>3, <1>4, <2>2, <2>4
    <3> QED BY <1>4, <1>5, <2>2, <3>1
  <2> QED BY <2>3, <2>4
<1>7. CASE h.role = "tool" /\ a.mode = "batch"
  <2>1. PICK answers : Extends(a.out, b.out, answers)
    BY <1>2, <1>7 DEF StepIs
  <2>2. Len(b.out) = L /\ (\A i \in 1..(L - 1) : b.out[i] = a.out[i])
    BY <2>1 DEF Extends
  <2>3. AnswersIn(a.out[L]) # <<>>
    BY <1>7 DEF Modes
  <2> HIDE DEF L
  <2>4. k \in 1..(L - 1) /\ j \in 2..L
    BY <1>1, <1>3, <1>4, <2>2
  <2>5. CASE j = L
    BY <1>4, <1>5, <2>2, <2>3, <2>4, <2>5
  <2>6. CASE j # L
    <3>1. j \in 1..(L - 1)
      BY <1>1, <1>3, <2>2, <2>6
    <3> QED BY <1>4, <1>5, <2>2, <2>4, <3>1
  <2> QED BY <2>5, <2>6
<1> QED BY <1>6, <1>7

LEMMA TellsStep ==
  ASSUME NEW a, NEW b, NEW n, Advances(a, b, n), OutTells(a.out) = ToldUpTo(n)
  PROVE  OutTells(b.out) = ToldUpTo(n + 1)
<1> PICK e : e = n + 1
  OBVIOUS
<1> DEFINE h == history[e]
<1>1. MessageIs(h) /\ AnswersAt(e) \in Seq(Ids) /\ AnswersAt(e) = IdsOf("tool_result", h.parts)
  BY AdvanceIs DEF AnswersAt
<1>2. StepIs(a, h, b) /\ WholeHistory /\ n \in Nat /\ n < Len(history)
  BY DEF Advances
<1>3. ToldUpTo(e) = ToldUpTo(n) \o AnswersAt(e) /\ ToldUpTo(n) \in Seq(Ids)
  BY <1>2, ToldUpToStep
<1> HIDE DEF h
<1>4. CASE h.role # "tool"
  <2>1. OutTells(b.out) = OutTells(a.out) \o <<>>
    BY <1>2, <1>4 DEF StepIs, Lengthens
  <2>2. AnswersAt(e) = <<>>
    BY <1>1, <1>4 DEF MessageIs
  <2> QED BY <1>3, <2>1, <2>2
<1>5. CASE h.role = "tool"
  <2>1. OutTells(b.out) = OutTells(a.out) \o AnswersAt(e)
    BY <1>1, <1>2, <1>5 DEF StepIs, Lengthens, Extends
  <2> QED BY <1>3, <2>1
<1> QED BY <1>4, <1>5

LEMMA HeardStep ==
  ASSUME NEW a, NEW b, NEW n, Advances(a, b, n), Modes(a, n),
         NEW i \in 1..n, history[i].role # "tool", NEW p, Heard(a.out, p, i, n)
  PROVE  Heard(b.out, p, i, n + 1)
<1> PICK e : e = n + 1
  OBVIOUS
<1> PICK q : q = p + 1
  OBVIOUS
<1> DEFINE h == history[e]
           L == Len(a.out)
           M == Len(b.out)
<1>1. /\ n \in Nat /\ e = n + 1 /\ i \in Nat /\ i <= n /\ i # e /\ n # 0
      /\ L \in Nat /\ M \in Nat /\ p \in Nat /\ p >= 1 /\ p <= L
  <2>1. n \in Nat /\ L \in Nat /\ M \in Nat
    BY AdvanceIs
  <2>2. p \in 1..L
    BY DEF Heard
  <2> HIDE DEF L, M
  <2> QED BY <2>1, <2>2
<1>2. MessageIs(h) /\ AnswersAt(e) \in Seq(Ids) /\ AnswersAt(e) = IdsOf("tool_result", h.parts)
  BY AdvanceIs DEF AnswersAt
<1>3. StepIs(a, h, b) /\ WholeHistory /\ n < Len(history)
  BY DEF Advances
<1>4. /\ ToldTo(i, n) \in Seq(Ids)
      /\ ToldTo(i, e) = ToldTo(i, n) \o (IF Open(i, e) THEN AnswersAt(e) ELSE <<>>)
  BY <1>1, <1>3, ToldStep
<1>5. /\ Open(i, e) <=> Open(i, n) /\ h.role = "tool"
      /\ i < n /\ Open(i, n) => history[n].role = "tool"
  BY <1>1, OpenGoesOn
<1>6. ~Open(i, e) => ToldTo(i, e) = ToldTo(i, n)
  BY <1>4, ConcatEmptySeq
<1>7. /\ CallsIn(a.out[p]) = CallsAt(i)
      /\ Open(i, n) /\ i = n => L = p /\ ToldTo(i, n) = <<>>
      /\ Open(i, n) /\ i # n =>
           L = p + 1 /\ a.out[q].role = "user" /\ AnswersIn(a.out[q]) = ToldTo(i, n)
      /\ ~Open(i, n) => p < L
      /\ ~Open(i, n) /\ ToldTo(i, n) # <<>> =>
           p + 1 < L /\ a.out[q].role = "user" /\ AnswersIn(a.out[q]) = ToldTo(i, n)
  BY DEF Heard
<1>8. a.mode = "batch" <=> history[n].role = "tool"
  BY <1>1 DEF Modes
<1> SUFFICES Heard(b.out, p, i, e)
  OBVIOUS
<1>9. SUFFICES
        /\ p <= M /\ CallsIn(b.out[p]) = CallsAt(i)
        /\ Open(i, e) => M = p + 1 /\ b.out[q].role = "user" /\ AnswersIn(b.out[q]) = ToldTo(i, e)
        /\ ~Open(i, e) => p < M
        /\ ~Open(i, e) /\ ToldTo(i, e) # <<>> =>
             p + 1 < M /\ b.out[q].role = "user" /\ AnswersIn(b.out[q]) = ToldTo(i, e)
  <2>1. p <= M => p \in 1..M
    BY <1>1
  <2> HIDE DEF h
  <2> QED BY <1>1, <2>1 DEF Heard
<1> HIDE DEF h
<1>10. CASE h.role # "tool"
  <2>1. M = L + 1 /\ \A j \in 1..L : b.out[j] = a.out[j]
    BY <1>3, <1>10 DEF StepIs, Lengthens
  <2> HIDE DEF L, M
  <2>2. ~Open(i, e) /\ p < M /\ p \in 1..L /\ b.out[p] = a.out[p]
    <3>1. p \in 1..L /\ p < M
      BY <1>1, <2>1
    <3> QED BY <1>5, <1>10, <2>1, <3>1
  <2>3. ToldTo(i, n) # <<>> => p + 1 < M /\ q \in 1..L
    <3>1. p + 1 <= L => p + 1 < M /\ q \in 1..L
      BY <1>1, <2>1
    <3>2. ToldTo(i, n) # <<>> => p + 1 <= L
      <4>1. ToldTo(i, n) # <<>> => L = p + 1 \/ p + 1 < L
        BY <1>7
      <4> QED BY <1>1, <4>1
    <3> QED BY <3>1, <3>2
  <2>4. ToldTo(i, n) # <<>> => /\ b.out[q] = a.out[q] /\ a.out[q].role = "user"
                               /\ AnswersIn(a.out[q]) = ToldTo(i, n)
    BY <1>7, <2>1, <2>3
  <2> QED BY <1>1, <1>6, <1>7, <2>2, <2>3, <2>4
<1>11. CASE h.role = "tool" /\ a.mode # "batch"
  <2>1. /\ M = L + 1 /\ (\A j \in 1..L : b.out[j] = a.out[j])
        /\ AnswersIn(b.out[M]) = AnswersAt(e) /\ b.out[M].role = "user"
    BY <1>2, <1>3, <1>11 DEF StepIs, Lengthens
  <2> HIDE DEF L, M
  <2>2. p < M /\ p <= M /\ p \in 1..L /\ b.out[p] = a.out[p]
    <3>1. p \in 1..L /\ p < M /\ p <= M
      BY <1>1, <2>1
    <3> QED BY <2>1, <3>1
  <2>3. CASE Open(i, e)
    <3>1. i = n /\ L = p /\ ToldTo(i, n) = <<>>
      <4>1. ~(i < n)
        BY <1>5, <1>8, <1>11, <2>3
      <4>2. i = n
        BY <1>1, <4>1
      <4> QED BY <1>5, <1>7, <2>3, <4>2
    <3>2. M = p + 1 /\ M = q
      BY <2>1, <3>1
    <3>3. ToldTo(i, e) = AnswersAt(e)
      BY <1>2, <1>4, <2>3, <3>1, ConcatEmptySeq
    <3> QED BY <1>7, <2>1, <2>2, <2>3, <3>2, <3>3
  <2>4. CASE ~Open(i, e)
    <3>1. ~Open(i, n)
      BY <1>5, <1>11, <2>4
    <3>2. p + 1 < L => p + 1 < M /\ q \in 1..L
      BY <1>1, <2>1
    <3>3. ToldTo(i, n) # <<>> => /\ p + 1 < L /\ a.out[q].role = "user"
                                 /\ AnswersIn(a.out[q]) = ToldTo(i, n)
      BY <1>7, <3>1
    <3> QED BY <1>6, <1>7, <2>1, <2>2, <2>4, <3>2, <3>3
  <2> QED BY <2>3, <2>4
<1>12. CASE h.role = "tool" /\ a.mode = "batch"
  <2>1. /\ M = L /\ (\A j \in 1..(L - 1) : b.out[j] = a.out[j])
        /\ CallsIn(b.out[L]) = CallsIn(a.out[L]) /\ b.out[L].role = a.out[L].role
        /\ AnswersIn(b.out[L]) = AnswersIn(a.out[L]) \o AnswersAt(e)
    BY <1>2, <1>3, <1>12 DEF StepIs, Extends
  <2> HIDE DEF L, M
  <2>2. i # n
    BY <1>8, <1>12
  <2>3. p < L
    <3>1. Open(i, n) => L = p + 1
      BY <1>7, <2>2
    <3> QED BY <1>1, <1>7, <3>1
  <2>4. p < M /\ p <= M /\ b.out[p] = a.out[p]
    <3>1. p \in 1..(L - 1) /\ p < M /\ p <= M
      BY <1>1, <2>1, <2>3
    <3> QED BY <2>1, <3>1
  <2>5. CASE Open(i, e)
    <3>1. Open(i, n) /\ L = p + 1 /\ L = q
      BY <1>5, <1>7, <2>2, <2>5
    <3>2. a.out[q].role = "user" /\ AnswersIn(a.out[q]) = ToldTo(i, n)
      BY <1>7, <2>2, <3>1
    <3>3. ToldTo(i, e) = ToldTo(i, n) \o AnswersAt(e)
      BY <1>4, <2>5
    <3> QED BY <1>7, <2>1, <2>4, <2>5, <3>1, <3>2, <3>3
  <2>6. CASE ~Open(i, e)
    <3>1. ~Open(i, n)
      BY <1>5, <1>12, <2>6
    <3>2. p + 1 < L => p + 1 < M /\ q \in 1..(L - 1)
      BY <1>1, <2>1
    <3>3. ToldTo(i, n) # <<>> => /\ p + 1 < L /\ a.out[q].role = "user"
                                 /\ AnswersIn(a.out[q]) = ToldTo(i, n)
      BY <1>7, <3>1
    <3> QED BY <1>6, <1>7, <2>1, <2>4, <2>6, <3>2, <3>3
  <2> QED BY <2>5, <2>6
<1> QED BY <1>10, <1>11, <1>12

LEMMA HeardFirst ==
  ASSUME NEW a, NEW b, NEW n, Advances(a, b, n), history[n + 1].role # "tool"
  PROVE  Heard(b.out, Len(b.out), n + 1, n + 1)
<1> PICK e : e = n + 1
  OBVIOUS
<1>1. e \in Nat /\ Len(b.out) \in Nat /\ Len(a.out) \in Nat
  BY AdvanceIs
<1>2. Lengthens(a.out, b.out, CallsAt(e), <<>>)
  BY DEF Advances, StepIs, CallsAt
<1>3. Len(b.out) \in 1..Len(b.out) /\ CallsIn(b.out[Len(b.out)]) = CallsAt(e)
  <2>1. Len(b.out) = Len(a.out) + 1 /\ CallsIn(b.out[Len(b.out)]) = CallsAt(e)
    BY <1>2 DEF Lengthens
  <2> QED BY <1>1, <2>1
<1>4. Open(e, e)
  <2>1. 1..(e - e) = {}
    BY <1>1
  <2> QED BY <2>1 DEF Open
<1>5. ToldTo(e, e) = <<>>
  BY <1>1, NothingTold
<1> QED BY <1>3, <1>4, <1>5 DEF Heard

\* The turns of the merged request tell what the history holds.
TurnsTell(w) ==
  /\ w \in Seq(TurnSet) /\ ApartIn(w) /\ OutTells(w) = ToldUpTo(Len(history))
  /\ \A i \in 1..Len(history) : history[i].role # "tool" =>
       \E p \in 1..Len(w) : Heard(w, p, i, Len(history))

LEMMA MergedTells ==
  ASSUME WholeHistory
  PROVE  TurnsTell(Merged(MapSeq(Converted, history)))
<1> DEFINE msgs == MapSeq(Converted, history)
           L == Len(history)
<1>1. L \in Nat /\ DOMAIN history = 1..L
  BY LenProperties DEF WholeHistory
<1>2. /\ msgs \in Seq(TurnSet) /\ Len(msgs) = L
      /\ \A i \in 1..L : msgs[i] = Converted(history[i])
  <2>1. msgs = [i \in 1..L |-> Converted(history[i])]
    BY <1>1 DEF MapSeq
  <2>2. \A i \in 1..L : Converted(history[i]) \in TurnSet
    BY HistoryIs, ConvertedAre DEF ConvertedIs
  <2> HIDE DEF msgs, L
  <2>3. msgs \in [1..L -> TurnSet] /\ \A i \in 1..L : msgs[i] = Converted(history[i])
    BY <2>1, <2>2
  <2> QED BY <1>1, <2>3, LenProperties, SeqDef
<1> HIDE DEF msgs
<1>3. PICK f : Merges(f, msgs) /\ Merged(msgs) = f[L].out
  BY <1>2, MergedIs
<1>4. /\ f \in [0..L -> MergeStates] /\ f[0] = [out |-> <<>>, mode |-> "none"]
      /\ \A n \in 1..L : f[n] = MergeStep(f[n - 1], msgs[n])
  BY <1>2, <1>3 DEF Merges
<1> HIDE DEF L
<1> DEFINE N == {n \in Nat : n \in 0..L => MergeInv(f, n)}
<1>5. 0 \in N
  <2>1. f[0].out = <<>> /\ f[0].mode = "none" /\ f[0] \in MergeStates /\ Len(<<>>) = 0
    <3>1. 0 \in 0..L
      BY <1>1
    <3> QED BY <1>4, <3>1
  <2>2. Modes(f[0], 0)
    BY <2>1 DEF Modes
  <2>3. ApartIn(f[0].out)
    BY <2>1 DEF ApartIn
  <2>4. OutTells(f[0].out) = ToldUpTo(0)
    <3>1. [j \in DOMAIN <<>> |-> AnswersIn(<<>>[j])] = <<>>
      OBVIOUS
    <3>2. ToldUpTo(0) = <<>>
      BY NothingTold
    <3> QED BY <2>1, <3>1, <3>2, FlattenEmpty DEF OutTells
  <2>5. MergeInv(f, 0)
    BY <2>2, <2>3, <2>4 DEF MergeInv
  <2> QED BY <2>5
<1>6. ASSUME NEW n \in Nat, n \in N PROVE n + 1 \in N
  <2> PICK e : e = n + 1
    OBVIOUS
  <2> SUFFICES ASSUME e \in 0..L PROVE MergeInv(f, e)
    <3>1. e \in Nat /\ e = n + 1
      OBVIOUS
    <3>2. (e \in 0..L => MergeInv(f, e)) => e \in N
      BY <3>1
    <3> HIDE DEF N
    <3> QED BY <3>1, <3>2
  <2>1. n \in 0..L /\ e \in 1..L /\ n < L /\ e - 1 = n /\ e \in Nat
    BY <1>1
  <2>2. MergeInv(f, n)
    BY <1>6, <2>1
  <2>3. Modes(f[n], n) /\ ApartIn(f[n].out) /\ OutTells(f[n].out) = ToldUpTo(n)
        /\ \A i \in 1..n : history[i].role # "tool" => Heard(f[n].out, Len(f[i].out), i, n)
    BY <2>2 DEF MergeInv
  <2>4. f[n] \in MergeStates /\ f[e] \in MergeStates
    BY <1>4, <2>1
  <2>5. f[n].mode # "results" /\ (f[n].mode = "batch" => f[n].out # <<>>)
    <3>1. Len(<<>>) = 0
      OBVIOUS
    <3> QED BY <2>3, <3>1 DEF Modes
  <2>6. f[e] = MergeStep(f[n], Converted(history[e])) /\ history[e] \in MemoryMessages
    BY <1>2, <1>4, <2>1, HistoryIs DEF L
  <2>7. Advances(f[n], f[e], n)
    BY <2>1, <2>4, <2>5, <2>6, MergeStepIs DEF Advances, L
  <2>8. Modes(f[e], e)
    BY <2>3, <2>7, ModesStep
  <2>9. ApartIn(f[e].out)
    BY <2>3, <2>7, ApartStep
  <2>10. OutTells(f[e].out) = ToldUpTo(e)
    BY <2>3, <2>7, TellsStep
  <2>11. ASSUME NEW i \in 1..e, history[i].role # "tool"
         PROVE  Heard(f[e].out, Len(f[i].out), i, e)
    <3>1. CASE i = e
      <4>1. Heard(f[e].out, Len(f[e].out), e, e)
        BY <2>7, <2>11, <3>1, HeardFirst
      <4> QED BY <3>1, <4>1
    <3>2. CASE i # e
      <4>1. i \in 1..n
        BY <2>1, <3>2
      <4> QED BY <2>3, <2>7, <2>11, <4>1, HeardStep
    <3> QED BY <3>1, <3>2
  <2> QED BY <2>8, <2>9, <2>10, <2>11 DEF MergeInv
<1>7. L \in N
  <2> HIDE DEF N
  <2>1. Nat \subseteq N
    BY <1>5, <1>6, SetInduction
  <2> QED BY <1>1, <2>1
<1>8. MergeInv(f, L)
  <2>1. L \in 0..L
    BY <1>1
  <2> QED BY <1>7, <2>1
<1> DEFINE w == f[L].out
<1>9. /\ Modes(f[L], L) /\ ApartIn(w) /\ OutTells(w) = ToldUpTo(L)
      /\ \A i \in 1..L : history[i].role # "tool" => Heard(w, Len(f[i].out), i, L)
  BY <1>8 DEF MergeInv
<1>10. w \in Seq(TurnSet)
  BY <1>9 DEF Modes, MergeStates
<1> HIDE DEF w
<1>11. ASSUME NEW i \in 1..L, history[i].role # "tool"
       PROVE  \E p \in 1..Len(w) : Heard(w, p, i, L)
  <2>1. Heard(w, Len(f[i].out), i, L)
    BY <1>9, <1>11
  <2>2. Len(f[i].out) \in 1..Len(w)
    BY <2>1 DEF Heard
  <2> QED BY <2>1, <2>2
<1>12. TurnsTell(w)
  BY <1>9, <1>10, <1>11 DEF TurnsTell, L
<1> QED BY <1>3, <1>12 DEF msgs, w

-----------------------------------------------------------------------------
(* The requests *)

WireInv ==
  /\ history \in Seq(MemoryMessages) /\ Len(history) <= MaxMessages
  /\ \/ requests = NotBuilt
     \/ requests = [v \in WireFormats |-> Request(v, MapSeq(Converted, history))]

\* What the builder of a vendor makes of message t, which is message i of the history.
LEMMA RequestsAre ==
  ASSUME WholeHistory, requests = [v \in WireFormats |-> Request(v, MapSeq(Converted, history))]
  PROVE  /\ \A v \in WireFormats \ {"bedrock"} : DOMAIN requests[v] = DOMAIN history
         /\ \A i \in DOMAIN history :
              /\ requests["openai"][i] = OpenAIMessage(Converted(history[i]))
              /\ requests["openaicompat"][i] = CompatMessage(Converted(history[i]))
              /\ requests["anthropic"][i] = AnthropicMessage(Converted(history[i]))
              /\ requests["ollama"][i] = OllamaMessage(Converted(history[i]))
              /\ requests["vertex"][i] = VertexMessage(Converted(history[i]))
         /\ requests["bedrock"] = MapSeq(BedrockMessage, Merged(MapSeq(Converted, history)))
         /\ DOMAIN requests = WireFormats
<1> DEFINE msgs == MapSeq(Converted, history)
<1>1. msgs = [i \in DOMAIN history |-> Converted(history[i])]
  BY DEF MapSeq
<1>2. DOMAIN msgs = DOMAIN history /\ \A i \in DOMAIN history : msgs[i] = Converted(history[i])
  BY <1>1
<1> HIDE DEF msgs
<1>3. /\ requests["openai"] = [i \in DOMAIN msgs |-> OpenAIMessage(msgs[i])]
      /\ requests["openaicompat"] = [i \in DOMAIN msgs |-> CompatMessage(msgs[i])]
      /\ requests["anthropic"] = [i \in DOMAIN msgs |-> AnthropicMessage(msgs[i])]
      /\ requests["ollama"] = [i \in DOMAIN msgs |-> OllamaMessage(msgs[i])]
      /\ requests["vertex"] = [i \in DOMAIN msgs |-> VertexMessage(msgs[i])]
      /\ requests["bedrock"] = MapSeq(BedrockMessage, Merged(msgs))
  <2>1. \A v \in WireFormats : requests[v] = Request(v, msgs)
    BY DEF msgs
  <2>2. /\ requests["openai"] = Request("openai", msgs)
        /\ requests["openaicompat"] = Request("openaicompat", msgs)
        /\ requests["anthropic"] = Request("anthropic", msgs)
        /\ requests["ollama"] = Request("ollama", msgs)
        /\ requests["vertex"] = Request("vertex", msgs)
        /\ requests["bedrock"] = Request("bedrock", msgs)
    BY <2>1 DEF WireFormats
  <2>3. Request("openai", msgs) = [i \in DOMAIN msgs |-> OpenAIMessage(msgs[i])]
    BY DEF Request, MapSeq
  <2>4. Request("openaicompat", msgs) = [i \in DOMAIN msgs |-> CompatMessage(msgs[i])]
    BY DEF Request, MapSeq
  <2>5. Request("anthropic", msgs) = [i \in DOMAIN msgs |-> AnthropicMessage(msgs[i])]
    BY DEF Request, MapSeq
  <2>6. Request("ollama", msgs) = [i \in DOMAIN msgs |-> OllamaMessage(msgs[i])]
    BY DEF Request, MapSeq
  <2>7. Request("vertex", msgs) = [i \in DOMAIN msgs |-> VertexMessage(msgs[i])]
    BY DEF Request, MapSeq
  <2>8. Request("bedrock", msgs) = MapSeq(BedrockMessage, Merged(msgs))
    BY DEF Request, MapSeq
  <2> QED BY <2>2, <2>3, <2>4, <2>5, <2>6, <2>7, <2>8
<1>4. \A v \in WireFormats \ {"bedrock"} : DOMAIN requests[v] = DOMAIN history
  <2>1. ASSUME NEW v \in WireFormats \ {"bedrock"} PROVE DOMAIN requests[v] = DOMAIN msgs
    <3>1. v \in {"openai", "openaicompat", "anthropic", "ollama", "vertex"}
      BY DEF WireFormats
    <3>2. CASE v = "openai"
      BY <1>3, <3>2
    <3>3. CASE v = "openaicompat"
      BY <1>3, <3>3
    <3>4. CASE v = "anthropic"
      BY <1>3, <3>4
    <3>5. CASE v = "ollama"
      BY <1>3, <3>5
    <3>6. CASE v = "vertex"
      BY <1>3, <3>6
    <3> QED BY <3>1, <3>2, <3>3, <3>4, <3>5, <3>6
  <2> QED BY <1>2, <2>1
<1>5. ASSUME NEW i \in DOMAIN history
      PROVE  /\ requests["openai"][i] = OpenAIMessage(Converted(history[i]))
             /\ requests["openaicompat"][i] = CompatMessage(Converted(history[i]))
             /\ requests["anthropic"][i] = AnthropicMessage(Converted(history[i]))
             /\ requests["ollama"][i] = OllamaMessage(Converted(history[i]))
             /\ requests["vertex"][i] = VertexMessage(Converted(history[i]))
  <2>1. i \in DOMAIN msgs /\ msgs[i] = Converted(history[i])
    BY <1>2
  <2>2. /\ requests["openai"][i] = OpenAIMessage(msgs[i])
        /\ requests["openaicompat"][i] = CompatMessage(msgs[i])
        /\ requests["anthropic"][i] = AnthropicMessage(msgs[i])
    <3>1. requests["openai"][i] = OpenAIMessage(msgs[i])
      BY ONLY <1>3, <2>1
    <3>2. requests["openaicompat"][i] = CompatMessage(msgs[i])
      BY ONLY <1>3, <2>1
    <3>3. requests["anthropic"][i] = AnthropicMessage(msgs[i])
      BY ONLY <1>3, <2>1
    <3> QED BY <3>1, <3>2, <3>3
  <2>3. /\ requests["ollama"][i] = OllamaMessage(msgs[i])
        /\ requests["vertex"][i] = VertexMessage(msgs[i])
    BY ONLY <1>3, <2>1
  <2> QED BY <2>1, <2>2, <2>3
<1>6. DOMAIN requests = WireFormats
  OBVIOUS
<1> QED BY <1>3, <1>4, <1>5, <1>6 DEF msgs

\* What a turn says in a request.
SaysRight(r) ==
  r.role \in {"user", "system", "assistant", "model", "tool"} /\ r.text \in BOOLEAN

LEMMA TurnsAreRight ==
  ASSUME WholeHistory, NEW i \in DOMAIN history
  PROVE  LET t == Converted(history[i]) IN
         /\ SaysRight(OpenAIMessage(t)) /\ SaysRight(CompatMessage(t))
              /\ SaysRight(AnthropicMessage(t))
         /\ SaysRight(OllamaMessage(t)) /\ SaysRight(VertexMessage(t))
         /\ OpenAIMessage(t).calls = CallsAt(i) /\ OpenAIMessage(t).answers = AnswersAt(i)
         /\ AnthropicMessage(t).calls = CallsAt(i) /\ AnthropicMessage(t).answers = AnswersAt(i)
         /\ OpenAIMessage(t).text \/ CallsAt(i) # <<>>
         /\ CompatMessage(t).text /\ AnthropicMessage(t).text /\ OllamaMessage(t).text
         /\ VertexMessage(t).text
<1> DEFINE h == history[i]
           t == Converted(h)
<1>1. MessageIs(h) /\ ConvertedIs(h, t)
  <2>1. i \in 1..Len(history)
    BY LenProperties DEF WholeHistory
  <2> QED BY <2>1, HistoryIs, ConvertedAre
<1>2. CallsAt(i) = IdsOf("tool_use", h.parts) /\ AnswersAt(i) = IdsOf("tool_result", h.parts)
  BY DEF CallsAt, AnswersAt
<1> HIDE DEF h, t
<1>3. t.role \in Roles /\ IdsOf("tool_use", t.content) = CallsAt(i)
      /\ IdsOf("tool_result", t.content) = AnswersAt(i)
      /\ HasText(t.content) /\ t.content[1].type # "tool_result"
  BY <1>1, <1>2 DEF ConvertedIs, MessageIs
<1>4. /\ AnswersAt(i) # <<>> => CallsAt(i) = <<>> /\ AnswersAt(i) = <<AnswersAt(i)[1]>>
  <2>1. CASE h.role = "tool"
    <3>1. PICK id : AnswersAt(i) = <<id>>
      BY <1>1, <1>2, <2>1 DEF MessageIs
    <3>2. AnswersAt(i) = <<AnswersAt(i)[1]>>
      BY ONLY <3>1
    <3> QED BY <1>1, <1>2, <2>1, <3>2 DEF MessageIs
  <2>2. CASE h.role # "tool"
    BY <1>1, <1>2, <2>2 DEF MessageIs
  <2> QED BY <2>1, <2>2
<1>5. Roles = {"user", "system", "assistant", "tool"}
  BY DEF Roles
<1>6. /\ SaysRight(OpenAIMessage(t)) /\ OpenAIMessage(t).calls = CallsAt(i)
      /\ OpenAIMessage(t).answers = AnswersAt(i) /\ (OpenAIMessage(t).text \/ CallsAt(i) # <<>>)
  <2>1. CASE AnswersAt(i) # <<>>
    <3>1. OpenAIMessage(t) = Wire("tool", TRUE, <<>>, <<AnswersAt(i)[1]>>)
      BY <1>3, <2>1 DEF OpenAIMessage
    <3> QED BY <1>4, <1>5, <2>1, <3>1 DEF SaysRight, Wire
  <2>2. CASE AnswersAt(i) = <<>> /\ CallsAt(i) # <<>>
    <3>1. OpenAIMessage(t) = Wire(t.role, FALSE, CallsAt(i), <<>>)
      BY <1>3, <2>2 DEF OpenAIMessage
    <3> QED BY <1>3, <1>5, <2>2, <3>1 DEF SaysRight, Wire
  <2>3. CASE AnswersAt(i) = <<>> /\ CallsAt(i) = <<>>
    <3>1. OpenAIMessage(t) = Wire(t.role, HasText(t.content), <<>>, <<>>)
      BY <1>3, <2>3 DEF OpenAIMessage
    <3>2. HasText(t.content) = TRUE
      BY <1>3 DEF HasText
    <3> QED BY <1>3, <1>5, <2>3, <3>1, <3>2 DEF SaysRight, Wire
  <2> QED BY <2>1, <2>2, <2>3
<1>7. HasText(t.content) = TRUE
  BY <1>3 DEF HasText
<1>8. CompatMessage(t) = Wire(t.role, TRUE, <<>>, <<>>)
  BY <1>3, <1>7 DEF CompatMessage
<1>9. AnthropicMessage(t) = Wire(t.role, TRUE, CallsAt(i), AnswersAt(i))
  BY <1>3, <1>7 DEF AnthropicMessage
<1>10. OllamaMessage(t) = Wire(t.role, TRUE, <<>>, <<>>)
  BY <1>7 DEF OllamaMessage
<1>11. VertexMessage(t) = Wire(IF t.role = "assistant" THEN "model" ELSE t.role, TRUE, <<>>, <<>>)
  BY <1>7 DEF VertexMessage
<1>12. SaysRight(CompatMessage(t)) /\ CompatMessage(t).text
  BY <1>3, <1>5, <1>8 DEF SaysRight, Wire
<1>13. /\ SaysRight(AnthropicMessage(t)) /\ AnthropicMessage(t).text
       /\ AnthropicMessage(t).calls = CallsAt(i) /\ AnthropicMessage(t).answers = AnswersAt(i)
  BY <1>3, <1>5, <1>9 DEF SaysRight, Wire
<1>14. SaysRight(OllamaMessage(t)) /\ OllamaMessage(t).text
  BY <1>3, <1>5, <1>10 DEF SaysRight, Wire
<1>15. SaysRight(VertexMessage(t)) /\ VertexMessage(t).text
  BY <1>3, <1>5, <1>11 DEF SaysRight, Wire
<1> QED BY <1>6, <1>12, <1>13, <1>14, <1>15 DEF h, t

\* The turns of bedrock's request, in the roles it knows.
BedrockIs(w, turns) ==
  /\ Len(w) = Len(turns) /\ Len(w) \in Nat /\ DOMAIN w = 1..Len(w)
  /\ \A j \in 1..Len(w) :
       /\ SaysRight(w[j]) /\ w[j].text
       /\ w[j].calls = CallsIn(turns[j]) /\ w[j].answers = AnswersIn(turns[j])
       /\ turns[j].role = "user" => w[j].role = "user"

LEMMA BedrockSays ==
  ASSUME NEW turns \in Seq(TurnSet) PROVE BedrockIs(MapSeq(BedrockMessage, turns), turns)
<1> DEFINE w == MapSeq(BedrockMessage, turns)
           n == Len(turns)
<1>1. n \in Nat /\ DOMAIN turns = 1..n
  BY LenProperties
<1>2. w = [j \in 1..n |-> BedrockMessage(turns[j])]
  BY <1>1 DEF MapSeq
<1> HIDE DEF w, n
<1>3. DOMAIN w = 1..n /\ \A j \in 1..n : w[j] = BedrockMessage(turns[j])
  BY <1>2
<1>4. Len(w) = n
  <2>1. \A j \in 1..n : w[j] \in {w[i] : i \in 1..n}
    OBVIOUS
  <2>2. w \in [1..n -> {w[i] : i \in 1..n}]
    BY <1>2, <1>3, <2>1
  <2>3. w \in Seq({w[i] : i \in 1..n})
    BY <1>1, <2>2, SeqDef
  <2> QED BY <1>1, <1>3, <2>3, LenProperties
<1>5. ASSUME NEW j \in 1..n
      PROVE  /\ SaysRight(w[j]) /\ w[j].text
             /\ w[j].calls = CallsIn(turns[j]) /\ w[j].answers = AnswersIn(turns[j])
             /\ turns[j].role = "user" => w[j].role = "user"
  <2>1. w[j] = BedrockMessage(turns[j])
    BY <1>3
  <2> QED BY <2>1 DEF BedrockMessage, Wire, SaysRight, CallsIn, AnswersIn
<1>6. BedrockIs(w, turns)
  BY <1>1, <1>3, <1>4, <1>5 DEF BedrockIs, n
<1> QED BY <1>6 DEF w

LEMMA WireInvTypes ==
  ASSUME WireInv PROVE WireTypeOK
<1>1. WholeHistory /\ Len(history) <= MaxMessages
  BY DEF WireInv, WholeHistory
<1>2. CASE requests = NotBuilt
  <2>1. DOMAIN requests = WireFormats /\ \A v \in WireFormats : requests[v] = <<>>
    BY <1>2 DEF NotBuilt
  <2>2. DOMAIN <<>> = {}
    OBVIOUS
  <2> QED BY <1>1, <2>1, <2>2 DEF WireTypeOK, WholeHistory
<1>3. CASE requests = [v \in WireFormats |-> Request(v, MapSeq(Converted, history))]
  <2>1. ASSUME NEW v \in WireFormats, NEW i \in DOMAIN requests[v] PROVE SaysRight(requests[v][i])
    <3>1. CASE v = "bedrock"
      <4> DEFINE turns == Merged(MapSeq(Converted, history))
      <4>1. turns \in Seq(TurnSet)
        BY <1>1, MergedTells DEF TurnsTell
      <4> HIDE DEF turns
      <4>2. BedrockIs(MapSeq(BedrockMessage, turns), turns)
        BY <4>1, BedrockSays
      <4>3. requests[v] = MapSeq(BedrockMessage, turns)
        BY <1>1, <1>3, <3>1, RequestsAre DEF turns
      <4>4. BedrockIs(requests[v], turns)
        BY <4>2, <4>3
      <4> QED BY <4>4, <2>1 DEF BedrockIs
    <3>2. CASE v # "bedrock"
      <4>1. i \in DOMAIN history
        BY <1>1, <1>3, <2>1, <3>2, RequestsAre
      <4> DEFINE t == Converted(history[i])
      <4>2. /\ requests["openai"][i] = OpenAIMessage(t)
                 /\ requests["openaicompat"][i] = CompatMessage(t)
            /\ requests["anthropic"][i] = AnthropicMessage(t)
                 /\ requests["ollama"][i] = OllamaMessage(t)
            /\ requests["vertex"][i] = VertexMessage(t)
        BY <1>1, <1>3, <4>1, RequestsAre
      <4>3. /\ SaysRight(OpenAIMessage(t)) /\ SaysRight(CompatMessage(t))
            /\ SaysRight(AnthropicMessage(t)) /\ SaysRight(OllamaMessage(t))
                 /\ SaysRight(VertexMessage(t))
        BY <1>1, <4>1, TurnsAreRight
      <4>4. v \in {"openai", "openaicompat", "anthropic", "ollama", "vertex"}
        BY <3>2 DEF WireFormats
      <4> HIDE DEF t
      <4> QED BY <4>2, <4>3, <4>4
    <3> QED BY <3>1, <3>2
  <2>2. DOMAIN requests = WireFormats
    BY <1>3
  <2> QED BY <1>1, <2>1, <2>2 DEF WireTypeOK, WholeHistory, SaysRight
<1> QED BY <1>2, <1>3 DEF WireInv

LEMMA WireInvPairs ==
  ASSUME WireInv PROVE RequestsKeepPairs
<1>1. WholeHistory /\ Len(history) \in Nat /\ DOMAIN history = 1..Len(history)
  BY LenProperties DEF WireInv, WholeHistory
<1> SUFFICES ASSUME requests # NotBuilt PROVE RequestsKeepPairs
  BY DEF RequestsKeepPairs
<1>2. requests = [v \in WireFormats |-> Request(v, MapSeq(Converted, history))]
  BY DEF WireInv
<1> DEFINE turns == Merged(MapSeq(Converted, history))
           w == requests["bedrock"]
           L == Len(history)
<1>3. TurnsTell(turns)
  BY <1>1, MergedTells
<1>4. turns \in Seq(TurnSet) /\ ApartIn(turns) /\ OutTells(turns) = ToldUpTo(L)
      /\ \A i \in 1..L : history[i].role # "tool" => \E p \in 1..Len(turns) : Heard(turns, p, i, L)
  BY <1>3 DEF TurnsTell
<1>5. BedrockIs(w, turns)
  <2>1. w = MapSeq(BedrockMessage, turns)
    BY <1>1, <1>2, RequestsAre
  <2> HIDE DEF turns, w
  <2> QED BY <1>4, <2>1, BedrockSays
<1> HIDE DEF turns, w
<1>6. ASSUME NEW v \in {"openai", "anthropic"}, NEW i \in DOMAIN history
      PROVE  requests[v][i].calls = CallsAt(i) /\ requests[v][i].answers = AnswersAt(i)
  <2> DEFINE t == Converted(history[i])
  <2>1. requests["openai"][i] = OpenAIMessage(t) /\ requests["anthropic"][i] = AnthropicMessage(t)
    BY <1>1, <1>2, <1>6, RequestsAre
  <2>2. /\ OpenAIMessage(t).calls = CallsAt(i) /\ OpenAIMessage(t).answers = AnswersAt(i)
        /\ AnthropicMessage(t).calls = CallsAt(i) /\ AnthropicMessage(t).answers = AnswersAt(i)
    BY <1>1, <1>6, TurnsAreRight
  <2> HIDE DEF t
  <2> QED BY <1>6, <2>1, <2>2
<1>7. ASSUME NEW i \in DOMAIN history, CallsAt(i) # <<>>
      PROVE  \E j \in DOMAIN w :
               /\ w[j].calls = CallsAt(i)
               /\ ToldAfter(i) # <<>> =>
                    j < Len(w) /\ w[j + 1].role = "user" /\ w[j + 1].answers = ToldAfter(i)
  <2>1. history[i].role # "tool" /\ i \in 1..L
    <3>1. MessageIs(history[i])
      BY <1>1, <1>7, HistoryIs
    <3> QED BY <1>1, <1>7, <3>1 DEF MessageIs, CallsAt
  <2>2. PICK p \in 1..Len(turns) : Heard(turns, p, i, L)
    BY <1>4, <2>1
  <2>3. ToldAfter(i) = ToldTo(i, L)
    BY DEF ToldAfter, ToldTo
  <2>4. CallsIn(turns[p]) = CallsAt(i) /\ p \in Nat
    BY <2>2 DEF Heard
  <2>5. ToldTo(i, L) # <<>> =>
          p + 1 <= Len(turns) /\ turns[p + 1].role = "user"
            /\ AnswersIn(turns[p + 1]) = ToldTo(i, L)
    <3>1. Len(turns) \in Nat
      BY <1>4, LenProperties
    <3>2. CASE Open(i, L) /\ i # L
      <4>1. Len(turns) = p + 1
        BY <2>2, <3>2 DEF Heard
      <4>2. p + 1 <= Len(turns)
        BY <2>4, <3>1, <4>1
      <4> QED BY <2>2, <3>2, <4>2 DEF Heard
    <3>3. CASE Open(i, L) /\ i = L
      BY <2>2, <3>3 DEF Heard
    <3>4. CASE ~Open(i, L)
      <4>1. ToldTo(i, L) # <<>> => p + 1 < Len(turns)
        BY <2>2, <3>4 DEF Heard
      <4>2. ToldTo(i, L) # <<>> => p + 1 <= Len(turns)
        BY <2>4, <3>1, <4>1
      <4> QED BY <2>2, <3>4, <4>2 DEF Heard
    <3> QED BY <3>2, <3>3, <3>4
  <2>6. PICK q : q = p + 1
    OBVIOUS
  <2>7. /\ Len(w) = Len(turns) /\ Len(w) \in Nat /\ DOMAIN w = 1..Len(w)
        /\ \A j \in 1..Len(w) :
             /\ w[j].calls = CallsIn(turns[j]) /\ w[j].answers = AnswersIn(turns[j])
             /\ turns[j].role = "user" => w[j].role = "user"
    BY <1>5 DEF BedrockIs
  <2>8. p \in DOMAIN w /\ w[p].calls = CallsAt(i)
    BY <2>4, <2>7
  <2>9. ToldTo(i, L) # <<>> => p < Len(w) /\ q \in 1..Len(w)
    BY <2>4, <2>5, <2>6, <2>7
  <2>10. ToldTo(i, L) # <<>> => w[q].role = "user" /\ w[q].answers = ToldTo(i, L)
    BY <2>5, <2>6, <2>7, <2>9
  <2> QED BY <2>3, <2>6, <2>8, <2>9, <2>10
<1>8. FlattenSeq([j \in DOMAIN w |-> w[j].answers])
        = FlattenSeq([i \in DOMAIN history |-> AnswersAt(i)])
  <2>1. DOMAIN w = DOMAIN turns /\ \A j \in DOMAIN w : w[j].answers = AnswersIn(turns[j])
    BY <1>4, <1>5, LenProperties DEF BedrockIs
  <2>2. [j \in DOMAIN w |-> w[j].answers] = [j \in DOMAIN turns |-> AnswersIn(turns[j])]
    BY <2>1
  <2> QED BY <1>1, <1>4, <2>2 DEF OutTells, ToldUpTo
<1>9. \A j \in 2..Len(w) : w[j].answers = <<>> \/ w[j - 1].answers = <<>>
  <2> SUFFICES ASSUME NEW j \in 2..Len(w) PROVE w[j].answers = <<>> \/ w[j - 1].answers = <<>>
    OBVIOUS
  <2>1. Len(w) \in Nat /\ Len(w) = Len(turns)
        /\ \A k \in 1..Len(w) : w[k].answers = AnswersIn(turns[k])
    BY <1>5 DEF BedrockIs
  <2>2. j \in 1..Len(w) /\ j - 1 \in 1..Len(w) /\ j \in 2..Len(turns)
    BY <2>1
  <2>3. AnswersIn(turns[j]) = <<>> \/ AnswersIn(turns[j - 1]) = <<>>
    BY <1>4, <2>2 DEF ApartIn
  <2>4. PICK k : k = j - 1
    OBVIOUS
  <2> QED BY <2>1, <2>2, <2>3, <2>4
<1>10. ASSUME NEW v \in WireFormats, NEW i \in DOMAIN requests[v]
       PROVE  requests[v][i].text \/ (v = "openai" /\ CallsAt(i) # <<>>)
  <2>1. CASE v = "bedrock"
    BY <1>5, <1>10, <2>1 DEF BedrockIs, w
  <2>2. CASE v # "bedrock"
    <3>1. i \in DOMAIN history
      BY <1>1, <1>2, <1>10, <2>2, RequestsAre
    <3> DEFINE t == Converted(history[i])
    <3>2. /\ requests["openai"][i] = OpenAIMessage(t)
               /\ requests["openaicompat"][i] = CompatMessage(t)
          /\ requests["anthropic"][i] = AnthropicMessage(t)
               /\ requests["ollama"][i] = OllamaMessage(t)
          /\ requests["vertex"][i] = VertexMessage(t)
      BY <1>1, <1>2, <3>1, RequestsAre
    <3>3. /\ OpenAIMessage(t).text \/ CallsAt(i) # <<>>
          /\ CompatMessage(t).text /\ AnthropicMessage(t).text /\ OllamaMessage(t).text
          /\ VertexMessage(t).text
      BY <1>1, <3>1, TurnsAreRight
    <3>4. v \in {"openai", "openaicompat", "anthropic", "ollama", "vertex"}
      BY <2>2 DEF WireFormats
    <3> HIDE DEF t
    <3> QED BY <3>2, <3>3, <3>4
  <2> QED BY <2>1, <2>2
<1> QED BY <1>6, <1>7, <1>8, <1>9, <1>10 DEF RequestsKeepPairs, w

LEMMA WireBegins ==
  WireInit => WireInv
<1> SUFFICES ASSUME WireInit PROVE WireInv
  OBVIOUS
<1>1. <<>> \in Seq(MemoryMessages) /\ Len(<<>>) = 0
  OBVIOUS
<1>2. 0 <= MaxMessages
  BY WireConfig
<1> QED BY <1>1, <1>2 DEF WireInit, WireInv

LEMMA WireStep ==
  WireInv /\ [WireNext]_wireVars => WireInv'
<1> SUFFICES ASSUME WireInv, [WireNext]_wireVars PROVE WireInv'
  OBVIOUS
<1>1. history \in Seq(MemoryMessages) /\ Len(history) <= MaxMessages /\ Len(history) \in Nat
  BY LenProperties DEF WireInv
<1>2. ASSUME BuildRequests PROVE WireInv'
  BY <1>1, <1>2 DEF BuildRequests, WireInv
<1>3. ASSUME NEW m \in MemoryMessages, AppendMessage(m) PROVE WireInv'
  <2>1. /\ requests = NotBuilt /\ Len(history) < MaxMessages /\ history' = Append(history, m)
        /\ requests' = requests
    BY <1>3 DEF AppendMessage
  <2>2. history' \in Seq(MemoryMessages) /\ Len(history') = Len(history) + 1
    BY <1>1, <2>1, AppendProperties
  <2>3. Len(history') <= MaxMessages
    BY <1>1, <2>1, <2>2, WireConfig
  <2>4. NotBuilt' = NotBuilt
    BY DEF NotBuilt
  <2> QED BY <2>1, <2>2, <2>3, <2>4 DEF WireInv
<1>4. ASSUME UNCHANGED wireVars PROVE WireInv'
  <2>1. history' = history /\ requests' = requests
    BY <1>4 DEF wireVars
  <2>2. NotBuilt' = NotBuilt
    BY DEF NotBuilt
  <2> QED BY <2>1, <2>2 DEF WireInv
<1> QED BY <1>2, <1>3, <1>4 DEF WireNext

LEMMA WireKeeps ==
  WireInit /\ [][WireNext]_wireVars => [](WireTypeOK /\ RequestsKeepPairs)
<1>1. WireInv => WireTypeOK /\ RequestsKeepPairs
  BY WireInvTypes, WireInvPairs
<1> QED BY <1>1, WireBegins, WireStep, PTL

-----------------------------------------------------------------------------
(* The calls of the failover provider *)

\* A breaker's update keeps the types of the breakers.
LEMMA RecordFailureType ==
  ASSUME FailoverTypeOK, NEW p \in Primaries, RecordFailure(p)
  PROVE  /\ failures' \in [Primaries -> 0..BreakerThreshold]
         /\ openFor' \in [Primaries -> -1..BreakerCooldown]
<1> DEFINE n == IF failures[p] < BreakerThreshold THEN failures[p] + 1 ELSE failures[p]
<1>1. n \in 0..BreakerThreshold
  BY FailoverConfig DEF FailoverTypeOK
<1>2. failures' = [failures EXCEPT ![p] = n]
  BY DEF RecordFailure
<1>3. openFor' = openFor \/ openFor' = [openFor EXCEPT ![p] = BreakerCooldown]
  BY DEF RecordFailure
<1>4. BreakerCooldown \in -1..BreakerCooldown
  BY FailoverConfig
<1> QED BY <1>1, <1>2, <1>3, <1>4 DEF FailoverTypeOK

LEMMA ResetBreakerType ==
  ASSUME FailoverTypeOK, NEW p \in Primaries, ResetBreaker(p)
  PROVE  /\ failures' \in [Primaries -> 0..BreakerThreshold]
         /\ openFor' \in [Primaries -> -1..BreakerCooldown]
<1>1. 0 \in 0..BreakerThreshold
  BY FailoverConfig
<1> QED BY <1>1 DEF FailoverTypeOK, ResetBreaker

LEMMA FailoverBegins == FailoverInit => FailoverTypeOK
<1>1. 0 \in 0..BreakerThreshold /\ -1 \in -1..BreakerCooldown
  BY FailoverConfig
<1> QED BY <1>1 DEF FailoverInit, FailoverTypeOK, Unseen, Ended

\* Every step keeps the types.
LEMMA FailoverStep == FailoverTypeOK /\ [FailoverNext]_failoverVars => FailoverTypeOK'
<1> SUFFICES ASSUME FailoverTypeOK, [FailoverNext]_failoverVars PROVE FailoverTypeOK'
  OBVIOUS
<1> USE DEF Ended
<1>1. ASSUME NEW c \in Calls, BeginCall(c) PROVE FailoverTypeOK'
  BY <1>1 DEF BeginCall, FailoverTypeOK
<1>2. ASSUME NEW c \in Calls, Survey(c) PROVE FailoverTypeOK'
  <2>1. PICK p \in Primaries :
          verdict' = [verdict EXCEPT ![c][p] = IF IsOpen(p) THEN "open" ELSE "closed"]
    BY <1>2 DEF Survey
  <2> QED BY <1>2, <2>1 DEF Survey, FailoverTypeOK
<1>3. ASSUME NEW c \in Calls, PrimaryAnswers(c) PROVE FailoverTypeOK'
  BY <1>3, ResetBreakerType DEF PrimaryAnswers, FailoverTypeOK
<1>4. ASSUME NEW c \in Calls, PrimaryFails(c) PROVE FailoverTypeOK'
  <2>1. PICK p \in Primaries :
          RecordFailure(p) /\ verdict' = [verdict EXCEPT ![c][p] = "failed"]
    BY <1>4 DEF PrimaryFails
  <2> QED BY <1>4, <2>1, RecordFailureType DEF PrimaryFails, FailoverTypeOK
<1>5. ASSUME NEW c \in Calls, PrimaryRefuses(c) PROVE FailoverTypeOK'
  BY <1>5 DEF PrimaryRefuses, FailoverTypeOK
<1>6. ASSUME NEW c \in Calls, Exhausted(c) PROVE FailoverTypeOK'
  BY <1>6 DEF Exhausted, FailoverTypeOK
<1>7. ASSUME NEW c \in Calls, FallbackReturns(c) PROVE FailoverTypeOK'
  BY <1>7 DEF FallbackReturns, FailoverTypeOK
<1>8. ASSUME NEW c \in Calls, CallReturns(c) PROVE FailoverTypeOK'
  BY <1>8 DEF CallReturns, FailoverTypeOK, Unseen
<1>9. CASE CooldownPasses
  <2>1. \A p \in Primaries :
          (IF openFor[p] >= 0 THEN openFor[p] - 1 ELSE -1) \in -1..BreakerCooldown
    BY FailoverConfig DEF FailoverTypeOK
  <2> QED BY <1>9, <2>1 DEF CooldownPasses, FailoverTypeOK
<1>10. CASE Recover
  BY <1>10 DEF Recover, FailoverTypeOK
<1>11. CASE UNCHANGED failoverVars
  BY <1>11 DEF failoverVars, FailoverTypeOK
<1> QED BY <1>1, <1>2, <1>3, <1>4, <1>5, <1>6, <1>7, <1>8, <1>9, <1>10, <1>11
        DEF FailoverNext, CallStep

\* A call that has left the loop does not look at the primaries again.
LEMMA OverlookedStep ==
  FailoverTypeOK /\ NoPrimaryOverlooked /\ [FailoverNext]_failoverVars => NoPrimaryOverlooked'
<1> SUFFICES ASSUME FailoverTypeOK, NoPrimaryOverlooked, [FailoverNext]_failoverVars,
                    NEW d \in Calls
             PROVE  /\ call'[d] \in {"fallback", "nothing"} =>
                         (WithVerdict(d, "open") \union WithVerdict(d, "failed") = Primaries)'
                    /\ call'[d] = "nothing" =>
                         ~hasFallback' /\ (WithVerdict(d, "open") = Primaries)'
  BY DEF NoPrimaryOverlooked
<1>1. \A v : verdict'[d] = verdict[d] => WithVerdict(d, v)' = WithVerdict(d, v)
  BY DEF WithVerdict
<1>2. CASE call'[d] = call[d] /\ verdict'[d] = verdict[d] /\ hasFallback' = hasFallback
  BY <1>1, <1>2 DEF NoPrimaryOverlooked
<1>3. CASE call'[d] \notin {"fallback", "nothing"}
  BY <1>3
<1>4. ASSUME Exhausted(d) PROVE
        /\ call'[d] \in {"fallback", "nothing"} =>
             (WithVerdict(d, "open") \union WithVerdict(d, "failed") = Primaries)'
        /\ call'[d] = "nothing" => ~hasFallback' /\ (WithVerdict(d, "open") = Primaries)'
  <2>1. \A p \in Primaries : verdict[d][p] \in {"open", "failed"}
    BY <1>4 DEF Exhausted, WithVerdict, FailoverTypeOK
  <2>2. WithVerdict(d, "open") \union WithVerdict(d, "failed") = Primaries
    BY <2>1 DEF WithVerdict
  <2>3. call'[d] = "nothing" => ~hasFallback /\ WithVerdict(d, "failed") = {}
    BY <1>4 DEF Exhausted, FailoverTypeOK
  <2>4. verdict' = verdict /\ hasFallback' = hasFallback
    BY <1>4 DEF Exhausted
  <2> QED BY <1>1, <2>2, <2>3, <2>4
\* Every other step leaves the call and its view alone, or starts in the loop
\* and stays there, or ends the call with an answer, an error, or for good.
<1>5. ASSUME NEW c \in Calls, BeginCall(c) \/ CallStep(c), ~Exhausted(d)
      PROVE  \/ call'[d] = call[d] /\ verdict'[d] = verdict[d] /\ hasFallback' = hasFallback
             \/ call'[d] \notin {"fallback", "nothing"}
  <2>1. CASE BeginCall(c)
    BY <2>1 DEF BeginCall, FailoverTypeOK
  <2>2. CASE Survey(c)
    BY <2>2 DEF Survey, FailoverTypeOK
  <2>3. CASE PrimaryAnswers(c)
    BY <2>3 DEF PrimaryAnswers, FailoverTypeOK
  <2>4. CASE PrimaryFails(c)
    BY <2>4 DEF PrimaryFails, Asks, FailoverTypeOK
  <2>5. CASE PrimaryRefuses(c)
    BY <2>5 DEF PrimaryRefuses, FailoverTypeOK
  <2>6. CASE Exhausted(c)
    <3>1. c # d
      BY <2>6, <1>5
    <3> QED BY <2>6, <3>1 DEF Exhausted, FailoverTypeOK
  <2>7. CASE FallbackReturns(c)
    BY <2>7 DEF FallbackReturns, FailoverTypeOK
  <2>8. CASE CallReturns(c)
    BY <2>8 DEF CallReturns, FailoverTypeOK
  <2> QED BY <1>5, <2>1, <2>2, <2>3, <2>4, <2>5, <2>6, <2>7, <2>8 DEF CallStep
<1>6. CASE CooldownPasses \/ Recover \/ UNCHANGED failoverVars
  BY <1>2, <1>6 DEF CooldownPasses, Recover, failoverVars
<1> QED BY <1>2, <1>3, <1>4, <1>5, <1>6 DEF FailoverNext

\* The counters and deadlines of the breakers and every call's view of the
\* primaries stay in their ranges, whatever calls run side by side.
THEOREM TypeCorrect == FailoverSpec => []FailoverTypeOK
  BY FailoverBegins, FailoverStep, PTL DEF FailoverSpec

\* A call that reaches the fallback, or ends with neither an answer nor an error,
\* found each primary's breaker open or saw the primary fail.
THEOREM EveryPrimaryCounts == FailoverSpec => []NoPrimaryOverlooked
<1>1. FailoverInit => NoPrimaryOverlooked
  BY DEF FailoverInit, NoPrimaryOverlooked
<1> QED BY <1>1, OverlookedStep, TypeCorrect, PTL DEF FailoverSpec

-----------------------------------------------------------------------------
(* The buffer *)

\* The tokens up to n, in order.
UpTo(n) == [i \in 1..n |-> i]

LEMMA UpToNext ==
  ASSUME NEW n \in Nat
  PROVE  UpTo(n) \in Seq(Nat) /\ Len(UpTo(n)) = n /\ UpTo(n + 1) = Append(UpTo(n), n + 1)
<1>1. ASSUME NEW k \in Nat PROVE UpTo(k) \in Seq(Nat) /\ Len(UpTo(k)) = k
  BY DEF UpTo
<1>2. UpTo(n + 1) \in Seq(Nat) /\ Append(UpTo(n), n + 1) \in Seq(Nat)
  BY <1>1
<1>3. Len(Append(UpTo(n), n + 1)) = n + 1 /\ Len(UpTo(n + 1)) = n + 1
  BY <1>1
<1>4. ASSUME NEW i \in 1..(n + 1) PROVE UpTo(n + 1)[i] = Append(UpTo(n), n + 1)[i]
  BY <1>1 DEF UpTo
<1>5. UpTo(n + 1) = Append(UpTo(n), n + 1)
  BY <1>2, <1>3, <1>4, SeqEqual
<1> QED BY <1>1, <1>5

LEMMA ConcatLast ==
  ASSUME NEW s \in Seq(Nat), NEW r \in Seq(Nat), NEW x \in Nat
  PROVE  s \o Append(r, x) = Append(s \o r, x) /\ Append(s \o r, x) \o <<>> = Append(s \o r, x)
<1>1. <<x>> \in Seq(Nat) /\ s \o r \in Seq(Nat) /\ Append(r, x) = r \o <<x>>
  BY AppendIsConcat
<1>2. s \o Append(r, x) = (s \o r) \o <<x>>
  BY <1>1, ConcatAssociative
<1>3. Append(s \o r, x) = (s \o r) \o <<x>> /\ Append(s \o r, x) \in Seq(Nat)
  BY <1>1, AppendIsConcat, AppendProperties
<1> QED BY <1>2, <1>3, ConcatEmptySeq

\* Nothing in the sequence was there when n tokens had been pushed.
OnlyLater(s, n) == \A i \in DOMAIN s : s[i] > n

LEMMA StaysLater ==
  ASSUME NEW s \in Seq(Nat), NEW x \in Nat, NEW n \in Nat, x > n
  PROVE  OnlyLater(<<>>, n) /\ (OnlyLater(s, n) => OnlyLater(Append(s, x), n))
<1>1. OnlyLater(<<>>, n)
  BY DEF OnlyLater
<1>2. ASSUME OnlyLater(s, n) PROVE OnlyLater(Append(s, x), n)
  <2>1. Append(s, x) \in Seq(Nat) /\ Len(Append(s, x)) = Len(s) + 1 /\ Len(s) \in Nat
    BY AppendProperties, LenProperties
  <2>2. ASSUME NEW i \in DOMAIN Append(s, x) PROVE Append(s, x)[i] > n
    <3>1. i \in 1..(Len(s) + 1)
      BY <2>1, LenProperties
    <3> QED BY <1>2, <2>1, <3>1, AppendProperties DEF OnlyLater
  <2> QED BY <2>2 DEF OnlyLater
<1> QED BY <1>1, <1>2

BufferInv ==
  /\ BufferTypeOK
  /\ handed \o buffer = UpTo(pushed)
  /\ atDone <= pushed
  /\ turn = "done" => OnlyLater(buffer, atDone)

LEMMA BufferBegins == BufferInit => BufferInv
<1> SUFFICES ASSUME BufferInit PROVE BufferInv
  OBVIOUS
<1>1. <<>> \in Seq(Nat) /\ <<>> \o <<>> = <<>> /\ UpTo(0) = <<>>
  BY DEF UpTo
<1>2. 0 \in 0..MaxTokens /\ 0 \in 0..MaxEmpty
  BY BufferConfig
<1>3. BufferTypeOK
  BY <1>1, <1>2 DEF BufferInit, BufferTypeOK
<1>4. OnlyLater(<<>>, 0)
  BY DEF OnlyLater
<1> QED BY <1>1, <1>3, <1>4 DEF BufferInit, BufferInv

\* What a flush leaves: all the tokens, in the buffer or with the target.
LEMMA FlushKeeps ==
  ASSUME handed \in Seq(Nat), NEW content \in Seq(Nat), FlushLocked(content)
  PROVE  /\ handed' \in Seq(Nat) /\ buffer' = <<>>
         /\ handed' \o buffer' = handed \o content
         /\ flushTimer' \in {"nil", flushTimer} /\ armed' \in {FALSE, armed}
<1>1. handed \o <<>> = handed /\ (handed \o content) \o <<>> = handed \o content
      /\ handed \o content \in Seq(Nat)
  BY ConcatEmptySeq, ConcatProperties
<1> QED BY <1>1 DEF FlushLocked

LEMMA BufferStep == BufferInv /\ [BufferNext]_bufferVars => BufferInv'
<1> SUFFICES ASSUME BufferInv, [BufferNext]_bufferVars PROVE BufferInv'
  OBVIOUS
<1> USE DEF BufferInv, BufferTypeOK
<1>0. <<>> \in Seq(Nat) /\ OnlyLater(<<>>, atDone) /\ OnlyLater(<<>>, pushed)
  BY DEF OnlyLater
<1>1. CASE Push \/ PushResult
  <2> DEFINE content == Append(buffer, pushed + 1)
  <2>1. pushed \in Nat /\ pushed + 1 \in Nat /\ pushed + 1 \in 0..MaxTokens /\ pushed' = pushed + 1
    BY <1>1, BufferConfig DEF Push, PushResult, Take
  <2>2. content \in Seq(Nat) /\ handed \o content = UpTo(pushed + 1)
    <3>1. /\ content \in Seq(Nat)
          /\ handed \o content = Append(handed \o buffer, pushed + 1)
      <4>1. handed \in Seq(Nat) /\ buffer \in Seq(Nat) /\ pushed + 1 \in Nat
        BY <2>1
      <4> QED BY <4>1, ConcatLast, AppendProperties
    <3>2. UpTo(pushed + 1) = Append(UpTo(pushed), pushed + 1)
      BY <2>1, UpToNext
    <3> QED BY <3>1, <3>2
  <2>3. /\ UNCHANGED <<empties, callbacks, turn, atDone, emptyFirst>> /\ goal' \in BOOLEAN
        /\ atDone' <= pushed'
    <3>1. UNCHANGED <<empties, callbacks, turn, atDone, emptyFirst>> /\ goal' \in {FALSE, goal}
      BY <1>1 DEF Push, PushResult, Take
    <3>2. atDone <= pushed + 1
      BY BufferConfig
    <3> QED BY <2>1, <3>1, <3>2
  <2>6. turn = "done" => OnlyLater(content, atDone)
    <3>1. atDone \in Nat /\ pushed + 1 > atDone
      BY <2>1, BufferConfig
    <3> QED BY <2>1, <3>1, StaysLater
  <2>4. CASE FlushLocked(content)
    <3> HIDE DEF content
    <3> QED BY <1>0, <2>1, <2>2, <2>3, <2>4, FlushKeeps
  <2>5. CASE buffer' = content /\ SetTimer /\ UNCHANGED handed
    <3> HIDE DEF content
    <3> QED BY <2>1, <2>2, <2>3, <2>5, <2>6 DEF SetTimer
  <2> QED BY <1>1, <2>4, <2>5 DEF Push, PushResult, Take
<1>2. CASE PushEmpty
  <2>1. empties + 1 \in 0..MaxEmpty
    BY <1>2, BufferConfig DEF PushEmpty
  <2> QED BY <1>2, <2>1 DEF PushEmpty, SetTimer
<1>3. CASE TimerExpires
  <2>1. callbacks + 1 \in Nat
    OBVIOUS
  <2> QED BY <1>3, <2>1 DEF TimerExpires
<1>4. CASE Callback
  <2>1. callbacks - 1 \in Nat /\ FlushLocked(buffer)
    BY <1>4 DEF Callback
  <2> QED BY <1>0, <1>4, <2>1, FlushKeeps DEF Callback
<1>5. CASE BufferDone
  <2>1. FlushLocked(buffer)
    BY <1>5 DEF BufferDone
  <2>2. pushed \in 0..MaxTokens /\ pushed <= pushed
    BY BufferConfig
  <2> QED BY <1>0, <1>5, <2>1, <2>2, FlushKeeps DEF BufferDone
<1>6. CASE UNCHANGED bufferVars
  BY <1>6 DEF bufferVars
<1> QED BY <1>1, <1>2, <1>3, <1>4, <1>5, <1>6 DEF BufferNext

LEMMA BufferKeeps == BufferInv => BufferTypeOK /\ TokensInOrder
  BY DEF BufferInv, OnlyLater, TokensInOrder, UpTo

-----------------------------------------------------------------------------
(* A channel *)

Stands == {"new", "ignored", "accepted", "bridged", "running", "done"}

\* WhatsApp has no slots, the others none for an event that has not got one.
SlotsInv ==
  /\ IsFiniteSet(outer) /\ IsFiniteSet(Running)
  /\ \A m \in outer : inbound[m] \in {"bridged", "running", "done"}
  /\ channel = "whatsapp"
       => outer = {} /\ \A m \in Inbox : inbound[m] \notin {"accepted", "bridged"}

\* No text is posted twice.
TextsInv ==
  /\ held \in [Inbox -> Nat] /\ posted \in [Inbox -> Nat] /\ said \in [Inbox -> 0..MaxText]
  /\ \A m \in Inbox : held[m] + posted[m] <= said[m]

ChannelInv == ChannelTypeOK /\ SlotsInv /\ TextsInv

LEMMA ChannelBegins == ChannelInit => ChannelInv
<1> SUFFICES ASSUME ChannelInit PROVE ChannelInv
  OBVIOUS
<1>1. Running = {} /\ outer = {} /\ IsFiniteSet({}) /\ Cardinality({}) = 0
  BY FS_EmptySet DEF ChannelInit, Running
<1>2. Used = 0
  BY <1>1 DEF Used
<1>3. 0 \in 0..MaxText /\ Slots \in Nat
  BY ChannelAssumption
<1>4. {held, said, posted} \subseteq [Inbox -> 0..MaxText]
  BY <1>3 DEF ChannelInit
<1>5. ChannelTypeOK
  <2>1. Used <= (IF channel = "whatsapp" THEN 0 ELSE Slots)
    BY <1>2, <1>3
  <2>2. inbound \in [Inbox -> Stands]
    BY DEF ChannelInit, Stands
  <2> HIDE DEF Used
  <2> QED BY <1>4, <2>1, <2>2 DEF ChannelInit, ChannelTypeOK, Stands
<1>6. TextsInv
  BY <1>3 DEF ChannelInit, TextsInv
<1>7. SlotsInv
  BY <1>1 DEF ChannelInit, SlotsInv
<1> QED BY <1>5, <1>6, <1>7 DEF ChannelInv

\* Steps that leave the texts alone.
LEMMA TextsStay == TextsInv /\ UNCHANGED <<held, said, posted>> => TextsInv'
  BY DEF TextsInv

LEMMA TextTypes == TextsInv => {held, said, posted} \subseteq [Inbox -> 0..MaxText]
<1> SUFFICES ASSUME TextsInv
             PROVE  held \in [Inbox -> 0..MaxText] /\ posted \in [Inbox -> 0..MaxText]
  BY DEF TextsInv
<1>1. ASSUME NEW m \in Inbox PROVE held[m] \in 0..MaxText /\ posted[m] \in 0..MaxText
  <2>1. held[m] \in Nat /\ posted[m] \in Nat /\ said[m] \in 0..MaxText
        /\ held[m] + posted[m] <= said[m]
    BY DEF TextsInv
  <2> QED BY <2>1, ChannelAssumption
<1> QED BY <1>1 DEF TextsInv

\* Steps that leave the slots alone.
LEMMA SlotsStay ==
  ASSUME SlotsInv, ChannelTypeOK, UNCHANGED <<channel, inbound, outer>>
  PROVE  SlotsInv' /\ Used' = Used
<1>1. Running' = Running
  BY DEF Running
<1> QED BY <1>1 DEF SlotsInv, Used

LEMMA EndOfTurn ==
  ASSUME SlotsInv, ChannelTypeOK, NEW m \in Inbox, inbound[m] = "running",
         inbound' = [inbound EXCEPT ![m] = "done"], UNCHANGED <<channel, outer>>
  PROVE  SlotsInv' /\ Used' <= (IF channel = "whatsapp" THEN 0 ELSE Slots)
         /\ inbound' \in [Inbox -> Stands]
<1>0. inbound \in [Inbox -> Stands] /\ Slots \in Nat
  BY ChannelAssumption DEF ChannelTypeOK, Stands
<1>1. Running' = Running \ {m} /\ m \in Running
  BY <1>0 DEF Running
<1>2. IsFiniteSet(Running') /\ Cardinality(Running') = Cardinality(Running) - 1
      /\ Cardinality(Running) \in Nat /\ Cardinality(outer) \in Nat
  BY <1>1, FS_RemoveElement, FS_CardinalityType DEF SlotsInv
<1>3. Used' <= (IF channel = "whatsapp" THEN 0 ELSE Slots)
  BY <1>0, <1>2 DEF Used, ChannelTypeOK
<1> QED BY <1>0, <1>2, <1>3 DEF SlotsInv, Stands

\* What a post, or holding back, makes of n pieces of text.
LEMMA Handled ==
  ASSUME TextsInv, NEW m \in Inbox, NEW n \in Nat, n + posted[m] <= said'[m],
         \A k \in Inbox : said[k] <= said'[k], said' \in [Inbox -> 0..MaxText],
         Post(m, n) \/ HoldBack(m, n)
  PROVE  TextsInv' /\ refused' \in {refused, refused \union {m}}
<1>0. /\ held \in [Inbox -> Nat] /\ posted \in [Inbox -> Nat] /\ said \in [Inbox -> 0..MaxText]
      /\ \A k \in Inbox : held[k] + posted[k] <= said[k]
  BY DEF TextsInv
<1>1. PICK k \in 0..n :
        /\ \/ held' = [held EXCEPT ![m] = 0] /\ posted' = [posted EXCEPT ![m] = @ + k]
           \/ held' = [held EXCEPT ![m] = n] /\ posted' = posted
        /\ refused' \in {refused, refused \union {m}}
  <2>0. 0 \in 0..n /\ n \in 0..n /\ 0..(n - 1) \subseteq 0..n
    OBVIOUS
  <2>1. CASE held' = [held EXCEPT ![m] = 0] /\ posted' = [posted EXCEPT ![m] = @ + n]
             /\ UNCHANGED refused
    BY <2>0, <2>1
  <2>2. CASE held' = [held EXCEPT ![m] = n] /\ UNCHANGED posted
             /\ refused' \in {refused, refused \union {m}}
    BY <2>0, <2>2
  <2>3. CASE /\ refused' = refused \union {m} /\ held' = [held EXCEPT ![m] = 0]
             /\ \E k \in 0..(n - 1) : posted' = [posted EXCEPT ![m] = @ + k]
    <3>1. PICK k \in 0..(n - 1) : posted' = [posted EXCEPT ![m] = @ + k]
      BY <2>3
    <3> QED BY <2>0, <2>3, <3>1
  <2> QED BY <2>1, <2>2, <2>3 DEF Post, HoldBack
<1>2. held' \in [Inbox -> Nat] /\ posted' \in [Inbox -> Nat]
  <2>1. posted[m] + k \in Nat /\ 0 \in Nat
    BY <1>0
  <2> QED BY <1>0, <1>1, <2>1
<1>3. ASSUME NEW o \in Inbox PROVE held'[o] + posted'[o] <= said'[o]
  <2>1. held[o] \in Nat /\ posted[o] \in Nat /\ said[o] \in Nat /\ said'[o] \in Nat
        /\ held[o] + posted[o] <= said[o] /\ said[o] <= said'[o]
    BY <1>0, ChannelAssumption
  <2>2. CASE o # m
    <3>1. held'[o] = held[o] /\ posted'[o] = posted[o]
      BY <1>0, <1>1, <2>2
    <3> QED BY <2>1, <3>1
  <2>3. CASE o = m
    <3>1. \/ held'[m] = 0 /\ posted'[m] = posted[m] + k
          \/ held'[m] = n /\ posted'[m] = posted[m]
      BY <1>0, <1>1
    <3> QED BY <2>1, <2>3, <3>1
  <2> QED BY <2>2, <2>3
<1> QED BY <1>1, <1>2, <1>3 DEF TextsInv

LEMMA ChannelStep == ChannelInv /\ [ChannelNext]_channelVars => ChannelInv'
<1> SUFFICES ASSUME ChannelInv, [ChannelNext]_channelVars PROVE ChannelInv'
  OBVIOUS
<1>0. ChannelTypeOK /\ SlotsInv /\ TextsInv /\ inbound \in [Inbox -> Stands]
      /\ Slots \in Nat /\ Cardinality(outer) \in Nat /\ Cardinality(Running) \in Nat
      /\ Used <= (IF channel = "whatsapp" THEN 0 ELSE Slots)
  BY ChannelAssumption, FS_CardinalityType DEF ChannelInv, SlotsInv, ChannelTypeOK, Stands
<1>1. CASE Stop
  <2>1. SlotsInv' /\ Used' = Used
    BY <1>0, <1>1, SlotsStay DEF Stop
  <2> QED BY <1>0, <1>1, <2>1, TextsStay DEF Stop, ChannelInv, ChannelTypeOK
<1>2. ASSUME NEW m \in Inbox, ReceiveEvent(m) PROVE ChannelInv'
  <2>1. PICK e \in {"ignored", "accepted", "running"} :
          /\ inbound' = [inbound EXCEPT ![m] = e]
          /\ channel = "whatsapp" => e # "accepted"
          /\ e = "running" => channel = "whatsapp"
    BY <1>2 DEF ReceiveEvent
  <2>2. inbound[m] = "new"
          /\ UNCHANGED <<channel, dmMode, outer, held, stopped, said, posted, refused, open, told>>
    BY <1>2 DEF ReceiveEvent
  <2>3. Running' = Running \/ Running' = Running \union {m}
    BY <1>0, <2>1, <2>2 DEF Running
  <2>4. IsFiniteSet(Running')
    BY <1>0, <2>3, FS_AddElement DEF SlotsInv
  <2>5. channel # "whatsapp" => Running' = Running
    BY <1>0, <2>1, <2>2 DEF Running
  <2>6. Used' = Used
    BY <2>2, <2>5 DEF Used
  <2>7. m \notin outer
    BY <1>0, <2>2 DEF SlotsInv
  <2>8. SlotsInv'
    BY <1>0, <2>1, <2>2, <2>4, <2>7 DEF SlotsInv, Stands
  <2> QED BY <1>0, <2>1, <2>2, <2>6, <2>8, TextsStay DEF ChannelInv, ChannelTypeOK, Stands
<1>3. ASSUME NEW m \in Inbox, TakeSlot(m) PROVE ChannelInv'
  <2>1. Running' = Running /\ m \notin outer /\ channel # "whatsapp" /\ outer' = outer \union {m}
    BY <1>0, <1>3 DEF TakeSlot, Running, SlotsInv
  <2>2. IsFiniteSet(outer') /\ Cardinality(outer') = Cardinality(outer) + 1
    BY <1>0, <2>1, FS_AddElement DEF SlotsInv
  <2>3. Used' <= (IF channel = "whatsapp" THEN 0 ELSE Slots)
    BY <1>0, <1>3, <2>1, <2>2 DEF TakeSlot, Used
  <2>4. SlotsInv'
    BY <1>0, <1>3, <2>1, <2>2 DEF TakeSlot, SlotsInv, Stands
  <2> QED BY <1>0, <1>3, <2>3, <2>4, TextsStay DEF TakeSlot, ChannelInv, ChannelTypeOK, Stands
<1>4. ASSUME NEW m \in Inbox, TakeSecondSlot(m) PROVE ChannelInv'
  <2>1. Running' = Running \union {m} /\ m \notin Running /\ channel # "whatsapp" /\ outer' = outer
    BY <1>0, <1>4 DEF TakeSecondSlot, Running, SlotsInv
  <2>2. IsFiniteSet(Running') /\ Cardinality(Running') = Cardinality(Running) + 1
    BY <1>0, <2>1, FS_AddElement DEF SlotsInv
  <2>3. Used' <= (IF channel = "whatsapp" THEN 0 ELSE Slots)
    BY <1>0, <1>4, <2>1, <2>2 DEF TakeSecondSlot, Used
  <2>4. SlotsInv'
    BY <1>0, <1>4, <2>1, <2>2 DEF TakeSecondSlot, SlotsInv, Stands
  <2> QED BY <1>0, <1>4, <2>3, <2>4, TextsStay DEF TakeSecondSlot, ChannelInv, ChannelTypeOK, Stands
<1>5. ASSUME NEW m \in Inbox, BridgeReturns(m) PROVE ChannelInv'
  <2>1. Running' = Running /\ channel # "whatsapp" /\ outer' = outer \ {m} /\ m \in outer
    BY <1>0, <1>5 DEF BridgeReturns, Running, SlotsInv
  <2>2. IsFiniteSet(outer') /\ Cardinality(outer') = Cardinality(outer) - 1
    BY <1>0, <2>1, FS_RemoveElement DEF SlotsInv
  <2>3. Used' <= (IF channel = "whatsapp" THEN 0 ELSE Slots)
    BY <1>0, <1>5, <2>1, <2>2 DEF BridgeReturns, Used
  <2>4. SlotsInv'
    BY <1>0, <1>5, <2>1, <2>2 DEF BridgeReturns, SlotsInv, Stands
  <2> QED BY <1>0, <1>5, <2>3, <2>4, TextsStay DEF BridgeReturns, ChannelInv, ChannelTypeOK, Stands
<1>6. ASSUME NEW m \in Inbox, Say(m) \/ TellResult(m) PROVE ChannelInv'
  <2>0. /\ UNCHANGED <<channel, dmMode, inbound, outer, stopped, open>>
        /\ told' \subseteq open
        /\ said[m] < MaxText /\ said' = [said EXCEPT ![m] = @ + 1]
        /\ ReplyText(m, held[m] + 1, FALSE)
    BY <1>0, <1>6 DEF Say, TellResult, ChannelTypeOK
  <2>1. said' \in [Inbox -> 0..MaxText] /\ \A k \in Inbox : said[k] <= said'[k]
        /\ held[m] + 1 \in Nat /\ held[m] + 1 + posted[m] <= said'[m]
    BY <1>0, <2>0, ChannelAssumption DEF TextsInv
  <2>2. Post(m, held[m] + 1) \/ HoldBack(m, held[m] + 1)
    BY <2>0 DEF ReplyText, SlackReply, BufferedReply
  <2>3. TextsInv' /\ refused' \in {refused, refused \union {m}}
    BY <1>0, <2>1, <2>2, Handled
  <2>4. SlotsInv' /\ Used' = Used
    BY <1>0, <2>0, SlotsStay
  <2>5. {held, said, posted}' \subseteq [Inbox -> 0..MaxText]
    <3>1. (TextsInv => {held, said, posted} \subseteq [Inbox -> 0..MaxText])'
      BY TextTypes, PTL
    <3> QED BY <2>3, <3>1
  <2> QED BY <1>0, <2>0, <2>3, <2>4, <2>5 DEF ChannelInv, ChannelTypeOK
<1>7. ASSUME NEW m \in Inbox, BufferTimer(m) PROVE ChannelInv'
  <2>1. said' \in [Inbox -> 0..MaxText] /\ (\A k \in Inbox : said[k] <= said'[k])
        /\ held[m] \in Nat /\ held[m] + posted[m] <= said'[m]
    BY <1>0, <1>7, ChannelAssumption DEF BufferTimer, TextsInv
  <2>3. TextsInv' /\ refused' \in {refused, refused \union {m}}
    BY <1>0, <1>7, <2>1, Handled DEF BufferTimer
  <2>4. SlotsInv' /\ Used' = Used
    BY <1>0, <1>7, SlotsStay DEF BufferTimer
  <2>5. {held, said, posted}' \subseteq [Inbox -> 0..MaxText]
    <3>1. (TextsInv => {held, said, posted} \subseteq [Inbox -> 0..MaxText])'
      BY TextTypes, PTL
    <3> QED BY <2>3, <3>1
  <2> QED BY <1>0, <1>7, <2>3, <2>4, <2>5 DEF BufferTimer, ChannelInv, ChannelTypeOK
<1>8. ASSUME NEW m \in Inbox, OnDone(m) \/ EndWithout(m) PROVE ChannelInv'
  <2>0. inbound[m] = "running" /\ inbound' = [inbound EXCEPT ![m] = "done"]
        /\ UNCHANGED <<channel, dmMode, outer, stopped, said>>
        /\ open' \in {open, open \union {m}} /\ told' = told
    BY <1>8 DEF OnDone, EndWithout
  <2>1. said' \in [Inbox -> 0..MaxText] /\ (\A k \in Inbox : said[k] <= said'[k])
        /\ held[m] \in Nat /\ held[m] + posted[m] <= said'[m]
    BY <1>0, <2>0, ChannelAssumption DEF TextsInv
  <2>2. Post(m, held[m]) \/ HoldBack(m, held[m]) \/ UNCHANGED <<held, posted, refused>>
    BY <1>8 DEF OnDone, EndWithout, PostRest, SlackReply
  <2>3. TextsInv' /\ refused' \in {refused, refused \union {m}}
    <3>1. CASE Post(m, held[m]) \/ HoldBack(m, held[m])
      BY <1>0, <2>1, <3>1, Handled
    <3>2. CASE UNCHANGED <<held, posted, refused>>
      BY <1>0, <2>0, <3>2, TextsStay
    <3> QED BY <2>2, <3>1, <3>2
  <2>4. SlotsInv' /\ Used' <= (IF channel = "whatsapp" THEN 0 ELSE Slots)
        /\ inbound' \in [Inbox -> Stands]
    BY <1>0, <2>0, EndOfTurn
  <2>5. {held, said, posted}' \subseteq [Inbox -> 0..MaxText]
    <3>1. (TextsInv => {held, said, posted} \subseteq [Inbox -> 0..MaxText])'
      BY TextTypes, PTL
    <3> QED BY <2>3, <3>1
  <2> QED BY <1>0, <2>0, <2>3, <2>4, <2>5 DEF ChannelInv, ChannelTypeOK, Stands
<1>9. CASE UNCHANGED channelVars
  <2>1. SlotsInv' /\ Used' = Used
    BY <1>0, <1>9, SlotsStay DEF channelVars
  <2> QED BY <1>0, <1>9, <2>1, TextsStay DEF channelVars, ChannelInv, ChannelTypeOK
<1> QED BY <1>1, <1>2, <1>3, <1>4, <1>5, <1>6, <1>7, <1>8, <1>9 DEF ChannelNext

LEMMA ChannelKeeps == ChannelInv => ChannelTypeOK
  BY DEF ChannelInv

-----------------------------------------------------------------------------
(* A server of tools *)

\* The places of a sequence that hold anything but x, and how many they are.
OtherPlaces(s, x) == {i \in DOMAIN s : s[i] # x}

LEMMA OthersCount ==
  ASSUME NEW S, NEW s \in Seq(S), NEW x
  PROVE  /\ OtherPlaces(s, x) \subseteq 1..Len(s) /\ Len(s) \in Nat
         /\ IsFiniteSet(OtherPlaces(s, x)) /\ Cardinality(OtherPlaces(s, x)) \in Nat
<1>1. DOMAIN s = 1..Len(s) /\ Len(s) \in Nat
  BY LenProperties
<1>2. OtherPlaces(s, x) \subseteq 1..Len(s)
  BY <1>1 DEF OtherPlaces
<1>3. IsFiniteSet(1..Len(s))
  BY <1>1, FS_Interval
<1>4. IsFiniteSet(OtherPlaces(s, x))
  BY <1>2, <1>3, FS_Subset
<1> QED BY <1>1, <1>2, <1>4, FS_CardinalityType

LEMMA OthersOfAppend ==
  ASSUME NEW S, NEW s \in Seq(S), NEW e \in S, NEW x
  PROVE  /\ IsFiniteSet(OtherPlaces(s, x)) /\ Cardinality(OtherPlaces(s, x)) \in Nat
         /\ Cardinality(OtherPlaces(Append(s, e), x)) =
              Cardinality(OtherPlaces(s, x)) + IF e = x THEN 0 ELSE 1
<1>2. IsFiniteSet(OtherPlaces(s, x)) /\ Cardinality(OtherPlaces(s, x)) \in Nat
  BY OthersCount
<1>3. Len(s) \in Nat /\ Len(s) + 1 \notin OtherPlaces(s, x)
  BY OthersCount
<1>4. OtherPlaces(Append(s, e), x) = OtherPlaces(s, x) \union (IF e = x THEN {} ELSE {Len(s) + 1})
  BY DEF OtherPlaces
<1>5. Cardinality(OtherPlaces(s, x) \union {Len(s) + 1}) = Cardinality(OtherPlaces(s, x)) + 1
  BY <1>2, <1>3, FS_AddElement
<1>6. CASE e = x
  BY <1>2, <1>4, <1>6
<1>7. CASE e # x
  BY <1>2, <1>4, <1>5, <1>7
<1> QED BY <1>2, <1>6, <1>7

LEMMA OthersOfTail ==
  ASSUME NEW S, NEW s \in Seq(S), s # <<>>, NEW x
  PROVE  /\ Cardinality(OtherPlaces(Tail(s), x)) =
              Cardinality(OtherPlaces(s, x)) - IF Head(s) = x THEN 0 ELSE 1
         /\ Cardinality(OtherPlaces(s, x)) \in Nat
<1> DEFINE A == OtherPlaces(s, x) \ {1}
           B == OtherPlaces(Tail(s), x)
           f == [i \in A |-> i - 1]
<1>1. Len(s) \in Nat \ {0} /\ Tail(s) \in Seq(S) /\ Len(Tail(s)) = Len(s) - 1 /\ Head(s) = s[1]
      /\ \A i \in 1..(Len(s) - 1) : Tail(s)[i] = s[i + 1]
  BY EmptySeq, HeadTailProperties
<1>2. OtherPlaces(s, x) \subseteq 1..Len(s)
  BY OthersCount
<1>3. IsFiniteSet(OtherPlaces(s, x)) /\ Cardinality(OtherPlaces(s, x)) \in Nat
  BY OthersCount
<1>4. IsFiniteSet(A)
        /\ Cardinality(A) = Cardinality(OtherPlaces(s, x)) - IF Head(s) = x THEN 0 ELSE 1
  <2>1. 1 \in OtherPlaces(s, x) <=> Head(s) # x
    BY <1>1 DEF OtherPlaces
  <2> QED BY <2>1, <1>3, FS_RemoveElement
<1>5. \A i \in A : i \in 2..Len(s) /\ i - 1 \in B
  BY <1>1, <1>2 DEF OtherPlaces
<1>6. \A j \in B : j \in 1..(Len(s) - 1) /\ j + 1 \in A
  BY <1>1 DEF OtherPlaces
<1>7. f \in Bijection(A, B)
  <2> HIDE DEF A, B
  <2>1. f \in [A -> B]
    BY <1>5
  <2>2. \A i, j \in A : f[i] = f[j] => i = j
    BY <1>5
  <2>3. \A j \in B : \E i \in A : f[i] = j
    BY <1>6
  <2> QED BY <2>1, <2>2, <2>3 DEF Bijection, Injection, Surjection, IsInjective
<1>8. Cardinality(B) = Cardinality(A)
  <2> HIDE DEF A, B
  <2> QED BY <1>4, <1>7, FS_Bijection DEF ExistsBijection
<1> QED BY <1>3, <1>4, <1>8

LEMMA NoOthers ==
  ASSUME NEW S, NEW s \in Seq(S), NEW x, Cardinality(OtherPlaces(s, x)) = 0
  PROVE  \A i \in DOMAIN s : s[i] = x
<1>1. IsFiniteSet(OtherPlaces(s, x))
  BY OthersCount
<1>2. OtherPlaces(s, x) = {}
  BY <1>1, FS_EmptySet
<1> QED BY <1>2 DEF OtherPlaces

\* A server over HTTP has no pipe.
NoPipe == transport = "http" =>
  /\ ~serving /\ ~jammed /\ holder = "free" /\ strays = 0
  /\ toServer = <<>> /\ toClient = <<>>

\* The mutex is with the call that reads.
HeldByReader == \A r \in Requests : fate[r] = "reading" <=> holder = r

\* Before the connection nothing has happened, and each request has its time.
InOrder ==
  /\ link = "unconnected" => /\ ~serving /\ ~jammed /\ ~hasTools /\ holder = "free"
                             /\ toServer = <<>> /\ toClient = <<>> /\ strays = 0
                             /\ \A r \in Requests : fate[r] = "unsent"
  /\ fate["initialize"] = "reading" => link = "connecting"
  /\ fate["list"] = "reading" => link = "greeted"
  /\ \A r \in ToolCalls : fate[r] = "reading" => hasTools

\* As long as nothing was written unasked, all that is under way is the holder's.
NothingStray == strays = 0 /\ ~jammed =>
  /\ Len(toClient) <= IF holder = "free" THEN 0 ELSE 1
  /\ \A i \in DOMAIN toClient : toClient[i].of = holder
  /\ serving => \A i \in DOMAIN toServer : toServer[i] \in {holder, "initialized"}

\* What another AssistClaw writes unasked is one line, which comes before the list.
OneStray == transport = "stdio" /\ peer = "assistclaw" =>
  /\ ~hasTools
  /\ strays \in {0, 1}
  /\ link \in {"unconnected", "connecting"} \/ strays = 1 =>
       \A i \in DOMAIN toServer : toServer[i] # "initialized"
  /\ link \in {"unconnected", "connecting"} => strays = 0
  /\ \A i, j \in DOMAIN toServer : toServer[i] = "initialized" /\ toServer[j] = "initialized"
       => i = j
  /\ link = "greeted" /\ ~jammed =>
       IF toClient = <<>> THEN serving => toServer # <<>> /\ Head(toServer) = "initialized"
       ELSE Head(toClient).of = "nothing"

McpInv ==
  /\ McpTypeOK /\ NoPipe /\ HeldByReader /\ InOrder /\ NothingStray /\ OneStray
  /\ OwnAnswer /\ StraysRemain

LEMMA McpBegins == McpInit => McpInv
<1> SUFFICES ASSUME McpInit PROVE McpInv
  OBVIOUS
<1>1. /\ \A r \in Requests : fate[r] = "unsent" /\ r # "free"
      /\ "initialize" \in Requests /\ "list" \in Requests /\ ToolCalls \subseteq Requests
  BY McpConfig DEF McpInit, Requests
<1>2. McpTypeOK
  <2>1. 0 \in 0..(MaxStrays + 1)
    BY McpConfig
  <2>2. toServer \in Seq(Requests \union {"initialized"})
        /\ toClient \in
             Seq([of : Requests \union {"nothing"}, result : Results \union {"oversized"}])
    BY DEF McpInit
  <2>3. fate \in [Requests -> {"unsent", "reading", "error", "nothing"} \union Requests]
    BY DEF McpInit
  <2> QED BY <2>1, <2>2, <2>3 DEF McpInit, McpTypeOK
<1>3. "unsent" \notin Requests \union {"nothing"}
  BY McpConfig DEF Requests
<1> QED BY <1>1, <1>2, <1>3 DEF McpInit, McpInv, NoPipe, HeldByReader, InOrder, NothingStray,
        OneStray, OwnAnswer, StraysRemain

LEMMA NamesDiffer ==
  /\ "initialize" \in Requests /\ "list" \in Requests /\ ToolCalls \subseteq Requests
  /\ \A r \in Requests : r \in ToolCalls \/ r \in {"initialize", "list"}
  /\ {"initialize", "list"} \cap ToolCalls = {}
  /\ \A w \in {"initialized", "nothing", "free", "unsent", "reading", "error"} : w \notin Requests
  BY McpConfig DEF Requests

\* The types, step by step.
LEMMA ReturnsType ==
  ASSUME McpTypeOK, NEW r \in Requests, NEW o \in {"error", "nothing"} \union Requests,
         NEW ok \in BOOLEAN, Returns(r, o, ok)
  PROVE  /\ fate' = [fate EXCEPT ![r] = o]
         /\ fate' \in [Requests -> {"unsent", "reading", "error", "nothing"} \union Requests]
         /\ link' \in {"unconnected", "connecting", "greeted", "connected", "forgotten",
                       "panicked", "closed"}
         /\ hasTools' \in BOOLEAN /\ serving' \in BOOLEAN /\ (serving' => serving)
         /\ hasTools => hasTools'
         /\ hasTools' => hasTools \/ (r = "list" /\ o = "list")
         /\ r \in ToolCalls => link' = link
         /\ r = "list" => link' = IF ok THEN "connected" ELSE "closed"
         /\ r = "initialize" => link' = IF ok THEN IF transport = "http" THEN "panicked"
                                                   ELSE "greeted"
                                        ELSE "forgotten"
  BY NamesDiffer DEF Returns, LinkAfter, McpTypeOK

\* What the lines on the way are.
LEMMA LineTypes ==
  ASSUME McpInv
  PROVE  /\ toServer \in Seq(Requests \union {"initialized"})
         /\ \A i \in DOMAIN toServer : toServer[i] \in Requests \union {"initialized"}
         /\ toServer # <<>> => /\ Head(toServer) = toServer[1] /\ 1 \in DOMAIN toServer
                               /\ Tail(toServer) \in Seq(Requests \union {"initialized"})
                               /\ DOMAIN Tail(toServer) = 1..(Len(toServer) - 1)
                               /\ \A i \in DOMAIN Tail(toServer) :
                                    i + 1 \in DOMAIN toServer /\ Tail(toServer)[i] = toServer[i + 1]
         /\ toClient # <<>> => /\ Head(toClient) = toClient[1] /\ 1 \in DOMAIN toClient
                               /\ Head(toClient) \in [of : Requests \union {"nothing"},
                                                      result : Results \union {"oversized"}]
                               /\ Len(Tail(toClient)) = Len(toClient) - 1
                               /\ Tail(toClient) \in Seq([of : Requests \union {"nothing"},
                                                      result : Results \union {"oversized"}])
                               /\ \A i \in DOMAIN Tail(toClient) :
                                    i + 1 \in DOMAIN toClient /\ Tail(toClient)[i] = toClient[i + 1]
         /\ Len(toServer) \in Nat /\ Len(toClient) \in Nat /\ strays \in Nat
         /\ DOMAIN toServer = 1..Len(toServer) /\ DOMAIN toClient = 1..Len(toClient)
         /\ toServer = <<>> <=> Len(toServer) = 0
         /\ toClient = <<>> <=> Len(toClient) = 0
<1> DEFINE S == Requests \union {"initialized"}
           T == [of : Requests \union {"nothing"}, result : Results \union {"oversized"}]
<1>1. toServer \in Seq(S) /\ toClient \in Seq(T)
  BY DEF McpInv, McpTypeOK
<1>0. strays \in Nat
  BY McpConfig DEF McpInv, McpTypeOK
<1> HIDE DEF S, T
<1>2. /\ Len(toServer) \in Nat /\ Len(toClient) \in Nat
      /\ DOMAIN toServer = 1..Len(toServer) /\ DOMAIN toClient = 1..Len(toClient)
      /\ toServer = <<>> <=> Len(toServer) = 0
      /\ toClient = <<>> <=> Len(toClient) = 0
  BY <1>1, LenProperties, EmptySeq
<1>3. \A i \in DOMAIN toServer : toServer[i] \in S
  BY <1>1, <1>2, ElementOfSeq
<1>4. ASSUME toServer # <<>>
      PROVE  /\ Head(toServer) = toServer[1] /\ 1 \in DOMAIN toServer
             /\ Tail(toServer) \in Seq(S)
             /\ DOMAIN Tail(toServer) = 1..(Len(toServer) - 1)
             /\ \A i \in DOMAIN Tail(toServer) :
                  i + 1 \in DOMAIN toServer /\ Tail(toServer)[i] = toServer[i + 1]
  <2>1. Tail(toServer) \in Seq(S) /\ Len(Tail(toServer)) = Len(toServer) - 1
        /\ \A i \in 1..Len(Tail(toServer)) : Tail(toServer)[i] = toServer[i + 1]
    BY <1>1, <1>4, HeadTailProperties
  <2>2. DOMAIN Tail(toServer) = 1..(Len(toServer) - 1)
    BY <2>1, LenProperties
  <2> QED BY <1>1, <1>2, <1>4, <2>1, <2>2
<1>5. ASSUME toClient # <<>>
      PROVE  /\ Head(toClient) = toClient[1] /\ 1 \in DOMAIN toClient
             /\ Head(toClient) \in T
             /\ Tail(toClient) \in Seq(T) /\ Len(Tail(toClient)) = Len(toClient) - 1
             /\ \A i \in DOMAIN Tail(toClient) :
                  i + 1 \in DOMAIN toClient /\ Tail(toClient)[i] = toClient[i + 1]
  <2>1. Tail(toClient) \in Seq(T) /\ Len(Tail(toClient)) = Len(toClient) - 1 /\ Head(toClient) \in T
        /\ \A i \in 1..Len(Tail(toClient)) : Tail(toClient)[i] = toClient[i + 1]
    BY <1>1, <1>5, HeadTailProperties
  <2>2. DOMAIN Tail(toClient) = 1..(Len(toClient) - 1)
    BY <2>1, LenProperties
  <2> QED BY <1>1, <1>2, <1>5, <2>1, <2>2
<1> QED BY <1>0, <1>1, <1>2, <1>3, <1>4, <1>5 DEF S, T

LEMMA WriteKeeps ==
  ASSUME McpInv, NEW r \in Requests, Write(r) PROVE McpInv'
<1> USE DEF McpInv
<1>1. /\ transport = "stdio" /\ holder = "free" /\ serving
      /\ toServer' = Append(toServer, r) /\ holder' = r
      /\ fate' = [fate EXCEPT ![r] = "reading"]
      /\ UNCHANGED <<transport, peer, serving, toClient, jammed, link, hasTools, strays>>
  BY DEF Write
<1>2. /\ r = "initialize" => link = "connecting"
      /\ r = "list" => link = "greeted"
      /\ r \in ToolCalls => hasTools /\ link \in {"connected", "closed"}
  BY NamesDiffer DEF Write, MaySend
<1>3. toServer' \in Seq(Requests \union {"initialized"})
      /\ DOMAIN toServer' = 1..(Len(toServer) + 1)
      /\ toServer'[Len(toServer) + 1] = r /\ \A i \in DOMAIN toServer : toServer'[i] = toServer[i]
  BY <1>1, LineTypes, AppendProperties, LenProperties
<1>4. \A q \in Requests : fate[q] # "reading"
  BY <1>1, NamesDiffer DEF HeldByReader
<1>5. fate' \in [Requests -> {"unsent", "reading", "error", "nothing"} \union Requests]
      /\ fate'[r] = "reading" /\ \A q \in Requests : q # r => fate'[q] = fate[q]
  BY <1>1 DEF McpTypeOK
<1>6. McpTypeOK'
  BY <1>1, <1>3, <1>5 DEF McpTypeOK
<1>7. NoPipe' /\ HeldByReader' /\ OwnAnswer'
  BY <1>1, <1>4, <1>5, NamesDiffer DEF NoPipe, HeldByReader, OwnAnswer
<1>8. InOrder'
  BY <1>1, <1>2, <1>4, <1>5, NamesDiffer DEF InOrder
<1>9. NothingStray'
  BY <1>1, <1>3, LineTypes, NamesDiffer DEF NothingStray
<1>10. OneStray'
  <2>1. toServer # <<>> => toServer' # <<>> /\ Head(toServer') = Head(toServer)
    BY <1>1, <1>3, LineTypes
  <2> QED BY <1>1, <1>2, <1>3, <2>1, LineTypes, NamesDiffer DEF OneStray
<1>11. StraysRemain'
  <2>1. Cardinality(OtherPlaces(toServer', "initialized"))
          = Cardinality(OtherPlaces(toServer, "initialized")) + 1
        /\ Cardinality(OtherPlaces(toServer, "initialized")) \in Nat
    BY <1>1, LineTypes, OthersOfAppend, NamesDiffer
  <2>2. Asked = OtherPlaces(toServer, "initialized")
          /\ Asked' = OtherPlaces(toServer', "initialized")
    BY DEF Asked, OtherPlaces
  <2> QED BY <1>1, <2>1, <2>2, LineTypes, NamesDiffer DEF StraysRemain
<1> QED BY <1>6, <1>7, <1>8, <1>9, <1>10, <1>11

LEMMA WriteFailsKeeps ==
  ASSUME McpInv, NEW r \in Requests, WriteFails(r) PROVE McpInv'
<1> USE DEF McpInv
<1>1. /\ transport = "stdio" /\ holder = "free" /\ ~serving
      /\ Returns(r, "error", FALSE)
      /\ UNCHANGED <<transport, peer, toServer, toClient, jammed, holder, strays>>
  BY DEF WriteFails, Fails
<1>2. /\ r = "initialize" => link = "connecting"
      /\ r = "list" => link = "greeted"
      /\ r \in ToolCalls => hasTools /\ link \in {"connected", "closed"}
  BY NamesDiffer DEF WriteFails, MaySend
<1>3. /\ fate' = [fate EXCEPT ![r] = "error"]
      /\ fate' \in [Requests -> {"unsent", "reading", "error", "nothing"} \union Requests]
      /\ link' \in {"unconnected", "connecting", "greeted", "connected", "forgotten",
                    "panicked", "closed"}
      /\ hasTools' = hasTools /\ ~serving' /\ serving' \in BOOLEAN
      /\ r \in ToolCalls => link' = link
      /\ r = "list" => link' = "closed"
      /\ r = "initialize" => link' = "forgotten"
  BY <1>1, ReturnsType, NamesDiffer DEF McpTypeOK
<1>4. /\ \A q \in Requests : fate[q] # "reading"
      /\ fate'[r] = "error" /\ \A q \in Requests : q # r => fate'[q] = fate[q]
  BY <1>1, <1>3, NamesDiffer DEF HeldByReader, McpTypeOK
<1>5. McpTypeOK'
  BY <1>1, <1>3 DEF McpTypeOK
<1>6. NoPipe' /\ HeldByReader' /\ OwnAnswer' /\ StraysRemain'
  BY <1>1, <1>3, <1>4, NamesDiffer DEF NoPipe, HeldByReader, OwnAnswer, StraysRemain
<1>7. InOrder'
  BY <1>1, <1>2, <1>3, <1>4, NamesDiffer DEF InOrder
<1>8. NothingStray'
  BY <1>1, <1>3 DEF NothingStray
<1>9. OneStray'
  BY <1>1, <1>2, <1>3, NamesDiffer DEF OneStray
<1> QED BY <1>5, <1>6, <1>7, <1>8, <1>9

LEMMA ReadLineKeeps ==
  ASSUME McpInv, NEW r \in Requests, ReadLine(r) PROVE McpInv'
<1> USE DEF McpInv
<1> DEFINE line == Head(toClient)
           ok == line.result = "answer"
           o == IF ok THEN line.of ELSE "error"
<1>1. /\ fate[r] = "reading" /\ toClient # <<>> /\ ~jammed
      /\ Returns(r, o, ok)
      /\ toClient' = Tail(toClient) /\ holder' = "free"
      /\ toServer' = IF link'= "greeted" /\ link # link' /\ serving
                     THEN Append(toServer, "initialized") ELSE toServer
      /\ UNCHANGED <<transport, peer, jammed, strays>>
  BY DEF ReadLine, Fails
<1>2. holder = r /\ transport = "stdio" /\ r # "free"
  BY <1>1, NamesDiffer DEF HeldByReader, NoPipe, McpTypeOK
<1>3. /\ r = "initialize" => link = "connecting"
      /\ r = "list" => link = "greeted"
      /\ r \in ToolCalls => hasTools
      /\ link # "unconnected"
  BY <1>1, NamesDiffer DEF InOrder
<1>4. o \in {"error", "nothing"} \union Requests /\ ok \in BOOLEAN
  BY <1>1, LineTypes
<1> HIDE DEF o, ok, line
<1>5. /\ fate' = [fate EXCEPT ![r] = o]
      /\ fate' \in [Requests -> {"unsent", "reading", "error", "nothing"} \union Requests]
      /\ link' \in {"unconnected", "connecting", "greeted", "connected", "forgotten",
                    "panicked", "closed"}
      /\ hasTools' \in BOOLEAN /\ serving' \in BOOLEAN /\ (serving' => serving)
      /\ hasTools => hasTools'
      /\ hasTools' => hasTools \/ (r = "list" /\ o = "list")
      /\ r \in ToolCalls => link' = link
      /\ r = "list" => link' = IF ok THEN "connected" ELSE "closed"
      /\ r = "initialize" => link' = IF ok THEN "greeted" ELSE "forgotten"
  BY <1>1, <1>2, <1>4, ReturnsType
<1>6. /\ fate'[r] = o /\ o # "reading" /\ \A q \in Requests : q # r => fate'[q] = fate[q]
      /\ \A q \in Requests : q # r => fate[q] # "reading"
  BY <1>2, <1>4, <1>5, NamesDiffer DEF HeldByReader, McpTypeOK
<1>7. /\ toServer' \in Seq(Requests \union {"initialized"})
      /\ toClient' \in
           Seq([of : Requests \union {"nothing"}, result : Results \union {"oversized"}])
  BY <1>1, LineTypes
<1>8. McpTypeOK'
  BY <1>1, <1>5, <1>7 DEF McpTypeOK
<1>9. NoPipe' /\ HeldByReader'
  BY <1>1, <1>2, <1>5, <1>6, NamesDiffer DEF NoPipe, HeldByReader
<1>10. InOrder'
  BY <1>1, <1>3, <1>5, <1>6, NamesDiffer DEF InOrder
\* Without a stray line the one that is read is the holder's, and the last.
<1>11. strays = 0 => line.of = r /\ toClient' = <<>>
  BY <1>1, <1>2, LineTypes DEF NothingStray, line
<1>12. OwnAnswer'
  <2>1. o \in Requests \union {"nothing"} => o = line.of
    BY NamesDiffer DEF o
  <2>2. strays = 0 \/ strays > 0
    BY DEF McpTypeOK
  <2> QED BY <1>1, <1>6, <1>11, <2>1, <2>2 DEF OwnAnswer
<1>13. StraysRemain'
  <2>1. toServer' = Append(toServer, "initialized") =>
          Cardinality(OtherPlaces(toServer', "initialized"))
            = Cardinality(OtherPlaces(toServer, "initialized"))
    BY LineTypes, OthersOfAppend
  <2>2. Asked = OtherPlaces(toServer, "initialized")
          /\ Asked' = OtherPlaces(toServer', "initialized")
    BY DEF Asked, OtherPlaces
  <2>3. Cardinality(Asked') = Cardinality(Asked) /\ Cardinality(Asked) \in Nat
    <3>1. toServer' = Append(toServer, "initialized") \/ toServer' = toServer
      BY <1>1
    <3>2. Cardinality(OtherPlaces(toServer, "initialized")) \in Nat
      BY LineTypes, OthersCount
    <3> QED BY <2>1, <2>2, <3>1, <3>2
  <2>4. Len(toClient') = Len(toClient) - 1 /\ Len(toClient) \in Nat /\ strays \in Nat
    BY <1>1, LineTypes
  <2>5. serving' => Len(toClient) + Cardinality(Asked) = strays + 1
    BY <1>1, <1>2, <1>5 DEF StraysRemain
  <2> QED BY <1>1, <2>3, <2>4, <2>5 DEF StraysRemain
\* The server has read what was written before the answer came.
<1>14. strays = 0 /\ serving => \A i \in DOMAIN toServer : toServer[i] = "initialized"
  <2> SUFFICES ASSUME strays = 0, serving
               PROVE  Cardinality(OtherPlaces(toServer, "initialized")) = 0
    BY LineTypes, NoOthers
  <2>1. Len(toClient) + Cardinality(Asked) = 1
    BY <1>1, <1>2 DEF StraysRemain
  <2>2. Len(toClient) \in Nat \ {0} /\ Cardinality(OtherPlaces(toServer, "initialized")) \in Nat
    BY <1>1, LineTypes, OthersCount
  <2> QED BY <2>1, <2>2 DEF Asked, OtherPlaces
<1>15. NothingStray'
  <2>1. strays = 0 /\ serving => \A i \in DOMAIN toServer' : toServer'[i] = "initialized"
    BY <1>1, <1>14, LineTypes, AppendProperties, LenProperties
  <2> QED BY <1>1, <1>5, <1>11, <2>1, LineTypes DEF NothingStray
<1>16. OneStray'
  <2> SUFFICES ASSUME peer = "assistclaw" PROVE OneStray'
    BY <1>1 DEF OneStray
  <2>1. CASE r = "initialize"
    <3>1. strays = 0 /\ ~hasTools' /\ toClient' = <<>>
      BY <1>2, <1>3, <1>5, <1>11, <2>1 DEF OneStray
    <3>2. serving => toServer = <<>>
      BY <1>2, <1>3, <1>14, <2>1, <3>1, LineTypes DEF OneStray
    <3>3. serving' => toServer' = IF ok THEN <<"initialized">> ELSE <<>>
      BY <1>1, <1>3, <1>5, <2>1, <3>2
    <3>4. ~serving => toServer' = toServer
      BY <1>1
    <3> QED BY <1>1, <1>2, <1>3, <1>5, <2>1, <3>1, <3>2, <3>3, <3>4 DEF OneStray
  <2>2. CASE r = "list"
    <3>1. line.of = "nothing"
      BY <1>1, <1>2, <1>3, <2>2 DEF OneStray, line
    <3>2. o # "list"
      BY <3>1 DEF o
    <3>3. toServer' = toServer /\ link' \in {"connected", "closed"}
      BY <1>1, <1>5, <2>2
    <3> QED BY <1>1, <1>2, <1>3, <1>5, <2>2, <3>2, <3>3, NamesDiffer DEF OneStray
  <2>3. CASE r \in ToolCalls
    BY <1>2, <1>3, <2>3 DEF OneStray
  <2> QED BY <2>1, <2>2, <2>3, NamesDiffer
<1> QED BY <1>8, <1>9, <1>10, <1>12, <1>13, <1>15, <1>16

LEMMA ReadFailsKeeps ==
  ASSUME McpInv, NEW r \in Requests, ReadFails(r) PROVE McpInv'
<1> USE DEF McpInv
<1>1. /\ fate[r] = "reading"
      /\ jammed \/ (toClient = <<>> /\ ~serving) \/ toClient # <<>>
      /\ jammed' = (jammed \/ toClient # <<>>)
      /\ Returns(r, "error", FALSE)
      /\ holder' = "free"
      /\ UNCHANGED <<transport, peer, toServer, toClient, strays>>
  BY DEF ReadFails, Fails
<1>2. holder = r /\ transport = "stdio" /\ r # "free"
  BY <1>1, NamesDiffer DEF HeldByReader, NoPipe, McpTypeOK
<1>3. /\ r = "initialize" => link = "connecting"
      /\ r = "list" => link = "greeted"
      /\ r \in ToolCalls => hasTools
      /\ link # "unconnected"
  BY <1>1, NamesDiffer DEF InOrder
<1>4. /\ fate' = [fate EXCEPT ![r] = "error"]
      /\ fate' \in [Requests -> {"unsent", "reading", "error", "nothing"} \union Requests]
      /\ link' \in {"unconnected", "connecting", "greeted", "connected", "forgotten",
                    "panicked", "closed"}
      /\ hasTools' = hasTools /\ (serving' => serving) /\ serving' \in BOOLEAN
      /\ r \in ToolCalls => link' = link
      /\ r = "list" => link' = "closed"
      /\ r = "initialize" => link' = "forgotten"
  BY <1>1, ReturnsType, NamesDiffer DEF McpTypeOK
<1>5. /\ fate'[r] = "error" /\ \A q \in Requests : q # r => fate'[q] = fate[q]
      /\ \A q \in Requests : q # r => fate[q] # "reading"
  BY <1>2, <1>4, NamesDiffer DEF HeldByReader, McpTypeOK
<1>6. McpTypeOK'
  BY <1>1, <1>4 DEF McpTypeOK
<1>7. NoPipe' /\ HeldByReader' /\ OwnAnswer' /\ StraysRemain'
  BY <1>1, <1>2, <1>4, <1>5, NamesDiffer DEF NoPipe, HeldByReader, OwnAnswer, StraysRemain
<1>8. InOrder'
  BY <1>1, <1>3, <1>4, <1>5, NamesDiffer DEF InOrder
<1>9. NothingStray'
  <2>1. ~jammed' => ~jammed /\ toClient = <<>> /\ ~serving'
    BY <1>1, <1>4
  <2>2. Len(toClient) = 0 /\ DOMAIN toClient = {} <=> toClient = <<>>
    BY LineTypes
  <2> QED BY <1>1, <2>1, <2>2 DEF NothingStray
<1>10. OneStray'
  BY <1>1, <1>2, <1>3, <1>4, NamesDiffer DEF OneStray
<1> QED BY <1>6, <1>7, <1>8, <1>9, <1>10

LEMMA ExchangeKeeps ==
  ASSUME McpInv, NEW r \in Requests, Exchange(r) PROVE McpInv'
<1> USE DEF McpInv
<1>1. PICK o \in {"error", r}, ok \in BOOLEAN :
        Returns(r, o, ok)
  BY DEF Exchange, Fails
<1>2. /\ transport = "http" /\ o \in {"error", "nothing"} \union Requests
      /\ UNCHANGED <<transport, peer, toServer, toClient, jammed, holder, strays>>
  BY DEF Exchange
<1>3. /\ ~serving /\ ~jammed /\ holder = "free" /\ strays = 0
      /\ toServer = <<>> /\ toClient = <<>>
  BY <1>2 DEF NoPipe
<1>4. /\ r = "initialize" => link = "connecting"
      /\ r = "list" => link = "greeted"
      /\ r \in ToolCalls => hasTools /\ link \in {"connected", "closed"}
  BY NamesDiffer DEF Exchange, MaySend
<1>5. /\ fate' = [fate EXCEPT ![r] = o]
      /\ fate' \in [Requests -> {"unsent", "reading", "error", "nothing"} \union Requests]
      /\ link' \in {"unconnected", "connecting", "greeted", "connected", "forgotten",
                    "panicked", "closed"}
      /\ hasTools' \in BOOLEAN /\ ~serving' /\ serving' \in BOOLEAN
      /\ hasTools => hasTools'
      /\ r \in ToolCalls => link' = link
      /\ r = "list" => link' # "unconnected"
      /\ r = "initialize" => link' # "unconnected"
  BY <1>1, <1>2, <1>3, ReturnsType
<1>6. /\ fate'[r] = o /\ \A q \in Requests : q # r => fate'[q] = fate[q]
      /\ \A q \in Requests : fate[q] # "reading"
      /\ o # "reading"
  BY <1>1, <1>3, <1>5, NamesDiffer DEF HeldByReader, McpTypeOK
<1>7. McpTypeOK'
  BY <1>2, <1>5 DEF McpTypeOK
<1>8. NoPipe' /\ HeldByReader' /\ OneStray' /\ StraysRemain' /\ NothingStray'
  BY <1>2, <1>3, <1>5, <1>6, NamesDiffer DEF NoPipe, HeldByReader, OneStray, StraysRemain,
     NothingStray
<1>9. InOrder'
  BY <1>2, <1>4, <1>5, <1>6, NamesDiffer DEF InOrder
<1>10. OwnAnswer'
  BY <1>1, <1>2, <1>6, NamesDiffer DEF OwnAnswer
<1> QED BY <1>7, <1>8, <1>9, <1>10

LEMMA ConnectKeeps ==
  ASSUME McpInv, Connect \/ CloseClient \/ ServerDies PROVE McpInv'
<1> USE DEF McpInv
<1>1. CASE Connect
  <2> USE <1>1 DEF Connect
  <2>1. /\ ~serving /\ ~jammed /\ ~hasTools /\ holder = "free"
        /\ toServer = <<>> /\ toClient = <<>> /\ strays = 0
        /\ \A r \in Requests : fate[r] = "unsent"
    BY DEF InOrder
  <2>2. /\ ~jammed' /\ ~hasTools' /\ holder' = "free" /\ toServer' = <<>> /\ toClient' = <<>>
        /\ strays' = 0 /\ fate' = fate /\ link' \in {"connecting", "forgotten"}
        /\ (serving' => transport = "stdio") /\ serving' \in BOOLEAN
        /\ UNCHANGED <<transport, peer>>
    BY <2>1 DEF McpTypeOK
  <2>3. McpTypeOK' /\ NoPipe' /\ HeldByReader' /\ OwnAnswer'
    BY <2>1, <2>2, NamesDiffer DEF McpTypeOK, NoPipe, HeldByReader, OwnAnswer
  <2>4. InOrder' /\ NothingStray' /\ OneStray'
    BY <2>1, <2>2, NamesDiffer DEF InOrder, NothingStray, OneStray
  <2>5. Asked' = {} /\ Cardinality({}) = 0
    BY <2>2, FS_EmptySet DEF Asked
  <2>6. StraysRemain'
    BY <2>2, <2>5 DEF StraysRemain
  <2> QED BY <2>3, <2>4, <2>6
<1>2. CASE CloseClient
  BY <1>2, NamesDiffer DEF CloseClient, McpTypeOK, NoPipe, HeldByReader, InOrder, NothingStray,
     OneStray,
       OwnAnswer, StraysRemain
<1>3. CASE ServerDies
  BY <1>3 DEF ServerDies, McpTypeOK, NoPipe, HeldByReader, InOrder, NothingStray, OneStray,
       OwnAnswer, StraysRemain
<1> QED BY <1>1, <1>2, <1>3

LEMMA OwnServerKeeps ==
  ASSUME McpInv, OwnServerReads PROVE McpInv'
<1> USE DEF McpInv
<1> DEFINE l == Head(toServer)
           isNote == l = "initialized"
           new == Line(IF isNote THEN "nothing" ELSE l, "answer")
<1>1. /\ serving /\ peer = "assistclaw" /\ toServer # <<>>
      /\ toServer' = Tail(toServer)
      /\ toClient' = Append(toClient, new)
      /\ strays' = IF isNote THEN strays + 1 ELSE strays
      /\ UNCHANGED <<transport, peer, serving, jammed, holder, link, hasTools, fate>>
  BY DEF OwnServerReads
<1>2. transport = "stdio"
  BY <1>1 DEF NoPipe, McpTypeOK
<1>3. /\ new \in [of : Requests \union {"nothing"}, result : Results \union {"oversized"}]
      /\ new.of = IF isNote THEN "nothing" ELSE l
      /\ l = toServer[1] /\ 1 \in DOMAIN toServer /\ l \in Requests \union {"initialized"}
  BY <1>1, LineTypes DEF Line, Results
<1> HIDE DEF new, l
<1>4. /\ toClient' \in
           Seq([of : Requests \union {"nothing"}, result : Results \union {"oversized"}])
      /\ Len(toClient') = Len(toClient) + 1
      /\ DOMAIN toClient' = 1..(Len(toClient) + 1)
      /\ toClient'[Len(toClient) + 1] = new
      /\ \A i \in DOMAIN toClient : toClient'[i] = toClient[i]
      /\ toClient' # <<>> /\ Head(toClient') = IF toClient = <<>> THEN new ELSE Head(toClient)
  <2> DEFINE T == [of : Requests \union {"nothing"}, result : Results \union {"oversized"}]
  <2>1. toClient \in Seq(T) /\ new \in T
    BY <1>3 DEF McpTypeOK
  <2> HIDE DEF T
  <2>2. toClient' \in Seq(T) /\ Len(toClient') = Len(toClient) + 1
        /\ toClient'[Len(toClient) + 1] = new /\ toClient' # <<>>
        /\ \A i \in 1..Len(toClient) : toClient'[i] = toClient[i]
    BY <1>1, <2>1, AppendProperties
  <2>3. DOMAIN toClient' = 1..(Len(toClient) + 1) /\ DOMAIN toClient = 1..Len(toClient)
    BY <2>1, <2>2, LenProperties
  <2>4. Head(toClient') = IF toClient = <<>> THEN new ELSE Head(toClient)
    BY <1>1, <2>1, HeadTailAppend
  <2> QED BY <2>2, <2>3, <2>4 DEF T
<1>5. strays' \in 0..(MaxStrays + 1) /\ (isNote => strays = 0 /\ strays' = 1)
  <2>1. isNote => strays = 0
    BY <1>1, <1>2, <1>3 DEF OneStray
  <2>2. 1 \in 0..(MaxStrays + 1)
    BY McpConfig
  <2> QED BY <1>1, <2>1, <2>2 DEF McpTypeOK
<1>6. McpTypeOK'
  BY <1>1, <1>4, <1>5, LineTypes DEF McpTypeOK
<1>7. NoPipe' /\ HeldByReader' /\ InOrder'
  BY <1>1, <1>2 DEF NoPipe, HeldByReader, InOrder
<1>8. OwnAnswer'
  <2>1. strays \in Nat /\ (strays > 0 => strays' > 0)
    BY <1>1, <1>5, LineTypes
  <2> QED BY <1>1, <2>1 DEF OwnAnswer
<1>9. StraysRemain'
  <2>1. /\ Cardinality(OtherPlaces(Tail(toServer), "initialized")) =
             Cardinality(OtherPlaces(toServer, "initialized")) - IF isNote THEN 0 ELSE 1
        /\ Cardinality(OtherPlaces(toServer, "initialized")) \in Nat
    BY <1>1, LineTypes, OthersOfTail DEF l
  <2>2. Asked = OtherPlaces(toServer, "initialized")
          /\ Asked' = OtherPlaces(toServer', "initialized")
    BY DEF Asked, OtherPlaces
  <2> QED BY <1>1, <1>4, <2>1, <2>2, LineTypes DEF StraysRemain
<1>10. NothingStray'
  <2> SUFFICES ASSUME strays' = 0, ~jammed' PROVE
        /\ Len(toClient') <= IF holder' = "free" THEN 0 ELSE 1
        /\ \A i \in DOMAIN toClient' : toClient'[i].of = holder'
        /\ serving' => \A i \in DOMAIN toServer' : toServer'[i] \in {holder', "initialized"}
    BY DEF NothingStray
  <2>0. Asked = OtherPlaces(toServer, "initialized")
    BY DEF Asked, OtherPlaces
  <2>1. strays = 0 /\ ~isNote /\ l = holder /\ l \in Requests
    BY <1>1, <1>3, <1>5, LineTypes DEF NothingStray
  <2>2. Len(toClient) + Cardinality(Asked) = 1
    BY <1>1, <1>2, <2>1, NamesDiffer DEF StraysRemain
  <2>3. Cardinality(Asked) # 0
    <3>1. Cardinality(Asked) = 0 => isNote
      BY <1>3, <2>0, LineTypes, NoOthers
    <3> QED BY <2>1, <3>1
  <2>4. Cardinality(Asked) \in Nat
    BY <2>0, LineTypes, OthersCount
  <2>5. Len(toClient) = 0
    BY <2>2, <2>3, <2>4, LineTypes
  <2>6. \A i \in DOMAIN toServer' : toServer'[i] \in {holder, "initialized"}
    BY <1>1, <2>1, LineTypes DEF NothingStray
  <2> QED BY <1>1, <1>3, <1>4, <2>1, <2>5, <2>6, NamesDiffer
<1>11. OneStray'
  <2>1. link # "unconnected"
    BY <1>1 DEF InOrder
  <2>2. \A i \in DOMAIN toServer' : i + 1 \in DOMAIN toServer /\ toServer'[i] = toServer[i + 1]
    BY <1>1, LineTypes
  <2>3. isNote => \A i \in DOMAIN toServer' : toServer'[i] # "initialized"
    <3>1. \A i \in DOMAIN toServer' : i + 1 # 1
      BY <1>1, LineTypes
    <3> QED BY <1>1, <1>2, <1>3, <2>2, <3>1 DEF OneStray
  <2>4. link = "connecting" => ~isNote
    BY <1>1, <1>2, <1>3 DEF OneStray
  <2>5. \A i, j \in DOMAIN toServer' :
          toServer'[i] = "initialized" /\ toServer'[j] = "initialized" => i = j
    <3> SUFFICES ASSUME NEW i \in DOMAIN toServer', NEW j \in DOMAIN toServer',
                        toServer'[i] = "initialized", toServer'[j] = "initialized"
                 PROVE  i = j
      OBVIOUS
    <3>1. i + 1 = j + 1 /\ i \in Nat /\ j \in Nat
      BY <1>1, <1>2, <2>2, LineTypes DEF OneStray
    <3> QED BY <3>1
  <2>6. link = "greeted" /\ ~jammed => Head(toClient').of = "nothing"
    BY <1>1, <1>2, <1>3, <1>4 DEF OneStray, l
  <2> QED BY <1>1, <1>2, <1>3, <1>4, <1>5, <2>1, <2>2, <2>3, <2>4, <2>5, <2>6 DEF OneStray
<1> QED BY <1>6, <1>7, <1>8, <1>9, <1>10, <1>11

LEMMA ForeignServerKeeps ==
  ASSUME McpInv, ForeignServerReads \/ ForeignServerWrites PROVE McpInv'
<1> USE DEF McpInv
<1> DEFINE T == [of : Requests \union {"nothing"}, result : Results \union {"oversized"}]
<1>1. /\ serving /\ peer = "foreign" /\ transport = "stdio"
      /\ UNCHANGED <<transport, peer, serving, jammed, holder, link, hasTools, fate>>
  BY DEF ForeignServerReads, ForeignServerWrites, NoPipe, McpTypeOK
<1>2. HeldByReader' /\ InOrder' /\ NoPipe' /\ OneStray'
  BY <1>1 DEF HeldByReader, InOrder, NoPipe, OneStray
<1>3. \A new \in T : /\ Append(toClient, new) \in Seq(T)
        /\ Len(Append(toClient, new)) = Len(toClient) + 1
                     /\ DOMAIN Append(toClient, new) = 1..(Len(toClient) + 1)
                     /\ Append(toClient, new)[Len(toClient) + 1] = new
  <2>1. toClient \in Seq(T)
    BY DEF McpTypeOK
  <2> HIDE DEF T
  <2> QED BY <2>1, AppendProperties, LenProperties
<1>4. Asked = OtherPlaces(toServer, "initialized") /\ Asked' = OtherPlaces(toServer', "initialized")
  BY DEF Asked, OtherPlaces
<1>5. CASE ForeignServerWrites
  <2>1. PICK new \in T : toClient' = Append(toClient, new)
    BY <1>5 DEF ForeignServerWrites, Line
  <2>2. strays' = strays + 1 /\ toServer' = toServer /\ strays' \in 0..(MaxStrays + 1)
        /\ strays' > 0
    BY <1>5, McpConfig, LineTypes DEF ForeignServerWrites, McpTypeOK
  <2>3. McpTypeOK'
    BY <1>1, <1>3, <2>1, <2>2 DEF McpTypeOK
  <2>4. NothingStray' /\ OwnAnswer'
    BY <1>1, <2>2 DEF NothingStray, OwnAnswer
  <2>5. Cardinality(Asked') = Cardinality(Asked) /\ Cardinality(Asked) \in Nat
    BY <1>4, <2>2, LineTypes, OthersCount
  <2>6. Len(toClient') = Len(toClient) + 1
    BY <1>3, <2>1
  <2>7. StraysRemain'
    BY <1>1, <2>2, <2>5, <2>6, LineTypes DEF StraysRemain
  <2> QED BY <1>2, <2>3, <2>4, <2>7
<1>6. CASE ForeignServerReads
  <2> DEFINE l == Head(toServer)
  <2>1. /\ toServer # <<>> /\ toServer' = Tail(toServer) /\ strays' = strays
        /\ l = toServer[1] /\ 1 \in DOMAIN toServer /\ l \in Requests \union {"initialized"}
    BY <1>6, LineTypes DEF ForeignServerReads
  <2>2. OwnAnswer'
    BY <1>1, <2>1 DEF OwnAnswer
  <2>3. /\ Cardinality(Asked') = Cardinality(Asked) - IF l = "initialized" THEN 0 ELSE 1
        /\ Cardinality(Asked) \in Nat
    BY <1>4, <2>1, LineTypes, OthersOfTail
  <2>4. toServer' \in Seq(Requests \union {"initialized"})
    BY <2>1, LineTypes
  <2>5. strays = 0 /\ ~jammed
          => \A i \in DOMAIN toServer' : toServer'[i] \in {holder, "initialized"}
    BY <1>1, <2>1, LineTypes DEF NothingStray
  <2>6. CASE l = "initialized"
    <3>1. toClient' = toClient
      BY <1>6, <2>6 DEF ForeignServerReads
    <3>2. McpTypeOK'
      BY <1>1, <2>1, <2>4, <3>1 DEF McpTypeOK
    <3>3. NothingStray' /\ StraysRemain'
      BY <1>1, <2>1, <2>3, <2>5, <2>6, <3>1 DEF NothingStray, StraysRemain
    <3> QED BY <1>2, <2>2, <3>2, <3>3
  <2>7. CASE l # "initialized"
    <3>1. PICK result \in Results \union {"oversized"} : toClient'
            = Append(toClient, Line(l, result))
      BY <1>6, <2>7 DEF ForeignServerReads
    <3> DEFINE new == Line(l, result)
    <3>2. new \in T /\ new.of = l
      BY <2>1, <2>7 DEF Line
    <3> HIDE DEF new, T
    <3>3. /\ toClient' \in Seq(T) /\ Len(toClient') = Len(toClient) + 1
          /\ DOMAIN toClient' = 1..(Len(toClient) + 1)
          /\ toClient'[Len(toClient) + 1] = new
      BY <1>3, <3>1, <3>2 DEF new
    <3>4. McpTypeOK'
      BY <1>1, <2>1, <2>4, <3>3 DEF McpTypeOK, T
    <3>5. StraysRemain'
      BY <1>1, <2>1, <2>3, <2>7, <3>3, LineTypes DEF StraysRemain
    <3>6. NothingStray'
      <4> SUFFICES ASSUME strays = 0, ~jammed PROVE
            /\ Len(toClient') <= IF holder' = "free" THEN 0 ELSE 1
            /\ \A i \in DOMAIN toClient' : toClient'[i].of = holder'
        BY <1>1, <2>1, <2>5 DEF NothingStray
      <4>1. l = holder /\ l \in Requests /\ holder # "free"
        BY <1>1, <2>1, <2>7, NamesDiffer DEF NothingStray
      <4>2. Len(toClient) + Cardinality(Asked) = 1
        BY <1>1, <4>1 DEF StraysRemain
      <4>3. Cardinality(Asked) # 0
        <5>1. Cardinality(Asked) = 0 => l = "initialized"
          BY <1>4, <2>1, LineTypes, NoOthers
        <5> QED BY <2>7, <5>1
      <4>4. Len(toClient) = 0
        BY <2>3, <4>2, <4>3, LineTypes
      <4> QED BY <1>1, <3>2, <3>3, <4>1, <4>4
    <3> QED BY <1>2, <2>2, <3>4, <3>5, <3>6
  <2> QED BY <2>6, <2>7
<1> QED BY <1>5, <1>6

LEMMA McpStep == McpInv /\ [McpNext]_mcpVars => McpInv'
<1> SUFFICES ASSUME McpInv, [McpNext]_mcpVars PROVE McpInv'
  OBVIOUS
<1>1. CASE UNCHANGED mcpVars
  BY <1>1 DEF mcpVars, McpInv, McpTypeOK, NoPipe, HeldByReader, InOrder, NothingStray, OneStray,
       OwnAnswer, StraysRemain, Asked
<1>2. ASSUME NEW r \in Requests, ClientStep(r) PROVE McpInv'
  BY <1>2, WriteKeeps, WriteFailsKeeps, ReadLineKeeps, ReadFailsKeeps, ExchangeKeeps DEF ClientStep
<1> QED BY <1>1, <1>2, ConnectKeeps, OwnServerKeeps, ForeignServerKeeps DEF McpNext

LEMMA McpKeeps == McpInv => McpTypeOK /\ McpAnswers
  BY DEF McpInv, McpAnswers, OneStray, OwnServerIsEmpty

-----------------------------------------------------------------------------
(* The vectors of a note *)

Permutes(s, n) ==
  /\ s \in [1..n -> 1..n]
  /\ \A i, j \in 1..n : s[i] = s[j] => i = j
  /\ \A p \in 1..n : \E i \in 1..n : s[i] = p

Ascends(s, n) == \A i, j \in 1..n : i < j => s[i] < s[j]

\* An order of some of the first n numbers that has n places has all of them.
LEMMA OrdersOfAll ==
  ASSUME NEW n \in Nat, NEW texts \in SUBSET (1..n), NEW s \in SetToSeqs(texts), Len(s) = n
  PROVE  Permutes(s, n)
<1>1. IsFiniteSet(1..n) /\ Cardinality(1..n) = n
  <2>1. IF 1 > n THEN n = 0 ELSE n - 1 + 1 = n
    OBVIOUS
  <2> QED BY <2>1, FS_Interval
<1>2. IsFiniteSet(texts) /\ Cardinality(texts) \in Nat
  BY <1>1, FS_Subset, FS_CardinalityType
<1>3. s \in [1..Cardinality(texts) -> texts]
      /\ \A i, j \in 1..Cardinality(texts) : i # j => s[i] # s[j]
  BY DEF SetToSeqs
<1>4. Len(s) = Cardinality(texts)
  BY <1>2, <1>3
<1>5. texts = 1..n
  BY <1>1, <1>4, FS_Subset
<1>6. s \in Injection(1..n, 1..n)
  BY <1>3, <1>4, <1>5 DEF Injection, IsInjective
<1>7. s \in Surjection(1..n, 1..n)
  BY <1>1, <1>6, FS_Injection
<1> QED BY <1>3, <1>4, <1>5, <1>7 DEF Surjection, Permutes

\* In ascending order they are the identity.
LEMMA Ascending ==
  ASSUME NEW n \in Nat, NEW s, Permutes(s, n), Ascends(s, n)
  PROVE  \A i \in 1..n : s[i] = i
<1> DEFINE T == {i \in 1..n : s[i] # i}
<1> SUFFICES ASSUME T # {} PROVE FALSE
  OBVIOUS
<1>1. PICK i \in T : \A k \in T : i <= k
  <2>1. T \subseteq Nat
    OBVIOUS
  <2> HIDE DEF T
  <2> QED BY <2>1, LeastNumber
<1>2. i \in 1..n /\ s[i] \in 1..n /\ s[i] # i
  BY DEF Permutes
<1>3. \A k \in 1..n : k < i => s[k] = k
  BY <1>1, <1>2
<1>4. PICK j \in 1..n : s[j] = i
  BY <1>2 DEF Permutes
<1>5. ~ (j < i)
  BY <1>3, <1>4
<1>6. i < j
  BY <1>2, <1>4, <1>5
<1>7. s[i] < i
  BY <1>2, <1>4, <1>6 DEF Ascends
<1>8. s[s[i]] = s[i]
  BY <1>2, <1>3, <1>7
<1> QED BY <1>2, <1>8 DEF Permutes

\* However the vendor orders them, the vectors of a full answer are placed with their texts.
LEMMA VectorsPlaced ==
  ASSUME NEW b \in Backends, NEW answer \in VendorAnswers(b), Len(answer) = NumTexts
  PROVE  \A i \in 1..NumTexts : Placed(b, answer)[i] = i
<1>0. NumTexts \in Nat
  BY EmbeddersConfig
<1> DEFINE TextOrders == UNION {SetToSeqs(texts) : texts \in SUBSET (1..NumTexts)}
<1>1. CASE b.reads = "byIndex"
  <2>1. answer \in TextOrders
    BY <1>1 DEF VendorAnswers
  <2>2. Permutes(answer, NumTexts)
    BY <1>0, <2>1, OrdersOfAll
  <2>3. DOMAIN answer = 1..NumTexts
    BY <2>2 DEF Permutes
  <2>4. ASSUME NEW p \in 1..NumTexts
        PROVE  answer[CHOOSE i \in DOMAIN answer : answer[i] = p] = p
    BY <2>2, <2>3 DEF Permutes
  <2> QED BY <1>1, <2>3, <2>4 DEF Placed
<1>2. CASE b.reads = "whole"
  <2>1. answer = [i \in 1..NumTexts |-> i]
    BY <1>2 DEF VendorAnswers
  <2> QED BY <1>2, <2>1 DEF Placed
<1>3. CASE b.reads \notin {"byIndex", "whole"}
  <2>1. answer \in TextOrders /\ \A i, j \in DOMAIN answer : i < j => answer[i] < answer[j]
    BY <1>3 DEF VendorAnswers
  <2>2. Permutes(answer, NumTexts)
    BY <1>0, <2>1, OrdersOfAll
  <2>3. \A i \in 1..NumTexts : answer[i] = i
    <3>1. Ascends(answer, NumTexts)
      BY <2>1, <2>2 DEF Ascends, Permutes
    <3> QED BY <1>0, <2>2, <3>1, Ascending
  <2> QED BY <1>3, <2>3 DEF Placed
<1> QED BY <1>1, <1>2, <1>3

\* The table is made before there is anything to put into it.
EmbedInv ==
  /\ EmbedTypeOK /\ rows \in Seq([version : 1..MaxVersion, by : Backends, vector : 0..NumTexts])
  /\ table # 0 \/ (~running /\ rows = <<>>)
  /\ VectorsAreOwn

LEMMA BackendTypes ==
  /\ NoBackend \notin Backends
  /\ \A b \in Backends \union {NoBackend} :
       b.lists \in {0} \union {c.lists : c \in Backends \union {NoBackend}} /\ b.lists # 0
<1>1. \A b \in Backends \union {NoBackend} : b.lists # 0
  BY DEF Backends, NoBackend, openai, azure, voyage, mistral, cohere, google, vertex, huggingface,
         ollama, bedrock
<1>2. NoBackend \notin Backends
  <2>1. \A b \in Backends : b.name # "none"
    BY DEF Backends, openai, azure, voyage, mistral, cohere, google, vertex, huggingface,
         ollama, bedrock
  <2> QED BY <2>1 DEF NoBackend
<1> QED BY <1>1, <1>2

LEMMA EmbedBegins == EmbedInit => EmbedInv
<1>1. 0 \in 0..MaxStarts /\ 1 \in 1..MaxVersion /\ 0 <= NumTexts
  BY EmbeddersConfig
<1>2. <<>> \in Seq([version : 1..MaxVersion, by : Backends, vector : 0..NumTexts])
  OBVIOUS
<1>3. 0 \in {0} \union {c.lists : c \in Backends \union {NoBackend}} /\ Len(<<>>) = 0
  OBVIOUS
<1>4. DOMAIN <<>> = {}
  OBVIOUS
<1> SUFFICES ASSUME EmbedInit PROVE EmbedInv
  OBVIOUS
<1>5. EmbedTypeOK
  BY <1>1, <1>3, <1>4 DEF EmbedInit, EmbedTypeOK
<1>6. VectorsAreOwn
  BY <1>4 DEF EmbedInit, VectorsAreOwn
<1> QED BY <1>2, <1>5, <1>6 DEF EmbedInit, EmbedInv

LEMMA RowsGone ==
  ASSUME EmbedInv, rows' = <<>>, UNCHANGED <<starts, embedder, bare, table, version>>,
         running' \in BOOLEAN, running
  PROVE  EmbedInv'
<1>1. 0 <= NumTexts
  BY EmbeddersConfig
<1> QED BY <1>1 DEF EmbedInv, EmbedTypeOK, VectorsAreOwn

LEMMA EmbedStep == EmbedInv /\ [EmbedNext]_embedVars => EmbedInv'
<1> SUFFICES ASSUME EmbedInv, [EmbedNext]_embedVars PROVE EmbedInv'
  OBVIOUS
<1>0. {HubDimension, NumTexts, MaxVersion, MaxStarts} \subseteq Nat \ {0}
  BY EmbeddersConfig
<1>1. ASSUME NEW b \in Backends \union {NoBackend}, NEW settings \in {"none", "good", "bad"},
             running' = TRUE, starts < MaxStarts, starts' = starts + 1, embedder' = b,
             bare' = (b = vertex /\ settings = "bad"),
             table' = (IF table = 0 THEN b.lists ELSE table), UNCHANGED <<version, rows>>
      PROVE  EmbedInv'
  <2>1. table' \in {0} \union {c.lists : c \in Backends \union {NoBackend}} /\ table' # 0
    BY <1>1, BackendTypes DEF EmbedInv, EmbedTypeOK
  <2>2. starts' \in 0..MaxStarts
    BY <1>0, <1>1 DEF EmbedInv, EmbedTypeOK
  <2>3. EmbedTypeOK'
    BY <1>1, <2>1, <2>2 DEF EmbedInv, EmbedTypeOK
  <2>4. table = 0 => rows = <<>>
    BY DEF EmbedInv
  <2>5. VectorsAreOwn'
    BY <1>1, <2>4 DEF EmbedInv, VectorsAreOwn
  <2> QED BY <1>1, <2>1, <2>3, <2>5 DEF EmbedInv
<1>2. CASE ProgramEnds
  BY <1>2 DEF ProgramEnds, EmbedInv, EmbedTypeOK, VectorsAreOwn
<1>3. CASE EditNote
  BY <1>0, <1>3 DEF EditNote, EmbedInv, EmbedTypeOK, VectorsAreOwn
<1>4. CASE SyncWithoutAnswer
  BY <1>4, RowsGone DEF SyncWithoutAnswer
<1>5. ASSUME NEW answer \in VendorAnswers(embedder), running, embedder # NoBackend,
             rows' = <<>> \/ /\ Len(answer) = NumTexts /\ ~Refused
                             /\ \E stored \in 0..NumTexts :
                                  rows' = [i \in 1..stored |-> Row(i, Placed(embedder, answer))],
             running' = ~OutOfRange(embedder, answer),
             UNCHANGED <<starts, embedder, bare, table, version>>
      PROVE  EmbedInv'
  <2>1. running' \in BOOLEAN
    BY <1>5 DEF OutOfRange
  <2>2. CASE rows' = <<>>
    BY <1>5, <2>1, <2>2, RowsGone
  <2>3. ASSUME NEW stored \in 0..NumTexts, Len(answer) = NumTexts, ~Refused,
               rows' = [i \in 1..stored |-> Row(i, Placed(embedder, answer))]
        PROVE  EmbedInv'
    <3> DEFINE Rows == [version : 1..MaxVersion, by : Backends, vector : 0..NumTexts]
    <3>1. embedder \in Backends /\ table # 0 /\ version \in 1..MaxVersion
      BY <1>5 DEF EmbedInv, EmbedTypeOK
    <3>2. ASSUME NEW i \in 1..stored
          PROVE  /\ rows'[i] = [version |-> version, by |-> embedder,
                                vector |-> IF Fits THEN i ELSE 0]
                 /\ rows'[i] \in Rows
      <4>1. i \in 1..NumTexts /\ Placed(embedder, answer)[i] = i
        BY <1>0, <2>3, <3>1, VectorsPlaced
      <4> QED BY <1>0, <2>3, <3>1, <4>1 DEF Row
    <3>3. DOMAIN rows' = 1..stored
      BY <2>3
    <3>4. rows' \in Seq(Rows) /\ Len(rows') = stored
      <4>1. stored \in Nat /\ rows' = [i \in 1..stored |-> rows'[i]]
        BY <1>0, <2>3
      <4>2. rows' \in [1..stored -> Rows]
        BY <3>2, <4>1
      <4> HIDE DEF Rows
      <4> QED BY <4>1, <4>2
    <3>5. ASSUME NEW i \in 1..stored
          PROVE  /\ rows'[i].vector # 0 => rows'[i].vector = i /\ rows'[i].by.gives = table'
                 /\ rows'[i].vector = 0 => rows'[i].by.gives # rows'[i].by.lists
      BY <1>0, <1>5, <2>3, <3>2 DEF Fits, Refused
    <3>6. VectorsAreOwn'
      BY <3>3, <3>5 DEF VectorsAreOwn
    <3>7. ASSUME NEW i \in 1..stored
          PROVE  rows'[i].version \in 1..MaxVersion /\ rows'[i].by \in Backends
                 /\ rows'[i].vector \in 0..NumTexts
      BY <3>2
    <3>8. EmbedTypeOK'
      BY <1>5, <2>1, <3>3, <3>4, <3>7 DEF EmbedInv, EmbedTypeOK
    <3>9. table' # 0
      BY <1>5, <3>1
    <3> HIDE DEF Rows
    <3>10. rows' \in Seq([version : 1..MaxVersion, by : Backends, vector : 0..NumTexts])
      BY <3>4 DEF Rows
    <3> QED BY ONLY <3>6, <3>8, <3>9, <3>10 DEF EmbedInv
  <2> QED BY <1>5, <2>2, <2>3
<1>6. CASE UNCHANGED embedVars
  BY <1>6 DEF embedVars, EmbedInv, EmbedTypeOK, VectorsAreOwn
<1>7. CASE StartProgram
  BY <1>1, <1>7 DEF StartProgram
<1>8. CASE SyncWithAnswer
  BY <1>5, <1>8 DEF SyncWithAnswer
<1> QED BY <1>2, <1>3, <1>4, <1>6, <1>7, <1>8 DEF EmbedNext

LEMMA EmbedKeeps == EmbedInv => EmbedTypeOK /\ VectorsAreOwn
  BY DEF EmbedInv

-----------------------------------------------------------------------------
(* The wiring of the providers *)

\* The first name of an order that is in a set is in the set.
LEMMA FirstIsIn ==
  ASSUME NEW order, Len(order) \in Nat, DOMAIN order = 1..Len(order),
         NEW S, S \subseteq ToSet(order), S # {}
  PROVE  First(order, S) \in S
<1> DEFINE I == {i \in 1..Len(order) : order[i] \in S}
<1>2. I \subseteq Nat /\ I # {}
  BY DEF ToSet
<1>3. Min(I) \in I
  <2> HIDE DEF I
  <2> QED BY <1>2, LeastIsMin
<1>4. SelectInSeq(order, LAMBDA p : p \in S) = Min(I)
  BY <1>2 DEF SelectInSeq
<1> QED BY <1>3, <1>4 DEF First

LEMMA Orders ==
  /\ RegistrationOrder = [i \in 1..19 |-> RegistrationOrder[i]] /\ Len(RegistrationOrder) = 19
  /\ ByName = [i \in 1..19 |-> ByName[i]] /\ Len(ByName) = 19
<1>1. RegistrationOrder = [i \in 1..19 |-> RegistrationOrder[i]] /\ Len(RegistrationOrder) = 19
  BY DEF RegistrationOrder
<1>2. ByName = [i \in 1..19 |-> ByName[i]] /\ Len(ByName) = 19
  BY DEF ByName
<1> QED BY <1>1, <1>2

LEMMA NamesFinite == IsFiniteSet(ProviderNames)
<1>1. IsFiniteSet(1..19)
  <2>1. 1 \in Int /\ 19 \in Int
    OBVIOUS
  <2> QED BY <2>1, FS_Interval
<1>2. RegistrationOrder \in Surjection(1..19, ProviderNames)
  BY Orders DEF Surjection, ProviderNames, ToSet
<1> QED BY <1>1, <1>2, FS_Surjection

\* While the program starts nothing is asked, and what is registered was configured.
Starting ==
  /\ stage = "off" => configured = {} /\ awaiting = {} /\ registered = {} /\ chosen = Nobody
  /\ stage # "running" => lastReply = NotAsked /\ primaries = <<>>
  /\ stage \in {"registering", "running"} => wanted \in Wishes
  /\ configured \ {"bedrock", "vertex"} \subseteq awaiting \union registered
  /\ stage = "running" => awaiting = {}

\* A list holds what the vendor had once, and the curated models count as that.
Listing ==
  /\ DOMAIN everOffered = ProviderNames
  /\ \A p \in ProviderNames :
       Curated \subseteq everOffered[p] /\ lists[p] \subseteq everOffered[p]

Vouched == stage = "running" =>
  \/ chosen.model \in everOffered[chosen.from]
  \/ chosen.from \in Compatible \union {"plano"}
  \/ chosen.from = "bedrock" /\ chosen.model \in Prefixed

AskingOne == stage = "running" =>
  /\ primaries \in Seq(ProviderNames) /\ primaries # <<>>
  /\ primaries[1] = chosen.from /\ ToSet(primaries) = registered

WiringInv ==
  /\ WiringTypeOK /\ Starting /\ Listing /\ Vouched /\ AskingOne /\ RequestsAreServed

LEMMA KnownLists ==
  ASSUME WiringInv, NEW p \in ProviderNames
  PROVE  KnownTo(p).list \subseteq everOffered[p] /\ KnownTo(p).list \subseteq Models
<1>1. Fetched(p) \subseteq everOffered[p] /\ Curated \subseteq everOffered[p]
  BY DEF WiringInv, WiringTypeOK, Listing, Fetched
<1>2. everOffered[p] \subseteq Models
  BY DEF WiringInv, WiringTypeOK
<1>3. CASE p = "plano"
  BY <1>1, <1>2, <1>3 DEF KnownTo, PlanoKnows
<1>4. CASE p # "plano"
  <2>1. p \in {"openai", "azure-openai", "anthropic", "bedrock", "ollama", "vertex"}
          \union Compatible
    BY <1>4 DEF ProviderNames, ToSet, RegistrationOrder, Compatible, AtUsersAddress
  <2>2. Knows(p).list \subseteq everOffered[p]
    BY <1>1, <2>1 DEF Knows, OpenAIKnows, AnthropicKnows, BedrockKnows, OllamaKnows, VertexKnows,
                      CompatibleKnows, Compatible, AtUsersAddress
  <2> QED BY <1>2, <1>4, <2>2 DEF KnownTo
<1> QED BY <1>3, <1>4

LEMMA ValidNames ==
  ASSUME WiringInv, NEW p \in ProviderNames, NEW m \in KnownTo(p).valid
  PROVE  \/ m \in everOffered[p] \/ p \in Compatible \union {"plano"}
         \/ p = "bedrock" /\ m \in Prefixed
<1>1. Fetched(p) \subseteq everOffered[p] /\ Curated \subseteq everOffered[p]
  BY DEF WiringInv, WiringTypeOK, Listing, Fetched
<1>2. CASE p \notin Compatible \union {"plano"}
  <2>1. p \in {"openai", "azure-openai", "anthropic", "bedrock", "ollama", "vertex"}
    BY <1>2 DEF ProviderNames, ToSet, RegistrationOrder, Compatible, AtUsersAddress
  <2>2. KnownTo(p) = Knows(p)
    BY <1>2 DEF KnownTo
  <2> QED BY <1>1, <2>1, <2>2 DEF Knows, OpenAIKnows, AnthropicKnows, BedrockKnows, OllamaKnows,
                                   VertexKnows
<1> QED BY <1>2

\* EndsIt, for a request that is still to be answered.
Ends(p, r) ==
  \/ p \in upVendors /\ (r.model \notin offers[p] \/ p \in r.spurnedBy)
  \/ p = "vertex" /\ (r.streamed \/ bareVertex \/ p \notin upVendors)

LEMMA RepliesOfOne ==
  ASSUME NEW p, NEW r
  PROVE  /\ RepliesAlone(p, r) \in {"answer", "empty", "refused", "fails", "panic"}
         /\ RepliesAlone(p, r) \notin {"answer", "fails"} => Ends(p, r)
         /\ p \in upVendors /\ ~Ends(p, r) => RepliesAlone(p, r) = "answer"
BY DEF RepliesAlone, BedrockReplies, OllamaReplies, VertexReplies, VendorReplies, Ends

LEMMA RepliesAre ==
  ASSUME NEW p, NEW r
  PROVE  /\ ProviderReplies(p, r) \in {"answer", "empty", "refused", "fails", "panic"}
         /\ ProviderReplies(p, r) \notin {"answer", "fails"} =>
              \E q \in {p} \union (IF p = "plano" THEN {fallbackOf} \ {"none"} ELSE {}) : Ends(q, r)
         /\ p \in upVendors /\ ~Ends(p, r) => ProviderReplies(p, r) = "answer"
<1>1. CASE p = "plano"
  <2>1. /\ VendorReplies(p, r) \in {"answer", "refused", "fails"}
        /\ VendorReplies(p, r) = "refused" => Ends(p, r)
        /\ p \in upVendors /\ ~Ends(p, r) => VendorReplies(p, r) = "answer"
    BY DEF VendorReplies, Ends
  <2>2. CASE VendorReplies(p, r) = "answer" \/ fallbackOf = "none"
    BY <1>1, <2>1, <2>2 DEF ProviderReplies, PlanoReplies
  <2>3. CASE ~(VendorReplies(p, r) = "answer" \/ fallbackOf = "none")
    <3>1. ProviderReplies(p, r) = RepliesAlone(fallbackOf, r)
      BY <1>1, <2>3 DEF ProviderReplies, PlanoReplies
    <3> QED BY <1>1, <2>1, <2>3, <3>1, RepliesOfOne
  <2> QED BY <2>2, <2>3
<1>2. CASE p # "plano"
  <2>1. ProviderReplies(p, r) = RepliesAlone(p, r)
    BY <1>2 DEF ProviderReplies
  <2> QED BY <1>2, <2>1, RepliesOfOne
<1> QED BY <1>1, <1>2

LEMMA WiringBegins == WiringInit => WiringInv
<1> SUFFICES ASSUME WiringInit PROVE WiringInv
  OBVIOUS
<1>1. WiringTypeOK
  <2>1. ToSet(<<>>) = {} /\ Len(<<>>) = 0
    BY DEF ToSet
  <2>2. Cardinality(registered) = 0
    BY FS_EmptySet DEF WiringInit
  <2>3. 0 \in 0..MaxChanges
    BY WiringConfig
  <2>4. Curated \subseteq Models
    BY WiringConfig
  <2>5. ToSet(primaries) \subseteq registered /\ Len(primaries) <= Cardinality(registered)
    BY <2>1, <2>2 DEF WiringInit
  <2>6. \A p \in ProviderNames : offers[p] \subseteq everOffered[p]
          /\ everOffered[p] \subseteq Models
                               /\ lists[p] \subseteq Models
    BY <2>4 DEF WiringInit
  <2> QED BY <2>3, <2>5, <2>6 DEF WiringInit, WiringTypeOK, NotAsked
<1>2. Starting
  BY DEF WiringInit, Starting
<1>3. Listing
  BY DEF WiringInit, Listing
<1> QED BY <1>1, <1>2, <1>3 DEF WiringInit, WiringInv, Vouched, AskingOne, RequestsAreServed,
           NotAsked

LEMMA StartWiringKeeps == WiringInv /\ StartWiring => WiringInv'
<1> SUFFICES ASSUME WiringInv, StartWiring PROVE WiringInv'
  OBVIOUS
<1>1. PICK c \in Configurations, w \in Wishes, f \in {"none"} \union ProviderNames :
        configured' = c /\ wanted' = w /\ hopeful' = f /\ awaiting' = c
        /\ addressed' \in {"local", "remote"}
  BY DEF StartWiring
<1>2. WiringTypeOK'
  BY <1>1 DEF WiringInv, StartWiring, WiringTypeOK, Starting, vendorVars
<1>3. Starting'
  BY <1>1 DEF WiringInv, StartWiring, Starting, vendorVars
<1>4. Listing'
  BY DEF WiringInv, StartWiring, Listing, vendorVars
<1>5. RequestsAreServed'
  BY DEF WiringInv, StartWiring, Starting, RequestsAreServed, NotAsked
<1> QED BY <1>2, <1>3, <1>4, <1>5 DEF WiringInv, StartWiring, Vouched, AskingOne

LEMMA RegisterKeeps == WiringInv /\ RegisterNext => WiringInv'
<1> SUFFICES ASSUME WiringInv, RegisterNext PROVE WiringInv'
  OBVIOUS
<1> DEFINE p == First(RegistrationOrder, awaiting)
<1>0. stage = "registering" /\ stage' = stage /\ UNCHANGED <<settingVars, vendorVars, chosen,
         primaries, lastReply>> /\ awaiting # {}
      /\ awaiting' = awaiting \ {p}
      /\ \/ /\ Register(p)
            /\ bareVertex' \in (IF p = "vertex" THEN BOOLEAN ELSE {bareVertex})
         \/ /\ p \in {"bedrock", "vertex"}
            /\ UNCHANGED <<registered, lists, bareVertex>>
      /\ fallbackOf' = IF p = "plano" /\ hopeful \in registered THEN hopeful ELSE fallbackOf
  BY DEF RegisterNext
<1>1. awaiting \subseteq configured /\ configured \subseteq ProviderNames
  BY WiringNames DEF WiringInv, WiringTypeOK
<1>2. p \in awaiting /\ p \in ProviderNames
  <2>1. DOMAIN RegistrationOrder = 1..Len(RegistrationOrder) /\ Len(RegistrationOrder) \in Nat
    BY Orders
  <2>2. awaiting \subseteq ToSet(RegistrationOrder)
    BY <1>1 DEF ProviderNames
  <2> QED BY <1>0, <1>1, <2>1, <2>2, FirstIsIn
<1> HIDE DEF p
<1>3. /\ registered' \in {registered, registered \union {p}}
      /\ registered' = registered => p \in registered \/ p \in {"bedrock", "vertex"}
      /\ \A q \in ProviderNames : lists'[q] \in {lists[q], KnownTo(q).list}
      /\ DOMAIN lists' = ProviderNames /\ bareVertex' \in BOOLEAN
  BY <1>0, <1>2 DEF Register, WiringInv, WiringTypeOK
<1>4. /\ IsFiniteSet(registered) /\ IsFiniteSet(registered')
      /\ Cardinality(registered') >= Cardinality(registered)
      /\ Cardinality(registered) \in Nat /\ Cardinality(registered') \in Nat
  <2>1. registered \subseteq ProviderNames /\ registered' \subseteq ProviderNames
    BY <1>1, <1>2, <1>3 DEF WiringInv, WiringTypeOK
  <2>2. IsFiniteSet(registered) /\ IsFiniteSet(registered')
    BY <2>1, NamesFinite, FS_Subset
  <2>3. registered \in SUBSET registered'
    BY <1>3
  <2> QED BY <2>2, <2>3, FS_Subset, FS_CardinalityType
<1>5. WiringTypeOK'
  <2>1. \A q \in ProviderNames : lists'[q] \subseteq Models
    BY <1>3, KnownLists DEF WiringInv, WiringTypeOK
  <2>2. \A q \in ProviderNames : offers'[q] \subseteq everOffered'[q]
          /\ everOffered'[q] \subseteq Models
    BY <1>0 DEF WiringInv, WiringTypeOK, vendorVars
  <2>3. fallbackOf' \in ProviderNames \union {"none"} /\ hopeful' \in ProviderNames \union {"none"}
    BY <1>0 DEF WiringInv, WiringTypeOK, settingVars
  <2>4. primaries' = <<>> /\ ToSet(<<>>) = {} /\ Len(<<>>) = 0 /\ lastReply' = NotAsked
    BY <1>0 DEF WiringInv, Starting, ToSet
  <2>5. Len(primaries') <= Cardinality(registered')
    BY <1>4, <2>4
  <2>6. registered' \subseteq configured' /\ awaiting' \subseteq configured'
    BY <1>0, <1>1, <1>2, <1>3 DEF WiringInv, WiringTypeOK, settingVars
  <2> QED BY <1>0, <1>3, <2>1, <2>2, <2>3, <2>4, <2>5, <2>6
          DEF WiringInv, WiringTypeOK, vendorVars, settingVars, NotAsked
<1>6. Starting'
  BY <1>0, <1>2, <1>3 DEF WiringInv, Starting, settingVars
<1>7. Listing'
  BY <1>0, <1>3, KnownLists DEF WiringInv, Listing, vendorVars
<1>8. Vouched' /\ AskingOne' /\ RequestsAreServed'
  BY <1>0 DEF WiringInv, Starting, Vouched, AskingOne, RequestsAreServed, NotAsked
<1> QED BY <1>5, <1>6, <1>7, <1>8 DEF WiringInv

\* What the name of a model is resolved to is registered and vouched for.
LEMMA ResolvedIs ==
  ASSUME WiringInv, stage = "registering", NEW w \in WishedFor, Resolved(w) # Nobody
  PROVE  /\ Resolved(w) \in Wishes /\ Resolved(w).from \in registered
         /\ \/ Resolved(w).model \in everOffered[Resolved(w).from]
            \/ Resolved(w).from \in Compatible \union {"plano"}
            \/ Resolved(w).from = "bedrock" /\ Resolved(w).model \in Prefixed
<1>1. registered \subseteq ProviderNames
  BY WiringNames DEF WiringInv, WiringTypeOK
<1>2. w \in Wishes
  <2>1. CASE w = wanted
    BY <2>1 DEF WiringInv, Starting
  <2>2. ASSUME NEW p \in registered, w \in [from : {p}, model : KnownTo(p).list] PROVE w \in Wishes
    <3>1. KnownTo(p).list \subseteq Models /\ p \in ProviderNames
      BY <1>1, <2>2, KnownLists
    <3> QED BY <2>2, <3>1 DEF Wishes
  <2> QED BY <2>1, <2>2 DEF WishedFor
<1>3. CASE w.from # "any"
  <2>1. Resolved(w) = w /\ w.from \in registered
          /\ w.model \in lists[w.from] \union KnownTo(w.from).valid
    BY <1>3 DEF Resolved
  <2>2. lists[w.from] \subseteq everOffered[w.from]
    BY <1>1, <2>1 DEF WiringInv, Listing
  <2> QED BY <1>1, <1>2, <2>1, <2>2, ValidNames
<1>4. CASE w.from = "any"
  <2> DEFINE listing == {p \in registered : w.model \in lists[p]}
             q == First(ByName, listing)
  <2>1. listing # {} /\ Resolved(w) = [from |-> q, model |-> w.model]
    BY <1>4 DEF Resolved
  <2>2. q \in listing
    <3>1. listing \subseteq ToSet(ByName)
      BY <1>1, WiringNames
    <3>2. DOMAIN ByName = 1..Len(ByName) /\ Len(ByName) \in Nat
      BY Orders
    <3> HIDE DEF listing
    <3> QED BY <2>1, <3>1, <3>2, FirstIsIn
  <2> HIDE DEF q
  <2>3. q \in registered /\ q \in ProviderNames /\ w.model \in everOffered[q]
    BY <1>1, <2>2 DEF WiringInv, Listing
  <2>4. w.model \in {"any"} \union Models
    BY <1>2 DEF Wishes
  <2> QED BY <2>1, <2>3, <2>4 DEF Wishes
<1> QED BY <1>3, <1>4

LEMMA WireUpKeeps == WiringInv /\ WireUp => WiringInv'
<1> SUFFICES ASSUME WiringInv, WireUp PROVE WiringInv'
  OBVIOUS
<1>0. stage = "registering" /\ awaiting = {} /\ lastReply = NotAsked /\ primaries = <<>>
      /\ UNCHANGED <<settingVars, vendorVars, registryVars, lastReply>>
  BY DEF WireUp, WiringInv, Starting
<1>1. CASE stage' = "ended" /\ UNCHANGED <<chosen, primaries>>
  BY <1>0, <1>1 DEF WiringInv, WiringTypeOK, Starting, Listing, Vouched, AskingOne,
     RequestsAreServed,
                    settingVars, vendorVars, registryVars, NotAsked
<1>2. ASSUME NEW w \in WishedFor, Resolved(w) # Nobody, chosen' = Resolved(w),
             NEW others \in SetToSeqs(registered \ {Resolved(w).from}),
             primaries' = <<Resolved(w).from>> \o others,
             stage' = "running"
      PROVE  WiringInv'
  <2> DEFINE q == Resolved(w).from
  <2>1. Resolved(w) \in Wishes /\ q \in registered
        /\ \/ Resolved(w).model \in everOffered[q]
           \/ q \in Compatible \union {"plano"}
           \/ q = "bedrock" /\ Resolved(w).model \in Prefixed
    BY <1>0, <1>2, ResolvedIs
  <2>2. registered \subseteq ProviderNames
    BY WiringNames DEF WiringInv, WiringTypeOK
  <2>3. IsFiniteSet(registered) /\ IsFiniteSet(registered \ {q})
        /\ Cardinality(registered \ {q}) = Cardinality(registered) - 1
        /\ Cardinality(registered) \in Nat /\ Cardinality(registered \ {q}) \in Nat
    <3>1. IsFiniteSet(registered)
      BY <2>2, NamesFinite, FS_Subset
    <3> QED BY <2>1, <3>1, FS_RemoveElement, FS_CardinalityType
  <2> DEFINE k == Cardinality(registered \ {q})
             rest == registered \ {q}
  <2>4. others \in [1..k -> rest] /\ \A i, j \in 1..k : i # j => others[i] # others[j]
    BY DEF SetToSeqs
  <2> HIDE DEF q, k
  <2>5. others \in Seq(rest) /\ Len(others) = k
    <3>1. k \in Nat
      BY <2>3 DEF k
    <3> QED BY <2>4, <3>1
  <2>6. \A x \in rest : \E i \in 1..k : others[i] = x
    <3>1. IsFiniteSet(1..k) /\ Cardinality(1..k) = k
      <4>1. IF 1 > k THEN k = 0 ELSE k - 1 + 1 = k
        BY <2>3 DEF k
      <4> QED BY <2>3, <4>1, FS_Interval DEF k
    <3>2. others \in Injection(1..k, rest)
      BY <2>4 DEF Injection, IsInjective
    <3>3. others \in Surjection(1..k, rest)
      BY <2>3, <3>1, <3>2, FS_Injection DEF k
    <3> QED BY <3>3 DEF Surjection
  <2>7. primaries' = <<q>> \o others /\ <<q>> \in Seq(registered) /\ others \in Seq(registered)
        /\ primaries' \in Seq(registered) /\ Len(primaries') = 1 + k /\ primaries'[1] = q
        /\ \A i \in 1..k : primaries'[i + 1] = others[i]
    <3>1. others \in Seq(registered) /\ <<q>> \in Seq(registered)
      BY <2>1, <2>5 DEF q
    <3>2. primaries' = <<q>> \o others
      BY <1>2 DEF q
    <3>3. Len(<<q>>) = 1 /\ <<q>>[1] = q /\ k \in Nat /\ Len(others) = k
      BY <2>3, <2>5 DEF k
    <3>4. /\ <<q>> \o others \in Seq(registered) /\ Len(<<q>> \o others) = 1 + k
          /\ \A i \in 1..(1 + k) :
               (<<q>> \o others)[i] = IF i <= 1 THEN <<q>>[i] ELSE others[i - 1]
      BY <3>1, <3>3, ConcatProperties
    <3>5. \A i \in 1..k : i + 1 \in 1..(1 + k) /\ ~ (i + 1 <= 1) /\ i + 1 - 1 = i
      BY <3>3
    <3>6. 1 \in 1..(1 + k)
      BY <3>3
    <3> QED BY <3>1, <3>2, <3>3, <3>4, <3>5, <3>6
  <2>8. DOMAIN primaries' = 1..(1 + k)
    BY <2>3, <2>7, LenProperties
  <2>9. ToSet(primaries') = registered
    <3>1. \A i \in 1..(1 + k) : primaries'[i] \in registered
      BY <2>7, ElementOfSeq
    <3>2. ASSUME NEW x \in registered PROVE \E i \in 1..(1 + k) : primaries'[i] = x
      <4>1. CASE x = q
        BY <2>3, <2>7, <4>1 DEF k
      <4>2. CASE x # q
        <5>1. PICK i \in 1..k : others[i] = x
          BY <2>6, <4>2
        <5>2. i + 1 \in 1..(1 + k)
          BY <2>3, <5>1 DEF k
        <5> QED BY <2>7, <5>1, <5>2
      <4> QED BY <4>1, <4>2
    <3> QED BY <2>8, <3>1, <3>2 DEF ToSet
  <2>10. WiringTypeOK'
    <3>1. Len(primaries') <= Cardinality(registered)
      BY <2>3, <2>7 DEF k
    <3>2. chosen' \in Wishes
      BY <1>2, <2>1
    <3> QED BY <1>0, <1>2, <2>9, <3>1, <3>2
            DEF WiringInv, WiringTypeOK, settingVars, vendorVars, registryVars
  <2>11. AskingOne'
    <3>1. primaries' \in Seq(ProviderNames) /\ primaries' # <<>>
      BY <2>2, <2>3, <2>7 DEF k
    <3> QED BY <1>0, <1>2, <2>7, <2>9, <3>1 DEF AskingOne, registryVars, q
  <2>12. Vouched'
    BY <1>0, <1>2, <2>1 DEF Vouched, vendorVars, q
  <2> QED BY <1>0, <1>2, <2>10, <2>11, <2>12
          DEF WiringInv, Starting, Listing, RequestsAreServed, NotAsked, settingVars, vendorVars,
              registryVars
<1> QED BY <1>1, <1>2 DEF WireUp

\* Who has the last word, if anybody has.
LEMMA LastWordIs ==
  ASSUME WiringInv, stage = "running", NEW r
  PROVE  /\ LastWord(r) = 0 =>
              \A i \in 1..Len(primaries) : ProviderReplies(primaries[i], r) = "fails"
         /\ LastWord(r) # 0 =>
              /\ LastWord(r) \in 1..Len(primaries)
              /\ ProviderReplies(primaries[LastWord(r)], r) # "fails"
              /\ \A i \in 1..Len(primaries) :
                   i < LastWord(r) => ProviderReplies(primaries[i], r) = "fails"
<1> DEFINE I == {i \in 1..Len(primaries) : ProviderReplies(primaries[i], r) # "fails"}
<1>0. Len(primaries) \in Nat
  BY LenProperties DEF WiringInv, AskingOne
<1>1. LastWord(r) = IF I # {} THEN Min(I) ELSE 0
  BY DEF LastWord, SelectInSeq
<1>2. CASE I = {}
  BY <1>1, <1>2
<1>3. CASE I # {}
  <2>1. I \subseteq Nat
    BY <1>0
  <2>2. Min(I) \in I /\ \A y \in I : Min(I) <= y
    <3> HIDE DEF I
    <3> QED BY <1>3, <2>1, LeastIsMin
  <2>3. Min(I) # 0
    BY <2>2
  <2>4. ASSUME NEW i \in 1..Len(primaries), i < Min(I)
        PROVE  ProviderReplies(primaries[i], r) = "fails"
    <3>1. i \notin I
      <4> HIDE DEF I
      <4>1. Min(I) \in Nat
        BY <2>1, <2>2
      <4> QED BY <2>2, <2>4, <4>1
    <3> QED BY <3>1
  <2> QED BY <1>1, <1>3, <2>2, <2>3, <2>4
<1> QED BY <1>2, <1>3

LEMMA AskKeeps == WiringInv /\ AskProviders => WiringInv'
<1> SUFFICES ASSUME WiringInv, AskProviders PROVE WiringInv'
  OBVIOUS
<1>a. PICK r \in ModelRequests, local \in BOOLEAN :
        /\ stage = "running"
        /\ lastReply' =
             [end |-> IF LastWord(r) # 0 THEN ProviderReplies(primaries[LastWord(r)], r)
                      ELSE IF local /\ ~r.streamed THEN "answer" ELSE "fails",
              asked |-> ToSet(IF LastWord(r) # 0 THEN SubSeq(primaries, 1, LastWord(r))
                              ELSE primaries),
              streamed |-> r.streamed, spurnedBy |-> r.spurnedBy]
        /\ UNCHANGED <<stage, settingVars, vendorVars, registryVars, chosen, primaries>>
  BY DEF AskProviders
<1> DEFINE n == LastWord(r)
<1>0. /\ stage = "running" /\ r.model = chosen.model
      /\ UNCHANGED <<stage, settingVars, vendorVars, registryVars, chosen, primaries>>
      /\ lastReply'.streamed = r.streamed /\ lastReply'.spurnedBy = r.spurnedBy
      /\ r.spurnedBy \subseteq configured
  BY <1>a DEF ModelRequests
<1>b. \A p : EndsIt(p)' <=> Ends(p, r)
  BY <1>0 DEF EndsIt, Ends, vendorVars, registryVars
<1>1. /\ primaries \in Seq(ProviderNames) /\ Len(primaries) \in Nat \ {0}
      /\ primaries[1] = chosen.from /\ ToSet(primaries) = registered
      /\ DOMAIN primaries = 1..Len(primaries)
      /\ awaiting = {} /\ configured \ {"bedrock", "vertex"} \subseteq registered
      /\ registered \subseteq configured
  BY <1>0, EmptySeq, LenProperties DEF WiringInv, AskingOne, Starting, WiringTypeOK
<1>2. CASE n = 0 /\ lastReply'.end \in {"answer", "fails"} /\ lastReply'.asked = ToSet(primaries)
  <2>1. ProviderReplies(chosen.from, r) = "fails"
    BY <1>0, <1>1, <1>2, LastWordIs
  <2>2. chosen.from \notin upVendors \/ Ends(chosen.from, r)
    BY <2>1, RepliesAre
  <2>3. registered = configured \ ({"bedrock", "vertex"} \ registered)
    BY <1>1
  <2>4. RequestsAreServed'
    BY <1>0, <1>b, <1>1, <1>2, <2>2, <2>3
       DEF RequestsAreServed, settingVars, vendorVars, registryVars
  <2>5. WiringTypeOK'
    BY <1>0, <1>1, <1>2 DEF WiringInv, WiringTypeOK, settingVars, vendorVars, registryVars
  <2> QED BY <1>0, <2>4, <2>5 DEF WiringInv, Starting, Listing, Vouched, AskingOne, settingVars,
                                 vendorVars, registryVars
<1>3. CASE /\ n # 0 /\ lastReply'.end = ProviderReplies(primaries[n], r)
           /\ lastReply'.asked = ToSet(SubSeq(primaries, 1, n))
  <2>1. n \in 1..Len(primaries) /\ ProviderReplies(primaries[n], r) # "fails"
        /\ \A i \in 1..Len(primaries) : i < n => ProviderReplies(primaries[i], r) = "fails"
    BY <1>0, <1>3, LastWordIs
  <2> HIDE DEF n
  <2>2. ToSet(SubSeq(primaries, 1, n)) \subseteq registered
        /\ primaries[n] \in ToSet(SubSeq(primaries, 1, n))
    <3>1. /\ SubSeq(primaries, 1, n) \in Seq(ProviderNames) /\ Len(SubSeq(primaries, 1, n)) = n
          /\ \A i \in 1..n : SubSeq(primaries, 1, n)[i] = primaries[i]
      <4>1. \A i \in 1..n : primaries[i] \in ProviderNames
        BY <1>1, <2>1, ElementOfSeq
      <4> QED BY <1>1, <2>1, <4>1, SubSeqProperties
    <3>2. DOMAIN SubSeq(primaries, 1, n) = 1..n
      BY <3>1, LenProperties
    <3>3. ASSUME NEW i \in 1..n PROVE SubSeq(primaries, 1, n)[i] \in ToSet(primaries)
      BY <1>1, <2>1, <3>1 DEF ToSet
    <3>4. ToSet(SubSeq(primaries, 1, n)) = {SubSeq(primaries, 1, n)[i] : i \in 1..n}
      BY <3>2 DEF ToSet
    <3>5. n \in 1..n /\ SubSeq(primaries, 1, n)[n] = primaries[n]
      BY <2>1, <3>1
    <3>6. primaries[n] \in ToSet(SubSeq(primaries, 1, n))
      BY ONLY <3>4, <3>5
    <3> QED BY ONLY <1>1, <3>3, <3>4, <3>6
  <2>3. lastReply'.end \in {"answer", "empty", "refused", "panic"}
    BY <1>3, <2>1, RepliesAre
  <2>4. lastReply'.end # "answer" =>
          chosen.from \notin upVendors \/ Ends(chosen.from, r)
    <3> SUFFICES ASSUME chosen.from \in upVendors, ~Ends(chosen.from, r)
                 PROVE  lastReply'.end = "answer"
      OBVIOUS
    <3>1. ProviderReplies(primaries[1], r) = "answer"
      BY <1>1, RepliesAre
    <3>2. n = 1
      BY <1>1, <2>1, <3>1
    <3> QED BY <1>3, <3>1, <3>2
  <2>5. lastReply'.end # "answer" =>
          \E p \in lastReply'.asked
                     \union (IF "plano" \in lastReply'.asked THEN {fallbackOf} \ {"none"} ELSE {}) :
            Ends(p, r)
    <3> SUFFICES ASSUME lastReply'.end # "answer"
                 PROVE  \E p \in lastReply'.asked
                     \union (IF "plano" \in lastReply'.asked THEN {fallbackOf} \ {"none"} ELSE {}) :
                          Ends(p, r)
      OBVIOUS
    <3>1. ProviderReplies(primaries[n], r) \notin {"answer", "fails"}
      BY <1>3, <2>1
    <3> DEFINE x == primaries[n]
    <3>2. PICK q \in {x} \union (IF x = "plano" THEN {fallbackOf} \ {"none"} ELSE {}) :
                Ends(q, r)
      BY <3>1, RepliesAre
    <3>3. x \in lastReply'.asked
      BY <1>3, <2>2
    <3> QED BY <3>2, <3>3
  <2>6. RequestsAreServed'
    BY <1>0, <1>b, <2>3, <2>4, <2>5 DEF RequestsAreServed, settingVars, vendorVars, registryVars
  <2>7. WiringTypeOK'
    BY <1>0, <1>3, <2>2, <2>3 DEF WiringInv, WiringTypeOK, settingVars, vendorVars, registryVars
  <2> QED BY <1>0, <2>6, <2>7 DEF WiringInv, Starting, Listing, Vouched, AskingOne, settingVars,
                                 vendorVars, registryVars
<1> QED BY <1>a, <1>2, <1>3

LEMMA VendorsKeep == WiringInv /\ VendorChanges => WiringInv'
<1> SUFFICES ASSUME WiringInv, NEW p \in configured, stage \in {"registering", "running"},
                    changes < MaxChanges, changes' = changes + 1,
                    \/ /\ upVendors' \in {upVendors \ {p}, upVendors \union {p}}
                       /\ UNCHANGED <<offers, everOffered>>
                    \/ \E m \in Prefixed :
                         /\ offers' = [offers EXCEPT ![p] = IF m \in @
                              THEN @ \ {m} ELSE @ \union {m}]
                         /\ everOffered' = [everOffered EXCEPT ![p] = @ \union {m}]
                         /\ UNCHANGED upVendors,
                    lastReply' = NotAsked,
                    UNCHANGED <<stage, settingVars, registryVars, chosen, primaries>>
             PROVE  WiringInv'
  BY Zenon DEF VendorChanges
<1>0. p \in ProviderNames /\ configured \subseteq ProviderNames
  BY WiringNames DEF WiringInv, WiringTypeOK
<1>1. /\ upVendors' \subseteq ProviderNames /\ DOMAIN offers' = ProviderNames
      /\ \A q \in ProviderNames : /\ offers'[q] \subseteq everOffered'[q]
                                  /\ everOffered[q] \subseteq everOffered'[q]
                                  /\ everOffered'[q] \subseteq Models
  <2>1. CASE UNCHANGED <<offers, everOffered>>
    BY <1>0, <2>1 DEF WiringInv, WiringTypeOK
  <2>2. ASSUME NEW m \in Prefixed,
               offers' = [offers EXCEPT ![p] = IF m \in @ THEN @ \ {m} ELSE @ \union {m}],
               everOffered' = [everOffered EXCEPT ![p] = @ \union {m}], UNCHANGED upVendors
        PROVE  /\ upVendors' \subseteq ProviderNames /\ DOMAIN offers' = ProviderNames
               /\ \A q \in ProviderNames : /\ offers'[q] \subseteq everOffered'[q]
                                           /\ everOffered[q] \subseteq everOffered'[q]
                                           /\ everOffered'[q] \subseteq Models
    <3>1. m \in Models /\ DOMAIN everOffered = DOMAIN everOffered'
      BY <2>2, WiringConfig
    <3>2. \A q \in ProviderNames : offers[q] \subseteq everOffered[q]
            /\ everOffered[q] \subseteq Models
      BY DEF WiringInv, WiringTypeOK
    <3>3. DOMAIN offers = ProviderNames /\ DOMAIN everOffered = ProviderNames
          /\ upVendors \subseteq ProviderNames
      BY DEF WiringInv, WiringTypeOK, Listing
    <3>4. ASSUME NEW q \in ProviderNames, q # p
          PROVE  offers'[q] = offers[q] /\ everOffered'[q] = everOffered[q]
      BY <2>2, <3>3, <3>4
    <3>5. offers'[p] \subseteq offers[p] \union {m} /\ everOffered'[p] = everOffered[p] \union {m}
      BY <1>0, <2>2, <3>3
    <3> QED BY <2>2, <3>1, <3>2, <3>3, <3>4, <3>5
  <2> QED BY <1>0, <2>1, <2>2
<1>2. changes' \in 0..MaxChanges
  BY WiringConfig DEF WiringInv, WiringTypeOK
<1>3. WiringTypeOK'
  BY <1>1, <1>2 DEF WiringInv, WiringTypeOK, settingVars, registryVars, NotAsked
<1>4. Vouched'
  <2> SUFFICES ASSUME stage = "running" PROVE Vouched'
    BY DEF Vouched
  <2>1. chosen.from \in ProviderNames
    BY <1>0, ElementOfSeq, EmptySeq DEF WiringInv, AskingOne
  <2> QED BY <1>1, <2>1 DEF WiringInv, Vouched
<1>5. Listing'
  <2>1. DOMAIN everOffered' = ProviderNames
    BY DEF WiringInv, Listing
  <2> QED BY <1>1, <2>1 DEF WiringInv, Listing, registryVars
<1> QED BY <1>3, <1>4, <1>5 DEF WiringInv, Starting, AskingOne, RequestsAreServed, NotAsked,
                                settingVars, registryVars

LEMMA WiringStep == WiringInv /\ [WiringNext]_wiringVars => WiringInv'
<1>1. WiringInv /\ UNCHANGED wiringVars => WiringInv'
  BY DEF wiringVars, settingVars, vendorVars, registryVars, WiringInv, WiringTypeOK, Starting,
         Listing, Vouched, AskingOne, RequestsAreServed, EndsIt
<1> QED BY <1>1, StartWiringKeeps, RegisterKeeps, WireUpKeeps, AskKeeps, VendorsKeep DEF WiringNext

LEMMA WiringKeeps == WiringInv => WiringTypeOK /\ WiringHolds
  BY DEF WiringInv, WiringHolds, NamesAreVouchedFor, Vouched

-----------------------------------------------------------------------------
(* The whole conversation *)

LEMMA AgentPart == [Next]_vars => [AgentNext]_agentVars
  BY DEF Next, vars, chatVars

LEMMA WirePart == [Next]_vars => [WireNext]_wireVars
  BY DEF Next, vars, chatVars

LEMMA FailoverPart == [Next]_vars => [FailoverNext]_failoverVars
  BY DEF Next, vars, chatVars

LEMMA StreamPart == [Next]_vars => [StreamNext]_streamVars
  BY DEF Next, vars, chatVars

LEMMA BufferPart == [Next]_vars => [BufferNext]_bufferVars
  BY DEF Next, vars, chatVars

LEMMA ChannelPart == [Next]_vars => [ChannelNext]_channelVars
  BY DEF Next, vars, chatVars

LEMMA McpPart == [Next]_vars => [McpNext]_mcpVars
  BY DEF Next, vars, otherVars

LEMMA EmbedPart == [Next]_vars => [EmbedNext]_embedVars
  BY DEF Next, vars, otherVars

LEMMA WiringPart == [Next]_vars => [WiringNext]_wiringVars
  BY DEF Next, vars, otherVars

LEMMA PartsBegin ==
  Init => /\ AgentInit /\ WireInit /\ FailoverInit /\ StreamInit /\ BufferInit /\ ChannelInit
          /\ McpInit /\ EmbedInit /\ WiringInit
  BY DEF Init

\* The calls of every turn and their results stay in pairs, in the memory and in what each
\* vendor is sent of it, merged turns of results included, and a turn tells its end or its
\* error once: for any turns on a session, replies, calls, compactions and histories.
THEOREM TurnsStayWhole == Spec => []TurnsAreWhole
<1>1. Spec => [](CallsMeetResults /\ OneEnd)
  BY PartsBegin, AgentPart, AgentKeeps, PTL DEF Spec
<1>2. Spec => []RequestsKeepPairs
  BY PartsBegin, WirePart, WireKeeps, PTL DEF Spec
<1>3. CallsMeetResults /\ OneEnd /\ RequestsKeepPairs => TurnsAreWhole
  BY DEF TurnsAreWhole
<1> QED BY <1>1, <1>2, <1>3, PTL

\* The text that a reader of a stream has been handed is a prefix of the vendor's, and a reply
\* that was completed is whole, unless the connection broke or the vendor failed and its reader
\* does not know; and the buffer hands the tokens of a turn on in their order and keeps none
\* of them behind Done, also when a background goal speaks through it later.
THEOREM TextStaysFaithful == Spec => []TextIsFaithful
<1>1. Spec => []ReplyIsFaithful
  BY PartsBegin, StreamPart, StreamKeeps, PTL DEF Spec
<1>2. Spec => []TokensInOrder
  BY PartsBegin, BufferPart, BufferBegins, BufferStep, BufferKeeps, PTL DEF Spec
<1>3. ReplyIsFaithful /\ TokensInOrder => TextIsFaithful
  BY DEF TextIsFaithful
<1> QED BY <1>1, <1>2, <1>3, PTL

\* A call of a tool returns its own answer, and an answer that nobody waits for stays
\* unread, whatever the server does with the requests and whenever a caller gives up.
THEOREM ToolsStayAnswered == Spec => []McpAnswers
  BY PartsBegin, McpPart, McpBegins, McpStep, McpKeeps, PTL DEF Spec

\* The vector stored for a note is the one of its own text, from the backend it names,
\* in whatever order a vendor answers a batch and whatever fails in between.
THEOREM VectorsStayOwn == Spec => []VectorsAreOwn
  BY PartsBegin, EmbedPart, EmbedBegins, EmbedStep, EmbedKeeps, PTL DEF Spec

\* A program runs with a name that its provider's vendor never had only if the provider lets
\* names through, and a request ends without an answer only if every provider it may go to
\* failed for now, or one of them ended it: it lacks the model, takes the request for good
\* for none of its own, or is Vertex and cannot stream; whatever is configured, and however
\* vendors and settings change while a program starts.
THEOREM WiringStaysTrue == Spec => []WiringHolds
  BY PartsBegin, WiringPart, WiringBegins, WiringStep, WiringKeeps, PTL DEF Spec

\* Every variable of every part keeps its type.
THEOREM ConversationTypes == Spec => []TypeOK
<1>1. Spec => [](AgentTypeOK /\ WireTypeOK)
  BY PartsBegin, AgentPart, AgentKeeps, WirePart, WireKeeps, PTL DEF Spec
<1>2. Spec => []FailoverTypeOK
  BY PartsBegin, FailoverPart, FailoverBegins, FailoverStep, PTL DEF Spec
<1>3. Spec => [](StreamTypeOK /\ BufferTypeOK)
  BY PartsBegin, StreamPart, StreamKeeps, BufferPart, BufferBegins, BufferStep, BufferKeeps,
     PTL DEF Spec
<1>4. Spec => [](ChannelTypeOK /\ McpTypeOK)
  BY PartsBegin, ChannelPart, ChannelBegins, ChannelStep, ChannelKeeps, McpPart, McpBegins,
     McpStep, McpKeeps, PTL DEF Spec
<1>5. Spec => [](EmbedTypeOK /\ WiringTypeOK)
  BY PartsBegin, EmbedPart, EmbedBegins, EmbedStep, EmbedKeeps, WiringPart, WiringBegins,
     WiringStep, WiringKeeps, PTL DEF Spec
<1>6. /\ AgentTypeOK /\ WireTypeOK /\ FailoverTypeOK /\ StreamTypeOK /\ BufferTypeOK
      /\ ChannelTypeOK /\ McpTypeOK /\ EmbedTypeOK /\ WiringTypeOK
      => TypeOK
  BY DEF TypeOK
<1> QED BY <1>1, <1>2, <1>3, <1>4, <1>5, <1>6, PTL
=============================================================================
