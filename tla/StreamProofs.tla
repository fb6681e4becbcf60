----------------------------- MODULE StreamProofs -----------------------------
(***************************************************************************)
(* Proofs about a streamed reply (ModelStream): that the reader passes on  *)
(* the vendor's text in order and every call once, however the fragments   *)
(* are cut, the events queued, the connection lost and the reader left.    *)
(***************************************************************************)
EXTENDS ModelStream, RecursionProofs

-----------------------------------------------------------------------------
(* A streamed reply *)

ChunkSet == [kind : {"text", "call", "finish", "finish+usage", "usage", "[DONE]", "error"},
             call : Nat, nth : Nat]

ReplySet == [text : Nat, calls : Seq(Nat \ {0})]

\* The chunks of the first n calls of a reply.
ChunksUpTo(r, n) ==
  FlattenSeq([c \in 1..n |-> [k \in 1..r.calls[c] |-> Chunk("call", c, k)]])

\* Call chunks come call after call, and fragment after fragment.
Earlier(a, b) == a.call < b.call \/ (a.call = b.call /\ a.nth < b.nth)

CallsUpTo(r, n, s) ==
  /\ s \in Seq(ChunkSet)
  /\ \A i \in DOMAIN s : /\ s[i] = Chunk("call", s[i].call, s[i].nth)
                         /\ s[i].call \in 1..n /\ s[i].nth \in 1..r.calls[s[i].call]
  /\ \A i, j \in DOMAIN s : i < j => Earlier(s[i], s[j])
  /\ \A c \in 1..n : \A k \in 1..r.calls[c] : \E i \in DOMAIN s : s[i] = Chunk("call", c, k)

LEMMA CallsGoOn ==
  ASSUME NEW r \in ReplySet, NEW n \in Nat, n + 1 <= Len(r.calls), NEW s, CallsUpTo(r, n, s),
         NEW t, t = [k \in 1..r.calls[n + 1] |-> Chunk("call", n + 1, k)]
  PROVE  CallsUpTo(r, n + 1, s \o t) /\ t \in Seq(ChunkSet)
<1> DEFINE m == r.calls[n + 1]
<1>0. r.calls \in Seq(Nat \ {0}) /\ Len(r.calls) \in Nat
  BY LenProperties DEF ReplySet
<1>1. m \in Nat \ {0}
  BY <1>0, ElementOfSeq
<1>2. s \in Seq(ChunkSet) /\ Len(s) \in Nat /\ DOMAIN s = 1..Len(s)
  BY LenProperties DEF CallsUpTo
<1> HIDE DEF m
<1>3. t \in Seq(ChunkSet) /\ Len(t) = m /\ DOMAIN t = 1..m
  <2>1. t = [k \in 1..m |-> Chunk("call", n + 1, k)]
    BY DEF m
  <2>2. \A k \in 1..m : Chunk("call", n + 1, k) \in ChunkSet
    BY <1>1 DEF Chunk, ChunkSet
  <2>3. DOMAIN t = 1..m /\ t = [k \in 1..m |-> t[k]]
          /\ \A k \in 1..m : t[k] = Chunk("call", n + 1, k)
    BY <2>1, Zenon
  <2>4. \A k \in 1..m : t[k] \in ChunkSet
    BY <2>2, <2>3
  <2>5. t \in Seq(ChunkSet)
    <3>1. m \in Nat /\ t \in [1..m -> ChunkSet]
      BY <1>1, <2>3, <2>4
    <3> QED BY <3>1, SeqDef
  <2>6. Len(t) \in Nat /\ 1..Len(t) = 1..m
    BY <2>3, <2>5, LenProperties
  <2>7. Len(t) = m
    <3>1. ASSUME NEW x \in Nat, NEW y \in Nat \ {0}, 1..x = 1..y PROVE x = y
      <4>1. y \in 1..y
        OBVIOUS
      <4>2. y \in 1..x
        BY <3>1, <4>1
      <4>3. y <= x
        BY ONLY <4>2, x \in Nat, y \in Nat \ {0}
      <4>4. x \in 1..x
        BY <4>2
      <4>5. x \in 1..y
        BY <3>1, <4>4
      <4> QED BY ONLY <4>3, <4>5, x \in Nat, y \in Nat \ {0}
    <3> QED BY <1>1, <2>6, <3>1
  <2> QED BY <2>3, <2>5, <2>7
<1>4. \A k \in 1..m : t[k] = Chunk("call", n + 1, k) /\ t[k].call = n + 1 /\ t[k].nth = k
  BY DEF Chunk, m
<1>5. /\ s \o t \in Seq(ChunkSet) /\ DOMAIN (s \o t) = 1..(Len(s) + m)
      /\ \A i \in 1..(Len(s) + m) : (s \o t)[i] = IF i <= Len(s) THEN s[i] ELSE t[i - Len(s)]
  <2>1. /\ s \o t \in Seq(ChunkSet) /\ Len(s \o t) = Len(s) + Len(t)
        /\ \A i \in 1..(Len(s) + Len(t)) : (s \o t)[i] = IF i <= Len(s) THEN s[i] ELSE t[i - Len(s)]
    BY <1>2, <1>3, ConcatProperties
  <2>2. DOMAIN (s \o t) = 1..Len(s \o t)
    BY <2>1, LenProperties
  <2> QED BY <1>3, <2>1, <2>2
<1> DEFINE w == s \o t
<1>6. \A i \in 1..(Len(s) + m) : IF i <= Len(s) THEN i \in DOMAIN s /\ w[i] = s[i]
                                 ELSE i - Len(s) \in 1..m /\ w[i] = t[i - Len(s)]
  <2>1. \A i \in 1..(Len(s) + m) : IF i <= Len(s) THEN i \in 1..Len(s) ELSE i - Len(s) \in 1..m
    BY <1>1, <1>2
  <2>2. \A i \in 1..(Len(s) + m) : w[i] = IF i <= Len(s) THEN s[i] ELSE t[i - Len(s)]
    BY <1>5
  <2> QED BY <1>2, <2>1, <2>2
<1>7. w \in Seq(ChunkSet) /\ DOMAIN w = 1..(Len(s) + m)
  BY <1>5
<1> HIDE DEF w
<1>8. ASSUME NEW i \in DOMAIN w
      PROVE  /\ w[i] = Chunk("call", w[i].call, w[i].nth)
             /\ w[i].call \in 1..(n + 1) /\ w[i].nth \in 1..r.calls[w[i].call]
  <2>1. CASE i <= Len(s)
    BY <1>6, <1>7, <2>1 DEF CallsUpTo
  <2>2. CASE ~ (i <= Len(s))
    <3>1. i - Len(s) \in 1..m /\ w[i] = t[i - Len(s)]
      BY <1>6, <1>7, <2>2
    <3>2. w[i] = Chunk("call", n + 1, i - Len(s)) /\ w[i].call = n + 1 /\ w[i].nth = i - Len(s)
      BY <1>4, <3>1
    <3> QED BY <3>1, <3>2 DEF m
  <2> QED BY <2>1, <2>2
<1>9. ASSUME NEW i \in DOMAIN w, NEW j \in DOMAIN w, i < j PROVE Earlier(w[i], w[j])
  <2>1. CASE j <= Len(s)
    <3>1. i <= Len(s)
      BY <1>1, <1>2, <1>7, <1>9, <2>1
    <3> QED BY <1>6, <1>7, <1>9, <2>1, <3>1 DEF CallsUpTo
  <2>2. CASE ~ (j <= Len(s))
    <3>1. j - Len(s) \in 1..m /\ w[j].call = n + 1 /\ w[j].nth = j - Len(s)
      <4>1. j - Len(s) \in 1..m /\ w[j] = t[j - Len(s)]
        BY <1>6, <1>7, <2>2
      <4> QED BY <1>4, <4>1
    <3>2. CASE i <= Len(s)
      <4>1. w[i].call \in 1..n
        BY <1>6, <1>7, <3>2 DEF CallsUpTo
      <4> QED BY <3>1, <4>1 DEF Earlier
    <3>3. CASE ~ (i <= Len(s))
      <4>1. w[i].call = n + 1 /\ w[i].nth = i - Len(s)
        <5>1. i - Len(s) \in 1..m /\ w[i] = t[i - Len(s)]
          BY <1>6, <1>7, <3>3
        <5> QED BY <1>4, <5>1
      <4>2. i - Len(s) < j - Len(s)
        BY <1>1, <1>2, <1>7, <1>9
      <4> QED BY <3>1, <4>1, <4>2 DEF Earlier
    <3> QED BY <3>2, <3>3
  <2> QED BY <2>1, <2>2
<1>10. ASSUME NEW c \in 1..(n + 1), NEW k \in 1..r.calls[c]
       PROVE  \E i \in DOMAIN w : w[i] = Chunk("call", c, k)
  <2>1. CASE c = n + 1
    <3>1. k \in 1..m
      BY <2>1 DEF m
    <3>2. k + Len(s) \in DOMAIN w /\ ~ (k + Len(s) <= Len(s)) /\ k + Len(s) - Len(s) = k
      BY <1>1, <1>2, <1>7, <3>1
    <3>3. PICK i : i = k + Len(s)
      OBVIOUS
    <3>4. w[i] = t[i - Len(s)] /\ i - Len(s) = k /\ i \in DOMAIN w
      BY <1>6, <1>7, <3>2, <3>3
    <3> QED BY <1>4, <2>1, <3>1, <3>4
  <2>2. CASE c # n + 1
    <3>1. c \in 1..n
      BY <2>2
    <3>2. PICK i \in DOMAIN s : s[i] = Chunk("call", c, k)
      BY <3>1 DEF CallsUpTo
    <3>3. i \in DOMAIN w /\ i <= Len(s)
      BY <1>1, <1>2, <1>7
    <3>4. w[i] = s[i]
      BY <1>6, <1>7, <3>3
    <3> QED BY <3>2, <3>3, <3>4
  <2> QED BY <2>1, <2>2
<1>11. CallsUpTo(r, n + 1, w)
  BY <1>7, <1>8, <1>9, <1>10 DEF CallsUpTo
<1> QED BY <1>3, <1>11 DEF w

LEMMA CallsInOrder ==
  ASSUME NEW r \in ReplySet PROVE CallsUpTo(r, Len(r.calls), CallChunks(r))
<1> DEFINE of(c) == [k \in 1..r.calls[c] |-> Chunk("call", c, k)]
           ss(n) == [c \in 1..n |-> of(c)]
           N == {n \in Nat : n <= Len(r.calls) =>
                   ss(n) \in Seq(Seq(ChunkSet)) /\ CallsUpTo(r, n, FlattenSeq(ss(n)))}
<1>0. Len(r.calls) \in Nat
  BY LenProperties DEF ReplySet
<1>1. 0 \in N
  <2>1. ss(0) = <<>>
    <3>1. 1..0 = {}
      OBVIOUS
    <3>2. DOMAIN ss(0) = {} /\ ss(0) = [c \in DOMAIN ss(0) |-> ss(0)[c]]
      BY <3>1, Zenon
    <3> HIDE DEF ss
    <3> QED BY <3>2
  <2>2. CallsUpTo(r, 0, <<>>)
    BY DEF CallsUpTo
  <2>3. <<>> \in Seq(Seq(ChunkSet))
    BY EmptySeq
  <2> HIDE DEF ss
  <2> QED BY <2>1, <2>2, <2>3, FlattenEmpty
<1>2. ASSUME NEW n \in Nat, n \in N PROVE n + 1 \in N
  <2>0. SUFFICES ASSUME n + 1 <= Len(r.calls)
               PROVE ss(n + 1) \in Seq(Seq(ChunkSet)) /\ CallsUpTo(r, n + 1, FlattenSeq(ss(n + 1)))
    <3> HIDE DEF ss
    <3> QED BY <2>0
  <2>1. ss(n) \in Seq(Seq(ChunkSet)) /\ CallsUpTo(r, n, FlattenSeq(ss(n)))
    BY <1>0, <1>2, <2>0
  <2>2. CallsUpTo(r, n + 1, FlattenSeq(ss(n)) \o of(n + 1)) /\ of(n + 1) \in Seq(ChunkSet)
    <3> HIDE DEF ss, N
    <3> QED BY <2>0, <2>1, CallsGoOn
  <2>3. ss(n + 1) = Append(ss(n), of(n + 1))
    <3>1. Len(ss(n)) = n /\ DOMAIN ss(n) = 1..n /\ \A i \in 1..n : ss(n)[i] = of(i)
      <4>1. DOMAIN ss(n) = 1..n /\ \A i \in 1..n : ss(n)[i] = of(i)
        BY Zenon
      <4> HIDE DEF ss
      <4> QED BY <2>1, <4>1, LenProperties
    <3>2. DOMAIN ss(n + 1) = 1..(n + 1) /\ \A i \in 1..(n + 1) : ss(n + 1)[i] = of(i)
      BY Zenon
    <3>3. ss(n + 1) = [i \in 1..(n + 1) |-> of(i)]
      BY Zenon
    <3> HIDE DEF ss, of, N
    <3>4. /\ Append(ss(n), of(n + 1)) \in Seq(Seq(ChunkSet))
          /\ Len(Append(ss(n), of(n + 1))) = n + 1
          /\ \A i \in 1..n : Append(ss(n), of(n + 1))[i] = ss(n)[i]
          /\ Append(ss(n), of(n + 1))[n + 1] = of(n + 1)
      BY <2>1, <2>2, <3>1, AppendProperties
    <3> DEFINE a == Append(ss(n), of(n + 1))
    <3>5. DOMAIN a = 1..(n + 1) /\ a = [i \in DOMAIN a |-> a[i]]
      BY <3>4, LenProperties
    <3>6. \A i \in 1..(n + 1) : a[i] = of(i)
      BY <3>1, <3>4
    <3> HIDE DEF a
    <3>7. a = [i \in 1..(n + 1) |-> of(i)]
      BY <3>5, <3>6
    <3> QED BY <3>3, <3>7 DEF a
  <2>4. FlattenSeq(ss(n + 1)) = FlattenSeq(ss(n)) \o of(n + 1) /\ ss(n + 1) \in Seq(Seq(ChunkSet))
    <3> HIDE DEF ss, of, N
    <3>1. Append(ss(n), of(n + 1)) \in Seq(Seq(ChunkSet))
      BY <2>1, <2>2, AppendProperties
    <3> QED BY <2>1, <2>2, <2>3, <3>1, FlattenAppend
  <2> HIDE DEF ss, of, N
  <2> QED BY <2>2, <2>4
<1>3. Nat \subseteq N
  <2> HIDE DEF N
  <2> QED BY <1>1, <1>2, SetInduction
<1>4. CallsUpTo(r, Len(r.calls), FlattenSeq(ss(Len(r.calls))))
  BY <1>0, <1>3
<1>5. CallChunks(r) = FlattenSeq(ss(Len(r.calls)))
  BY Zenon DEF CallChunks
<1> QED BY <1>4, <1>5

-----------------------------------------------------------------------------
\* All that a vendor's server sends of the reply when nothing is lost.
WholeWire(end) == TextChunks(reply) \o CallChunks(reply) \o end

NumCalls == Len(CallChunks(reply))

\* The reply ends with its reason, its usage or an error, whatever comes after that.
IsEnding(end) ==
  /\ end \in Seq(ChunkSet) /\ Len(end) >= 1
  /\ \A i \in DOMAIN end : end[i].kind \notin {"text", "call"}
  /\ end[1].kind \in {"finish", "finish+usage", "error"}
  /\ \A i \in DOMAIN end : i > 1 => end[i].kind \in {"usage", "[DONE]"}
  /\ joint => end[1].kind = "finish+usage"
  /\ end[1].kind = "finish+usage" => joint \/ vendor = "ollama"
  /\ end[1].kind = "error" => vendor = "anthropic"

LEMMA EndingsEnd ==
  ASSUME NEW end \in Endings(vendor, joint), vendor \in Vendors, joint => vendor = "openaicompat"
  PROVE  IsEnding(end)
<1>1. \A k \in {"finish", "finish+usage", "usage", "[DONE]", "error"} :
        Plain(k) \in ChunkSet /\ Plain(k).kind = k
  BY DEF Plain, Chunk, ChunkSet
<1>2. \/ end = <<Plain("finish+usage"), Plain("[DONE]")>> /\ joint
      \/ end = <<Plain("finish"), Plain("[DONE]")>> /\ ~joint /\ vendor = "anthropic"
      \/ end = <<Plain("error")>> /\ ~joint /\ vendor = "anthropic"
      \/ end = <<Plain("finish+usage")>> /\ ~joint /\ vendor = "ollama"
      \/ end = <<Plain("finish"), Plain("usage")>> /\ ~joint
      \/ end = <<Plain("finish"), Plain("usage"), Plain("[DONE]")>> /\ ~joint
  BY DEF Endings
<1>3. ASSUME end = <<Plain("finish+usage"), Plain("[DONE]")>>, joint PROVE IsEnding(end)
  BY <1>1, <1>3 DEF IsEnding
<1>4. ASSUME end = <<Plain("finish"), Plain("[DONE]")>>, ~joint PROVE IsEnding(end)
  BY <1>1, <1>4 DEF IsEnding
<1>5. ASSUME end = <<Plain("error")>>, ~joint, vendor = "anthropic" PROVE IsEnding(end)
  BY <1>1, <1>5 DEF IsEnding
<1>6. ASSUME end = <<Plain("finish+usage")>>, ~joint, vendor = "ollama" PROVE IsEnding(end)
  BY <1>1, <1>6 DEF IsEnding
<1>7. ASSUME end = <<Plain("finish"), Plain("usage")>>, ~joint PROVE IsEnding(end)
  BY <1>1, <1>7 DEF IsEnding
<1>8. ASSUME end = <<Plain("finish"), Plain("usage"), Plain("[DONE]")>>, ~joint PROVE IsEnding(end)
  BY <1>1, <1>8 DEF IsEnding
<1> QED BY <1>2, <1>3, <1>4, <1>5, <1>6, <1>7, <1>8

LEMMA FullIs ==
  ASSUME reply \in ReplySet, NEW end, IsEnding(end)
  PROVE  /\ WholeWire(end) \in Seq(ChunkSet) /\ NumCalls \in Nat /\ reply.text \in Nat
              /\ Len(end) \in Nat
         /\ Len(WholeWire(end)) = reply.text + NumCalls + Len(end)
         /\ \A i \in 1..reply.text : WholeWire(end)[i] = Chunk("text", 0, i)
         /\ \A i \in 1..NumCalls : WholeWire(end)[reply.text + i] = CallChunks(reply)[i]
         /\ \A i \in 1..Len(end) : WholeWire(end)[reply.text + NumCalls + i] = end[i]
<1> DEFINE a == TextChunks(reply)
           b == CallChunks(reply)
<1>0. reply.text \in Nat
  BY DEF ReplySet
<1>1. a \in Seq(ChunkSet) /\ Len(a) = reply.text
        /\ \A i \in 1..reply.text : a[i] = Chunk("text", 0, i)
  <2>1. \A i \in 1..reply.text : Chunk("text", 0, i) \in ChunkSet
    BY <1>0 DEF Chunk, ChunkSet
  <2>2. a = [i \in 1..reply.text |-> Chunk("text", 0, i)]
    BY DEF TextChunks
  <2> HIDE DEF a
  <2>3. a \in Seq(ChunkSet) /\ DOMAIN a = 1..reply.text
    BY <1>0, <2>1, <2>2
  <2> QED BY <1>0, <2>2, <2>3, LenProperties
<1>2. b \in Seq(ChunkSet) /\ Len(b) = NumCalls
  BY CallsInOrder DEF CallsUpTo, NumCalls
<1>3. end \in Seq(ChunkSet)
  BY DEF IsEnding
<1>4. WholeWire(end) = (a \o b) \o end
  BY DEF WholeWire
<1> HIDE DEF a, b
<1>5. a \o b \in Seq(ChunkSet) /\ Len(a \o b) = reply.text + NumCalls /\ NumCalls \in Nat
      /\ \A i \in 1..(reply.text + NumCalls) : (a \o b)[i] = IF i <= reply.text
           THEN a[i] ELSE b[i - reply.text]
  <2>1. /\ a \o b \in Seq(ChunkSet) /\ Len(a \o b) = Len(a) + Len(b)
        /\ \A i \in 1..(Len(a) + Len(b)) : (a \o b)[i] = IF i <= Len(a) THEN a[i] ELSE b[i - Len(a)]
    BY <1>1, <1>2, ConcatProperties
  <2>2. NumCalls \in Nat
    BY <1>2, LenProperties
  <2> QED BY <1>1, <1>2, <2>1, <2>2
<1>6. WholeWire(end) \in Seq(ChunkSet) /\ Len(WholeWire(end)) = reply.text + NumCalls + Len(end)
      /\ \A i \in 1..(reply.text + NumCalls + Len(end)) :
           WholeWire(end)[i] = IF i <= reply.text + NumCalls
             THEN (a \o b)[i] ELSE end[i - (reply.text + NumCalls)]
  BY <1>3, <1>4, <1>5, ConcatProperties
<1>7. Len(end) \in Nat
  BY <1>3, LenProperties
<1>11. NumCalls \in Nat
  BY <1>5
<1>8. ASSUME NEW i \in 1..reply.text PROVE WholeWire(end)[i] = Chunk("text", 0, i)
  <2>1. i \in 1..(reply.text + NumCalls + Len(end)) /\ i <= reply.text + NumCalls
        /\ i \in 1..(reply.text + NumCalls) /\ i <= reply.text
    BY <1>0, <1>5, <1>7
  <2> QED BY <1>1, <1>5, <1>6, <2>1
<1>9. ASSUME NEW i \in 1..NumCalls PROVE WholeWire(end)[reply.text + i] = b[i]
  <2>1. /\ reply.text + i \in 1..(reply.text + NumCalls + Len(end))
             /\ reply.text + i <= reply.text + NumCalls
        /\ reply.text + i \in 1..(reply.text + NumCalls) /\ ~ (reply.text + i <= reply.text)
        /\ reply.text + i - reply.text = i
    BY <1>0, <1>11, <1>7
  <2>2. PICK k : k = reply.text + i
    OBVIOUS
  <2>3. WholeWire(end)[k] = (a \o b)[k]
    BY <1>6, <2>1, <2>2
  <2>4. (a \o b)[k] = b[k - reply.text]
    BY <1>5, <2>1, <2>2
  <2>5. k - reply.text = i
    BY <1>0, <2>1, <2>2
  <2> QED BY <2>2, <2>3, <2>4, <2>5
<1>10. ASSUME NEW i \in 1..Len(end) PROVE WholeWire(end)[reply.text + NumCalls + i] = end[i]
  <2>1. /\ reply.text + NumCalls + i \in 1..(reply.text + NumCalls + Len(end))
        /\ ~ (reply.text + NumCalls + i <= reply.text + NumCalls)
        /\ reply.text + NumCalls + i - (reply.text + NumCalls) = i
    BY <1>0, <1>11, <1>7
  <2>2. PICK k : k = reply.text + NumCalls + i
    OBVIOUS
  <2>3. WholeWire(end)[k] = end[k - (reply.text + NumCalls)]
    BY <1>6, <2>1, <2>2
  <2>4. k - (reply.text + NumCalls) = i
    BY <1>0, <1>11, <2>1, <2>2
  <2> QED BY <2>2, <2>3, <2>4
<1> QED BY <1>0, <1>11, <1>6, <1>7, <1>8, <1>9, <1>10 DEF b

-----------------------------------------------------------------------------
EventSet ==
  {Event("text", n) : n \in Nat} \union {ToolUse(c, a) : c \in Nat, a \in {"whole", "nil"}}
    \union {Done(why) : why \in {"stop", "tool_calls", "end_turn", "none"}} \union {StreamError}

StreamTypes ==
  /\ StreamTypeOK
  /\ reply \in ReplySet /\ (reader # "idle" => vendor \in Vendors /\ consumer # "complete")
  /\ reader # "idle" => connection # "none" /\ (connection = "refused" => vendor = "ollama")
  /\ joint => vendor = "openaicompat"
  /\ vendor \in WithoutTools => reply.calls = <<>>
  /\ wire \in Seq(ChunkSet) /\ stream \in Seq(EventSet) /\ sending \in Seq(EventSet)
  /\ partial \in [DOMAIN reply.calls -> Seq(Nat \X Nat)]
  /\ toolCalls \in Seq(Nat \X {"whole", "nil"})

\* What has been put together, whatever becomes of the reply.
TextSoFar == Len(text) <= reply.text /\ text = [i \in 1..Len(text) |-> i]

CallsSoFar ==
  \A i, j \in DOMAIN toolCalls :
    toolCalls[i][2] = "whole" => /\ toolCalls[i][1] \in Kept(vendor, reply)
                                 /\ toolCalls[i] = toolCalls[j] => i = j

Lost ==
  \/ connection = "cut" \/ (connection = "broken" /\ vendor # "openai")
  \/ connection = "failed" /\ vendor # "anthropic"
  \/ connection = "refused" /\ vendor = "ollama"

ReplyIsWhole ==
  /\ Len(text) = reply.text
  /\ \A c \in Kept(vendor, reply) : <<c, "whole">> \in ToSet(toolCalls)
  /\ finish = "stop" => toolCalls = <<>>

\* p chunks have been read, and the rest is on the wire if it is not lost.
WireAt(end, p) ==
  /\ p \in 0..Len(WholeWire(end))
  /\ wire = <<>> \/ Len(wire) = Len(WholeWire(end)) - p
  /\ connection = "open" => Len(wire) = Len(WholeWire(end)) - p
  /\ \A i \in DOMAIN wire : wire[i] = WholeWire(end)[p + i]

CallRead(p, c, n) ==
  \E i \in 1..NumCalls : reply.text + i <= p /\ CallChunks(reply)[i] = Chunk("call", c, n)

\* The fragments put together by then.
OwnFragments(p, c) ==
  /\ partial[c] = [n \in 1..Len(partial[c]) |-> <<c, n>>] /\ Len(partial[c]) <= reply.calls[c]
  /\ \A n \in 1..reply.calls[c] : CallRead(p, c, n) <=> n <= Len(partial[c])

StrangeFragments(p, c) ==
  /\ CallRead(p, c, 1) => partial[c] # <<>>
  /\ \A d \in DOMAIN partial : c < d =>
       \A n \in 1..reply.calls[d] : CallRead(p, d, n) => <<d, n>> \in Range(partial[c])

PartialAt(p) ==
  /\ vendor = "openaicompat" => \A c \in DOMAIN partial : OwnFragments(p, c)
  /\ vendor = "bedrock" => \A c \in DOMAIN partial :
       /\ c = Len(reply.calls) => OwnFragments(p, c)
       /\ StrangeFragments(p, c)

\* The events that the consumer has not seen.
OnTheWay == stream \o sending

TextsDue(p) == (IF p < reply.text THEN p ELSE reply.text) - Len(text)

TextQueue(p) ==
  /\ TextsDue(p) \in 0..Len(OnTheWay)
  /\ \A i \in DOMAIN OnTheWay : IF i <= TextsDue(p) THEN OnTheWay[i] = Event("text", Len(text) + i)
                                ELSE OnTheWay[i].type # "text"
  /\ reader = "reading" /\ p < reply.text => TextsDue(p) = Len(OnTheWay)

\* The calls whose events have been made.
Emitted(p, c) ==
  /\ c \in Kept(vendor, reply)
  /\ IF vendor = "openai" THEN CallRead(p, c, 1) ELSE p > reply.text + NumCalls

Assembled(c) == <<c, "whole">> \in ToSet(toolCalls)

CallQueue(p) ==
  /\ \A i \in DOMAIN OnTheWay : \A c \in Nat : OnTheWay[i] = ToolUse(c, "whole") =>
       /\ Emitted(p, c) /\ ~Assembled(c)
       /\ \A j \in DOMAIN OnTheWay : OnTheWay[j] = ToolUse(c, "whole") => i = j
  /\ \A c \in Nat : Assembled(c) => Emitted(p, c)
  /\ \A c \in Nat : Emitted(p, c) =>
       Assembled(c) \/ \E i \in DOMAIN OnTheWay : OnTheWay[i] = ToolUse(c, "whole")

EndQueue(end, p) ==
  /\ finish = "stop" => reply.calls = <<>>
  /\ toolCalls # <<>> => reply.calls # <<>>
  /\ \A i \in DOMAIN OnTheWay : /\ OnTheWay[i] = Done("stop") => reply.calls = <<>>
                                /\ OnTheWay[i].type = "tool_use" => reply.calls # <<>>
  /\ reader = "closed" => sending = <<>>
  /\ reader = "reading" /\ p > reply.text + NumCalls => end[1].kind # "error"
  /\ reader # "reading" =>
       \/ (\E i \in DOMAIN OnTheWay : OnTheWay[i].type = "error") \/ Lost
       \/ p > reply.text + NumCalls /\ end[1].kind # "error"

ReadUpTo(end, p) == IsEnding(end) /\ WireAt(end, p) /\ PartialAt(p)

QueueUpTo(end, p) == TextQueue(p) /\ CallQueue(p) /\ EndQueue(end, p)

\* The reader has read some number of chunks, and a consumer that is still reading
\* will get all their events.
ReaderInv == \E end, p : ReadUpTo(end, p) /\ (outcome = "reading" => QueueUpTo(end, p))

StreamInv ==
  /\ StreamTypes /\ TextSoFar /\ CallsSoFar
  /\ reader = "idle" => wire = <<>> /\ sending = <<>> /\ stream = <<>> /\ outcome # "draining"
  /\ reader = "idle" /\ outcome = "reading" => text = <<>> /\ toolCalls = <<>> /\ finish = "none"
  /\ reader # "idle" => ReaderInv
  /\ outcome = "reply" => Lost \/ ReplyIsWhole

-----------------------------------------------------------------------------
\* A chunk by its place.
LEMMA ChunkAt ==
  ASSUME reply \in ReplySet, NEW end, IsEnding(end), NEW p \in Nat, p < Len(WholeWire(end))
  PROVE  LET chunk == WholeWire(end)[p + 1] IN
         /\ chunk \in ChunkSet
         /\ p < reply.text => chunk = Chunk("text", 0, p + 1)
         /\ p >= reply.text /\ p < reply.text + NumCalls =>
              /\ p + 1 - reply.text \in 1..NumCalls /\ chunk = CallChunks(reply)[p + 1 - reply.text]
              /\ chunk = Chunk("call", chunk.call, chunk.nth)
              /\ chunk.call \in DOMAIN reply.calls /\ chunk.nth \in 1..reply.calls[chunk.call]
         /\ p >= reply.text + NumCalls =>
              /\ chunk.kind \notin {"text", "call"}
              /\ p = reply.text + NumCalls => chunk.kind = end[1].kind
              /\ p > reply.text + NumCalls => chunk.kind \in {"usage", "[DONE]"}
<1>1. /\ WholeWire(end) \in Seq(ChunkSet) /\ NumCalls \in Nat /\ reply.text \in Nat
           /\ Len(end) \in Nat
      /\ Len(WholeWire(end)) = reply.text + NumCalls + Len(end)
      /\ \A i \in 1..reply.text : WholeWire(end)[i] = Chunk("text", 0, i)
      /\ \A i \in 1..NumCalls : WholeWire(end)[reply.text + i] = CallChunks(reply)[i]
      /\ \A i \in 1..Len(end) : WholeWire(end)[reply.text + NumCalls + i] = end[i]
  BY FullIs
<1>2. NumCalls \in Nat /\ reply.text \in Nat /\ Len(end) \in Nat
        /\ p < reply.text + NumCalls + Len(end)
  BY <1>1
<1> DEFINE chunk == WholeWire(end)[p + 1]
<1>3. chunk \in ChunkSet
  <2>1. p + 1 \in 1..Len(WholeWire(end))
    BY <1>1, <1>2
  <2> QED BY <1>1, <2>1, ElementOfSeq
<1>4. ASSUME p < reply.text PROVE chunk = Chunk("text", 0, p + 1)
  <2>1. p + 1 \in 1..reply.text
    BY <1>2, <1>4
  <2> QED BY <1>1, <2>1
<1>5. ASSUME p >= reply.text, p < reply.text + NumCalls
      PROVE  /\ p + 1 - reply.text \in 1..NumCalls /\ chunk = CallChunks(reply)[p + 1 - reply.text]
             /\ chunk = Chunk("call", chunk.call, chunk.nth)
             /\ chunk.call \in DOMAIN reply.calls /\ chunk.nth \in 1..reply.calls[chunk.call]
  <2>1. PICK i \in 1..NumCalls : reply.text + i = p + 1 /\ p + 1 - reply.text = i
    <3>1. p + 1 - reply.text \in 1..NumCalls /\ reply.text + (p + 1 - reply.text) = p + 1
      BY <1>2, <1>5
    <3> QED BY <3>1
  <2>2. chunk = CallChunks(reply)[i]
    BY <1>1, <2>1
  <2>3. CallsUpTo(reply, Len(reply.calls), CallChunks(reply))
          /\ DOMAIN reply.calls = 1..Len(reply.calls)
    BY CallsInOrder, LenProperties DEF ReplySet
  <2>4. DOMAIN CallChunks(reply) = 1..NumCalls
    BY <2>3, LenProperties DEF CallsUpTo, NumCalls
  <2> HIDE DEF chunk
  <2> QED BY <2>1, <2>2, <2>3, <2>4 DEF CallsUpTo
<1>6. ASSUME p >= reply.text + NumCalls
      PROVE  /\ chunk.kind \notin {"text", "call"}
             /\ p = reply.text + NumCalls => chunk.kind = end[1].kind
             /\ p > reply.text + NumCalls => chunk.kind \in {"usage", "[DONE]"}
  <2>1. PICK i \in 1..Len(end) : reply.text + NumCalls + i = p + 1
    <3>1. p + 1 - (reply.text + NumCalls) \in 1..Len(end)
          /\ reply.text + NumCalls + (p + 1 - (reply.text + NumCalls)) = p + 1
      BY <1>2, <1>6
    <3> QED BY <3>1
  <2>2. chunk = end[i]
    BY <1>1, <2>1
  <2>3. (p = reply.text + NumCalls => i = 1) /\ (p > reply.text + NumCalls => i > 1)
    BY <1>2, <2>1
  <2>4. i \in DOMAIN end
    BY <2>1, LenProperties DEF IsEnding
  <2> HIDE DEF chunk
  <2> QED BY <2>2, <2>3, <2>4 DEF IsEnding
<1> HIDE DEF chunk
<1> QED BY <1>3, <1>4, <1>5, <1>6 DEF chunk

\* What has been read of the calls grows fragment by fragment.
LEMMA CallsReadAt ==
  ASSUME reply \in ReplySet, NEW p \in Nat
  PROVE  /\ \A c, n : CallRead(p, c, n) =>
              /\ CallRead(p + 1, c, n) /\ c \in DOMAIN reply.calls /\ n \in 1..reply.calls[c]
              /\ p > reply.text
         /\ p < reply.text \/ p >= reply.text + NumCalls =>
              \A c, n : CallRead(p + 1, c, n) => CallRead(p, c, n)
         /\ p >= reply.text + NumCalls =>
              \A c \in DOMAIN reply.calls : \A n \in 1..reply.calls[c] : CallRead(p, c, n)
<1>1. CallsUpTo(reply, Len(reply.calls), CallChunks(reply))
        /\ DOMAIN reply.calls = 1..Len(reply.calls)
  BY CallsInOrder, LenProperties DEF ReplySet
<1>2. DOMAIN CallChunks(reply) = 1..NumCalls /\ NumCalls \in Nat
  BY <1>1, LenProperties DEF CallsUpTo, NumCalls
<1>3. reply.text \in Nat
  BY DEF ReplySet
<1>4. ASSUME NEW c, NEW n, CallRead(p, c, n)
      PROVE  /\ CallRead(p + 1, c, n) /\ c \in DOMAIN reply.calls /\ n \in 1..reply.calls[c]
             /\ p > reply.text
  <2>1. PICK i \in 1..NumCalls : reply.text + i <= p /\ CallChunks(reply)[i] = Chunk("call", c, n)
    BY <1>4 DEF CallRead
  <2>2. reply.text + i <= p + 1 /\ p > reply.text
    BY <1>2, <1>3, <2>1
  <2>3. CallChunks(reply)[i].call = c /\ CallChunks(reply)[i].nth = n
    BY <2>1 DEF Chunk
  <2>4. c \in 1..Len(reply.calls) /\ n \in 1..reply.calls[c]
    BY <1>1, <1>2, <2>3 DEF CallsUpTo
  <2> QED BY <1>1, <2>1, <2>2, <2>4 DEF CallRead
<1>5. ASSUME p < reply.text \/ p >= reply.text + NumCalls, NEW c, NEW n, CallRead(p + 1, c, n)
      PROVE  CallRead(p, c, n)
  <2>1. PICK i \in 1..NumCalls : reply.text + i <= p + 1
          /\ CallChunks(reply)[i] = Chunk("call", c, n)
    BY <1>5 DEF CallRead
  <2>2. reply.text + i <= p
    BY <1>2, <1>3, <1>5, <2>1
  <2> QED BY <2>1, <2>2 DEF CallRead
<1>6. ASSUME p >= reply.text + NumCalls, NEW c \in DOMAIN reply.calls, NEW n \in 1..reply.calls[c]
      PROVE  CallRead(p, c, n)
  <2>1. PICK i \in 1..NumCalls : CallChunks(reply)[i] = Chunk("call", c, n)
    BY <1>1, <1>2 DEF CallsUpTo
  <2>2. reply.text + i <= p
    BY <1>2, <1>3, <1>6
  <2> QED BY <2>1, <2>2 DEF CallRead
<1> QED BY <1>4, <1>5, <1>6

\* The next fragment is n of call c: those before it are read, and it is not.
ComesNext(p, c, n) ==
  /\ \A d, k : CallRead(p + 1, d, k) <=> CallRead(p, d, k) \/ (d = c /\ k = n)
  /\ \A d \in DOMAIN reply.calls : \A k \in 1..reply.calls[d] :
       CallRead(p, d, k) <=> d < c \/ (d = c /\ k < n)

LEMMA CallReadNext ==
  ASSUME reply \in ReplySet, NEW p \in Nat, p >= reply.text, p < reply.text + NumCalls,
         NEW c \in DOMAIN reply.calls, NEW n \in 1..reply.calls[c],
         CallChunks(reply)[p + 1 - reply.text] = Chunk("call", c, n)
  PROVE  ComesNext(p, c, n)
<1>1. CallsUpTo(reply, Len(reply.calls), CallChunks(reply))
        /\ DOMAIN reply.calls = 1..Len(reply.calls)
      /\ Len(reply.calls) \in Nat
  BY CallsInOrder, LenProperties DEF ReplySet
<1>2. DOMAIN CallChunks(reply) = 1..NumCalls /\ NumCalls \in Nat
  BY <1>1, LenProperties DEF CallsUpTo, NumCalls
<1>3. reply.text \in Nat
  BY DEF ReplySet
<1>4. PICK h \in 1..NumCalls : reply.text + h = p + 1 /\ h = p + 1 - reply.text
  <2>1. p + 1 - reply.text \in 1..NumCalls /\ reply.text + (p + 1 - reply.text) = p + 1
    BY <1>2, <1>3
  <2> QED BY <2>1
<1>5. CallChunks(reply)[h] = Chunk("call", c, n)
  BY <1>4
<1>6. \A d, k, e, l : Chunk("call", d, k) = Chunk("call", e, l) => d = e /\ k = l
  BY DEF Chunk
<1>7. \A i \in 1..NumCalls : (reply.text + i <= p <=> i < h) /\ (reply.text + i <= p + 1 <=> i <= h)
  BY <1>2, <1>3, <1>4
<1>8. ASSUME NEW d, NEW k PROVE CallRead(p + 1, d, k) <=> CallRead(p, d, k) \/ (d = c /\ k = n)
  <2>1. ASSUME CallRead(p + 1, d, k) PROVE CallRead(p, d, k) \/ (d = c /\ k = n)
    <3>1. PICK i \in 1..NumCalls : reply.text + i <= p + 1
            /\ CallChunks(reply)[i] = Chunk("call", d, k)
      BY <2>1 DEF CallRead
    <3>2. CASE i = h
      BY <1>5, <1>6, <3>1, <3>2
    <3>3. CASE i # h
      <4>1. i < h
        BY <1>7, <3>1, <3>3
      <4> QED BY <1>7, <3>1, <4>1 DEF CallRead
    <3> QED BY <3>2, <3>3
  <2>2. ASSUME d = c, k = n PROVE CallRead(p + 1, d, k)
    <3>1. reply.text + h <= p + 1
      BY <1>7
    <3> QED BY <1>5, <2>2, <3>1 DEF CallRead
  <2>3. CallRead(p, d, k) => CallRead(p + 1, d, k)
    BY CallsReadAt
  <2> QED BY <2>1, <2>2, <2>3
<1>10. \A i, j \in 1..NumCalls : i < j => Earlier(CallChunks(reply)[i], CallChunks(reply)[j])
  BY <1>1, <1>2, Zenon DEF CallsUpTo
<1>9. ASSUME NEW d \in DOMAIN reply.calls, NEW k \in 1..reply.calls[d]
      PROVE  CallRead(p, d, k) <=> d < c \/ (d = c /\ k < n)
  <2>1. Earlier(Chunk("call", d, k), Chunk("call", c, n)) <=> d < c \/ (d = c /\ k < n)
    BY DEF Earlier, Chunk
  <2>2. Earlier(Chunk("call", c, n), Chunk("call", d, k)) <=> c < d \/ (c = d /\ n < k)
    BY DEF Earlier, Chunk
  <2>3. PICK j \in 1..NumCalls : CallChunks(reply)[j] = Chunk("call", d, k)
    BY <1>1, <1>2 DEF CallsUpTo
  <2>4. j < h => Earlier(Chunk("call", d, k), Chunk("call", c, n))
    BY <1>5, <1>10, <2>3
  <2>5. h < j => Earlier(Chunk("call", c, n), Chunk("call", d, k))
    BY <1>5, <1>10, <2>3
  <2>6. h = j => d = c /\ k = n
    BY <1>5, <1>6, <2>3
  <2>7. c \in Nat /\ d \in Nat /\ n \in Int /\ k \in Int
    BY <1>1
  <2>8. j < h => CallRead(p, d, k)
    BY <1>7, <2>3 DEF CallRead
  <2>9. ASSUME CallRead(p, d, k) PROVE d < c \/ (d = c /\ k < n)
    <3>1. PICK i \in 1..NumCalls : reply.text + i <= p /\ CallChunks(reply)[i] = Chunk("call", d, k)
      BY <2>9 DEF CallRead
    <3>2. i < h
      BY <1>7, <3>1
    <3>3. Earlier(Chunk("call", d, k), Chunk("call", c, n))
      BY <1>5, <1>10, <3>1, <3>2
    <3> QED BY <2>1, <3>3
  <2>10. ASSUME d < c \/ (d = c /\ k < n) PROVE CallRead(p, d, k)
    <3>1. ~ (h < j) /\ ~ (h = j)
      BY <2>2, <2>5, <2>6, <2>7, <2>10
    <3>2. j < h
      BY <1>2, <3>1
    <3> QED BY <2>8, <3>2
  <2> QED BY <2>9, <2>10
<1> QED BY <1>8, <1>9 DEF ComesNext

LEMMA Unasked ==
  ASSUME UNCHANGED request
  PROVE  /\ UNCHANGED <<vendor, reply, joint, consumer>> /\ NumCalls' = NumCalls
         /\ \A end : WholeWire(end)' = WholeWire(end) /\ (IsEnding(end)' <=> IsEnding(end))
         /\ \A p, c, n : CallRead(p, c, n)' <=> CallRead(p, c, n)
         /\ Kept(vendor, reply)' = Kept(vendor, reply)
         /\ \A p, c : Emitted(p, c)' <=> Emitted(p, c)
<1>1. UNCHANGED <<vendor, reply, joint, consumer>>
  BY DEF request
<1>2. NumCalls' = NumCalls
  BY <1>1 DEF NumCalls
<1>3. \A end : WholeWire(end)' = WholeWire(end)
  BY <1>1 DEF WholeWire
<1>4. \A end : IsEnding(end)' <=> IsEnding(end)
  BY <1>1 DEF IsEnding
<1>5. \A p, c, n : CallRead(p, c, n)' <=> CallRead(p, c, n)
  BY <1>1, <1>2 DEF CallRead
<1>6. Kept(vendor, reply)' = Kept(vendor, reply)
  BY <1>1 DEF Kept
<1>7. \A p, c : Emitted(p, c)' <=> Emitted(p, c)
  BY <1>1, <1>2, <1>5, <1>6 DEF Emitted
<1> QED BY <1>1, <1>2, <1>3, <1>4, <1>5, <1>6, <1>7

LEMMA Longer ==
  ASSUME NEW S, NEW s \in Seq(S), NEW x \in S
  PROVE  /\ Append(s, x) \in Seq(S) /\ Append(s, x) # <<>> /\ Len(s) \in Nat
         /\ Len(Append(s, x)) = Len(s) + 1
         /\ DOMAIN Append(s, x) = 1..(Len(s) + 1) /\ DOMAIN s = 1..Len(s)
         /\ \A i \in 1..Len(s) : Append(s, x)[i] = s[i]
         /\ Append(s, x)[Len(s) + 1] = x
         /\ Range(s) \subseteq Range(Append(s, x)) /\ x \in Range(Append(s, x))
<1> DEFINE t == Append(s, x)
<1>1. t \in Seq(S) /\ Len(s) \in Nat /\ Len(t) = Len(s) + 1 /\ DOMAIN t = 1..(Len(s) + 1)
      /\ DOMAIN s = 1..Len(s) /\ (\A i \in 1..Len(s) : t[i] = s[i]) /\ t[Len(s) + 1] = x
  BY AppendProperties, LenProperties
<1> HIDE DEF t
<1>2. t # <<>>
  BY <1>1, EmptySeq
<1>3. Range(s) \subseteq Range(t) /\ x \in Range(t)
  BY <1>1 DEF Range
<1> QED BY <1>1, <1>2, <1>3 DEF t

LEMMA PartialGrows ==
  ASSUME StreamTypes, UNCHANGED request, NEW p \in Nat, NEW end, IsEnding(end), PartialAt(p),
         p < Len(WholeWire(end)),
         partial' = IF WholeWire(end)[p + 1].kind = "call" /\ vendor \in {"openaicompat", "bedrock"}
                    THEN Accumulate(vendor, partial, WholeWire(end)[p + 1]) ELSE partial
  PROVE  PartialAt(p + 1)' /\ partial' \in [DOMAIN reply.calls -> Seq(Nat \X Nat)]
<1> DEFINE chunk == WholeWire(end)[p + 1]
           c0 == chunk.call
           n0 == chunk.nth
<1>0. /\ reply \in ReplySet /\ partial \in [DOMAIN reply.calls -> Seq(Nat \X Nat)]
      /\ DOMAIN reply.calls = 1..Len(reply.calls) /\ Len(reply.calls) \in Nat
      /\ \A c \in DOMAIN reply.calls : reply.calls[c] \in Nat \ {0}
      /\ NumCalls \in Nat /\ reply.text \in Nat /\ chunk \in ChunkSet
  <2>1. reply \in ReplySet /\ partial \in [DOMAIN reply.calls -> Seq(Nat \X Nat)]
    BY DEF StreamTypes
  <2>2. reply.calls \in Seq(Nat \ {0})
    BY <2>1 DEF ReplySet
  <2>3. DOMAIN reply.calls = 1..Len(reply.calls) /\ Len(reply.calls) \in Nat
        /\ \A c \in DOMAIN reply.calls : reply.calls[c] \in Nat \ {0}
    BY <2>2, LenProperties, ElementOfSeq
  <2>4. NumCalls \in Nat /\ reply.text \in Nat
    BY <2>1, FullIs
  <2>5. chunk \in ChunkSet
    BY <2>1, ChunkAt
  <2> QED BY <2>1, <2>3, <2>4, <2>5
<1>1. CASE chunk.kind # "call" \/ vendor \notin {"openaicompat", "bedrock"}
  <2>1. partial' = partial
    BY <1>1
  <2>2. vendor \in {"openaicompat", "bedrock"} =>
          \A c, n : CallRead(p + 1, c, n)' <=> CallRead(p, c, n)
    <3> SUFFICES ASSUME chunk.kind # "call", NEW c, NEW n
                 PROVE  CallRead(p + 1, c, n)' <=> CallRead(p, c, n)
      BY <1>1
    <3>1. CallRead(p + 1, c, n)' <=> CallRead(p + 1, c, n)
      BY Unasked
    <3>2. p < reply.text \/ p >= reply.text + NumCalls
      <4> SUFFICES ASSUME ~ (p < reply.text), ~ (p >= reply.text + NumCalls) PROVE FALSE
        OBVIOUS
      <4>1. p >= reply.text /\ p < reply.text + NumCalls
        BY <1>0
      <4>2. chunk = Chunk("call", chunk.call, chunk.nth)
        BY <1>0, <4>1, ChunkAt
      <4> HIDE DEF chunk
      <4> QED BY <4>2 DEF Chunk
    <3> QED BY <1>0, <3>1, <3>2, CallsReadAt
  <2>3. vendor' = vendor /\ reply' = reply
    BY Unasked
  <2> QED BY <1>0, <2>1, <2>2, <2>3 DEF PartialAt, OwnFragments, StrangeFragments
<1>2. CASE chunk.kind = "call" /\ vendor \in {"openaicompat", "bedrock"}
  <2>1. p >= reply.text /\ p < reply.text + NumCalls
    <3>1. CASE p < reply.text
      <4>1. chunk = Chunk("text", 0, p + 1)
        BY <1>0, <3>1, ChunkAt
      <4> HIDE DEF chunk
      <4> QED BY <1>2, <4>1 DEF Chunk
    <3>2. CASE p >= reply.text + NumCalls
      BY <1>0, <1>2, <3>2, ChunkAt
    <3> QED BY <1>0, <3>1, <3>2
  <2>2. /\ c0 \in DOMAIN reply.calls /\ n0 \in 1..reply.calls[c0]
        /\ CallChunks(reply)[p + 1 - reply.text] = Chunk("call", c0, n0)
    BY <1>0, <2>1, ChunkAt
  <2>3. /\ \A d, k : CallRead(p + 1, d, k)' <=> CallRead(p, d, k) \/ (d = c0 /\ k = n0)
        /\ \A d \in DOMAIN reply.calls : \A k \in 1..reply.calls[d] :
             CallRead(p, d, k) <=> d < c0 \/ (d = c0 /\ k < n0)
    <3> HIDE DEF c0, n0, chunk
    <3>1. /\ \A d, k : CallRead(p + 1, d, k) <=> CallRead(p, d, k) \/ (d = c0 /\ k = n0)
          /\ \A d \in DOMAIN reply.calls : \A k \in 1..reply.calls[d] :
               CallRead(p, d, k) <=> d < c0 \/ (d = c0 /\ k < n0)
      <4>1. ComesNext(p, c0, n0)
        BY <1>0, <2>1, <2>2, CallReadNext
      <4> QED BY ONLY <4>1 DEF ComesNext
    <3>2. \A d, k : CallRead(p + 1, d, k)' <=> CallRead(p + 1, d, k)
      BY Unasked
    <3> QED BY ONLY <3>1, <3>2
  <2>4. c0 \in Nat /\ n0 \in Nat /\ <<c0, n0>> \in Nat \X Nat
    BY <1>0 DEF ChunkSet
  <2> DEFINE Grows(c) == c = c0 \/ (vendor = "bedrock" /\ c \in Started(partial) \union {c0})
  <2>5. /\ DOMAIN partial' = DOMAIN reply.calls
        /\ \A c \in DOMAIN reply.calls :
             partial'[c] = IF Grows(c) THEN Append(partial[c], <<c0, n0>>) ELSE partial[c]
    BY <1>0, <1>2 DEF Accumulate
  <2>6. vendor' = vendor /\ reply' = reply
    BY Unasked
  <2> HIDE DEF c0, n0, chunk, Grows
  <2>7. \A c \in DOMAIN reply.calls :
          /\ partial[c] \in Seq(Nat \X Nat) /\ partial'[c] \in Seq(Nat \X Nat)
          /\ Range(partial[c]) \subseteq Range(partial'[c])
          /\ partial[c] # <<>> => partial'[c] # <<>>
          /\ Grows(c) => partial'[c] # <<>> /\ <<c0, n0>> \in Range(partial'[c])
    <3>1. ASSUME NEW c \in DOMAIN reply.calls
          PROVE  /\ Append(partial[c], <<c0, n0>>) \in Seq(Nat \X Nat)
                      /\ partial[c] \in Seq(Nat \X Nat)
                 /\ Append(partial[c], <<c0, n0>>) # <<>>
                 /\ Range(partial[c]) \subseteq Range(Append(partial[c], <<c0, n0>>))
                 /\ <<c0, n0>> \in Range(Append(partial[c], <<c0, n0>>))
      <4>1. partial[c] \in Seq(Nat \X Nat)
        BY <1>0
      <4> DEFINE S == Nat \X Nat
                 s == partial[c]
                 x == <<c0, n0>>
      <4>2. s \in Seq(S) /\ x \in S
        BY <2>4, <4>1
      <4> HIDE DEF S, s, x
      <4>3. /\ Append(s, x) \in Seq(S) /\ Append(s, x) # <<>>
            /\ Range(s) \subseteq Range(Append(s, x)) /\ x \in Range(Append(s, x))
        BY <4>2, Longer
      <4> QED BY <4>2, <4>3 DEF S, s, x
    <3> QED BY <2>5, <3>1
  <2>8. partial' \in [DOMAIN reply.calls -> Seq(Nat \X Nat)]
    <3>1. partial' = [c \in DOMAIN reply.calls |-> partial'[c]]
      <4>1. Accumulate(vendor, partial, chunk)
              = [c \in DOMAIN partial |-> Accumulate(vendor, partial, chunk)[c]]
        BY Zenon DEF Accumulate
      <4>2. partial' = Accumulate(vendor, partial, chunk)
        BY <1>2 DEF chunk
      <4> QED BY <1>0, <4>1, <4>2
    <3> QED BY <2>7, <3>1
  <2>9. ASSUME NEW c \in DOMAIN reply.calls, OwnFragments(p, c),
               vendor = "openaicompat" \/ c = Len(reply.calls)
        PROVE  OwnFragments(p + 1, c)'
    <3> DEFINE s == partial[c]
    <3>1. s \in Seq(Nat \X Nat) /\ Len(s) \in Nat /\ DOMAIN s = 1..Len(s)
            /\ Len(s) <= reply.calls[c]
          /\ s = [n \in 1..Len(s) |-> <<c, n>>] /\ reply.calls[c] \in Nat \ {0}
          /\ \A n \in 1..reply.calls[c] : CallRead(p, c, n) <=> n <= Len(s)
      BY <1>0, <2>7, <2>9, LenProperties DEF OwnFragments
    <3> HIDE DEF s
    <3>2. CASE c = c0
      <4>1. \A k \in 1..reply.calls[c] : k <= Len(s) <=> k < n0
        <5>1. ASSUME NEW k \in 1..reply.calls[c] PROVE CallRead(p, c, k) <=> k < n0
          <6>1. CallRead(p, c, k) <=> c < c0 \/ (c = c0 /\ k < n0)
            BY <2>3
          <6>2. ~ (c < c0)
            BY <2>4, <3>2
          <6> QED BY <3>2, <6>1, <6>2
        <5> QED BY <3>1, <5>1
      <4>2. n0 \in 1..reply.calls[c] /\ n0 \in Nat
        BY <2>2, <2>4, <3>2
      <4>3. Len(s) = n0 - 1
        <5>1. ~ (n0 <= Len(s))
          BY <4>1, <4>2
        <5>2. n0 - 1 = 0 \/ n0 - 1 \in 1..reply.calls[c]
          BY <3>1, <4>2
        <5>3. n0 - 1 \in 1..reply.calls[c] => n0 - 1 <= Len(s)
          BY <4>1, <4>2
        <5> QED BY <3>1, <4>2, <5>1, <5>2, <5>3
      <4> DEFINE t == partial'[c]
      <4>4. t = Append(s, <<c, n0>>)
        BY <2>5, <3>2 DEF s, Grows
      <4>5. <<c, n0>> \in Nat \X Nat
        BY <2>4, <3>2
      <4>6. /\ Len(t) = n0 /\ DOMAIN t = 1..n0 /\ (\A i \in 1..(n0 - 1) : t[i] = s[i])
            /\ t[n0] = <<c, n0>> /\ t \in Seq(Nat \X Nat)
        <5>1. /\ Append(s, <<c, n0>>) \in Seq(Nat \X Nat) /\ Len(Append(s, <<c, n0>>)) = Len(s) + 1
              /\ DOMAIN Append(s, <<c, n0>>) = 1..(Len(s) + 1)
              /\ \A i \in 1..Len(s) : Append(s, <<c, n0>>)[i] = s[i]
              /\ Append(s, <<c, n0>>)[Len(s) + 1] = <<c, n0>>
          BY <3>1, <4>5, Longer
        <5>2. Len(s) + 1 = n0
          BY <3>1, <4>2, <4>3
        <5> HIDE DEF t
        <5> QED BY <4>3, <4>4, <5>1, <5>2
      <4>7. t = [n \in 1..Len(t) |-> <<c, n>>]
        <5>1. t = [n \in DOMAIN t |-> t[n]]
          <6> HIDE DEF t
          <6> QED BY <4>6
        <5>2. ASSUME NEW n \in 1..n0 PROVE t[n] = <<c, n>>
          <6>1. CASE n = n0
            BY <4>6, <6>1
          <6>2. CASE n # n0
            <7>1. n \in 1..(n0 - 1) /\ n \in 1..Len(s)
              BY <4>2, <4>3, <6>2
            <7> QED BY <3>1, <4>6, <7>1
          <6> QED BY <6>1, <6>2
        <5> HIDE DEF t
        <5> QED BY <4>6, <5>1, <5>2
      <4>8. \A n \in 1..reply.calls[c] : CallRead(p + 1, c, n)' <=> n <= Len(t)
        <5> HIDE DEF t
        <5> QED BY <1>0, <2>3, <3>2, <4>2, <4>6
      <4>9. Len(t) <= reply.calls[c]
        BY <4>2, <4>6
      <4> QED BY <2>6, <4>7, <4>8, <4>9 DEF OwnFragments
    <3>3. CASE c # c0
      <4>1. ~Grows(c)
        <5> SUFFICES ASSUME vendor = "bedrock", c \in Started(partial) PROVE FALSE
          BY <3>3 DEF Grows
        <5>1. c = Len(reply.calls)
          BY <2>9
        <5>2. s # <<>>
          BY DEF Started, s
        <5>3. Len(s) >= 1
          BY <3>1, <5>2, EmptySeq
        <5>4. CallRead(p, c, 1)
          <6>1. 1 \in 1..reply.calls[c] /\ 1 <= Len(s)
            BY <3>1, <5>3
          <6> QED BY <3>1, <6>1
        <5>5. c < c0
          <6>1. 1 \in 1..reply.calls[c]
            BY <3>1
          <6> QED BY <2>3, <3>3, <5>4, <6>1
        <5> QED BY <1>0, <2>2, <5>1, <5>5
      <4>2. partial'[c] = s
        BY <2>5, <4>1 DEF s
      <4>3. \A n \in 1..reply.calls[c] : CallRead(p + 1, c, n)' <=> n <= Len(s)
        BY <2>3, <3>1, <3>3
      <4> QED BY <2>6, <3>1, <4>2, <4>3 DEF OwnFragments
    <3> QED BY <3>2, <3>3
  <2>10. ASSUME NEW c \in DOMAIN reply.calls, StrangeFragments(p, c), vendor = "bedrock"
         PROVE  StrangeFragments(p + 1, c)'
    <3>1. CallRead(p + 1, c, 1)' => partial'[c] # <<>>
      <4>1. CASE CallRead(p, c, 1)
        BY <2>7, <2>10, <4>1 DEF StrangeFragments
      <4>2. CASE ~CallRead(p, c, 1) /\ CallRead(p + 1, c, 1)'
        <5>1. Grows(c)
          BY <2>3, <4>2 DEF Grows
        <5> QED BY <2>7, <5>1
      <4> QED BY <4>1, <4>2
    <3>2. ASSUME NEW d \in DOMAIN reply.calls, c < d, NEW n \in 1..reply.calls[d],
                 CallRead(p + 1, d, n)'
          PROVE  <<d, n>> \in Range(partial'[c])
      <4>1. CASE CallRead(p, d, n)
        BY <1>0, <2>7, <2>10, <3>2, <4>1 DEF StrangeFragments
      <4>2. CASE d = c0 /\ n = n0
        <5>1. CallRead(p, c, 1)
          <6>1. 1 \in 1..reply.calls[c]
            BY <1>0
          <6> QED BY <2>3, <3>2, <4>2, <6>1
        <5>2. c \in Started(partial)
          BY <1>0, <2>10, <5>1 DEF StrangeFragments, Started
        <5> QED BY <2>7, <2>10, <4>2, <5>2 DEF Grows
      <4> QED BY <2>3, <3>2, <4>1, <4>2
    <3>3. DOMAIN partial' = DOMAIN reply.calls
      BY <2>5
    <3> QED BY <2>6, <3>1, <3>2, <3>3 DEF StrangeFragments
  <2>11. PartialAt(p + 1)'
    <3>1. DOMAIN partial = DOMAIN reply.calls /\ DOMAIN partial' = DOMAIN reply.calls
      BY <1>0, <2>5
    <3> QED BY <2>6, <2>9, <2>10, <3>1 DEF PartialAt
  <2> QED BY <2>8, <2>11
<1> QED BY <1>1, <1>2

-----------------------------------------------------------------------------
(* The events of a chunk *)

\* The chunk after the first p gives these, whoever the vendor.
NewEvents(p, e, chunk) ==
  /\ e \in Seq(EventSet)
  /\ p < reply.text => e = <<Event("text", p + 1)>>
  /\ p >= reply.text => \A i \in DOMAIN e : e[i].type # "text"
  /\ \A i \in DOMAIN e : \A c \in Nat : e[i] = ToolUse(c, "whole") =>
       /\ Emitted(p + 1, c) /\ ~Emitted(p, c)
       /\ \A j \in DOMAIN e : e[j] = ToolUse(c, "whole") => i = j
  /\ \A c \in Nat : Emitted(p + 1, c) /\ ~Emitted(p, c) =>
       \E i \in DOMAIN e : e[i] = ToolUse(c, "whole")
  /\ \A i \in DOMAIN e : /\ e[i] = Done("stop") => reply.calls = <<>>
                         /\ e[i].type = "tool_use" => reply.calls # <<>>
  /\ chunk.kind = "error" => \E i \in DOMAIN e : e[i].type = "error"

NothingEmitted(p) == \A c \in Nat : Emitted(p + 1, c) => Emitted(p, c)

LEMMA EventTypes ==
  /\ \A n \in Nat : Event("text", n) \in EventSet /\ Event("text", n).type = "text"
                    /\ Event("text", n).what = n
  /\ \A c \in Nat, a \in {"whole", "nil"} :
       /\ ToolUse(c, a) \in EventSet /\ ToolUse(c, a).type = "tool_use"
       /\ ToolUse(c, a).what = <<c, a>>
  /\ \A why \in {"stop", "tool_calls", "end_turn", "none"} :
       Done(why) \in EventSet /\ Done(why).type = "done" /\ Done(why).what = why
  /\ StreamError \in EventSet /\ StreamError.type = "error"
  /\ \A c, d, a, b : ToolUse(c, a) = ToolUse(d, b) => c = d /\ a = b
  /\ \A a, b : Done(a) = Done(b) => a = b
<1>1. \A n \in Nat : Event("text", n) \in EventSet /\ Event("text", n).type = "text"
                    /\ Event("text", n).what = n
  BY DEF EventSet, Event
<1>2. ASSUME NEW c \in Nat, NEW a \in {"whole", "nil"}
      PROVE  /\ ToolUse(c, a) \in EventSet /\ ToolUse(c, a).type = "tool_use"
             /\ ToolUse(c, a).what = <<c, a>>
  <2>1. ToolUse(c, a) \in EventSet
    BY DEF EventSet
  <2> QED BY <2>1 DEF ToolUse, Event
<1>3. \A why \in {"stop", "tool_calls", "end_turn", "none"} :
        Done(why) \in EventSet /\ Done(why).type = "done" /\ Done(why).what = why
  <2>1. \A why \in {"stop", "tool_calls", "end_turn", "none"} : Done(why) \in EventSet
    BY DEF EventSet
  <2> QED BY <2>1 DEF Done, Event
<1>4. StreamError \in EventSet /\ StreamError.type = "error"
  <2>1. StreamError \in EventSet
    BY DEF EventSet
  <2> QED BY <2>1 DEF StreamError, Event
<1>5. \A c, d, a, b : ToolUse(c, a) = ToolUse(d, b) => c = d /\ a = b
  <2> SUFFICES ASSUME NEW c, NEW d, NEW a, NEW b, ToolUse(c, a) = ToolUse(d, b) PROVE c = d /\ a = b
    OBVIOUS
  <2>1. ToolUse(c, a).what = <<c, a>> /\ ToolUse(d, b).what = <<d, b>>
    BY DEF ToolUse, Event
  <2>2. <<c, a>> = <<d, b>>
    BY <2>1
  <2> QED BY ONLY <2>2
<1>6. \A a, b : Done(a) = Done(b) => a = b
  <2> SUFFICES ASSUME NEW a, NEW b, Done(a) = Done(b) PROVE a = b
    OBVIOUS
  <2>1. Done(a).what = a /\ Done(b).what = b
    BY DEF Done, Event
  <2> QED BY <2>1
<1> QED BY <1>1, <1>2, <1>3, <1>4, <1>5, <1>6

LEMMA OneEvent ==
  ASSUME NEW p \in Nat, NEW chunk, NEW x \in EventSet, NothingEmitted(p), reply.text \in Nat,
         x.type # "tool_use", x = Done("stop") => reply.calls = <<>>,
         p < reply.text => x = Event("text", p + 1), p >= reply.text => x.type # "text",
         chunk.kind = "error" => x.type = "error"
  PROVE  NewEvents(p, <<x>>, chunk)
<1>1. <<x>> \in Seq(EventSet) /\ DOMAIN <<x>> = {1} /\ <<x>>[1] = x
  OBVIOUS
<1>2. \A c \in Nat : x # ToolUse(c, "whole")
  BY EventTypes
<1> QED BY <1>1, <1>2 DEF NewEvents, NothingEmitted

LEMMA NoEvent ==
  ASSUME NEW p \in Nat, NEW chunk, NothingEmitted(p), reply.text \in Nat, p >= reply.text,
         chunk.kind # "error"
  PROVE  NewEvents(p, <<>>, chunk)
<1>1. <<>> \in Seq(EventSet) /\ DOMAIN <<>> = {}
  OBVIOUS
<1> QED BY <1>1 DEF NewEvents, NothingEmitted

LEMMA KeptIs ==
  ASSUME consumer # "complete", joint \in BOOLEAN, joint => vendor = "openaicompat"
  PROVE  /\ vendor = "openai"
              => Kept(vendor, reply) = {c \in DOMAIN reply.calls : reply.calls[c] = 1}
         /\ vendor = "bedrock"
              => Kept(vendor, reply) = {c \in DOMAIN reply.calls : c = Len(reply.calls)}
         /\ vendor = "anthropic" => Kept(vendor, reply) = {}
         /\ vendor = "openaicompat" =>
              Kept(vendor, reply) = IF joint THEN {} ELSE DOMAIN reply.calls
         /\ vendor = "ollama" /\ ~joint => Kept(vendor, reply) = DOMAIN reply.calls
<1>1. ASSUME vendor = "openai"
      PROVE  Kept(vendor, reply) = {c \in DOMAIN reply.calls : reply.calls[c] = 1}
  BY <1>1 DEF Kept
<1>2. ASSUME vendor = "bedrock"
      PROVE  Kept(vendor, reply) = {c \in DOMAIN reply.calls : c = Len(reply.calls)}
  BY <1>2 DEF Kept
<1>3. ASSUME vendor = "anthropic" PROVE Kept(vendor, reply) = {}
  BY <1>3 DEF Kept
<1>4. ASSUME vendor = "openaicompat"
      PROVE  Kept(vendor, reply) = IF joint THEN {} ELSE DOMAIN reply.calls
  BY <1>4 DEF Kept
<1>5. ASSUME vendor = "ollama", ~joint PROVE Kept(vendor, reply) = DOMAIN reply.calls
  BY <1>5 DEF Kept
<1> QED BY <1>1, <1>2, <1>3, <1>4, <1>5

\* Events are made by a fragment of a call from OpenAI, and by the finish reason from others.
LEMMA EmittedAt ==
  ASSUME StreamTypes, reader # "idle", NEW p \in Nat
  PROVE  /\ p < reply.text \/ p > reply.text + NumCalls => NothingEmitted(p)
         /\ vendor = "openai" /\ p >= reply.text + NumCalls => NothingEmitted(p)
         /\ vendor # "openai" /\ p < reply.text + NumCalls => NothingEmitted(p)
         /\ vendor \in {"anthropic", "ollama"} \/ joint => NothingEmitted(p)
         /\ \A c \in Nat : Emitted(p, c) => Emitted(p + 1, c)
<1>1. reply \in ReplySet /\ NumCalls \in Nat /\ reply.text \in Nat /\ consumer # "complete"
      /\ (joint => vendor = "openaicompat") /\ (vendor = "ollama" => reply.calls = <<>>)
      /\ joint \in BOOLEAN
  <2>1. reply \in ReplySet
    BY DEF StreamTypes
  <2>2. NumCalls \in Nat
    BY <2>1, CallsInOrder, LenProperties DEF CallsUpTo, NumCalls
  <2> QED BY <2>1, <2>2 DEF StreamTypes, StreamTypeOK, WithoutTools, ReplySet
<1>2. /\ \A c, n : CallRead(p, c, n) => CallRead(p + 1, c, n)
      /\ p < reply.text \/ p >= reply.text + NumCalls =>
              \A c, n : CallRead(p + 1, c, n) => CallRead(p, c, n)
  BY <1>1, CallsReadAt
<1>3. vendor \in {"anthropic", "ollama"} \/ joint => Kept(vendor, reply) = {}
  BY <1>1, KeptIs
<1>4. /\ p < reply.text => ~ (p + 1 > reply.text + NumCalls)
      /\ p < reply.text + NumCalls => ~ (p + 1 > reply.text + NumCalls)
      /\ p > reply.text + NumCalls => p >= reply.text + NumCalls
      /\ p > reply.text + NumCalls => p + 1 > reply.text + NumCalls
  BY <1>1
<1> QED BY <1>2, <1>3, <1>4 DEF NothingEmitted, Emitted

\* The events of the calls in one order or another, and the last one.
UsesIn(e, d) ==
  /\ e \in Seq(EventSet)
  /\ \A i \in DOMAIN e : \/ e[i] = d
       \/ \E c \in Started(partial) : e[i] = ToolUse(c, Parsed(c, partial[c]))
  /\ \A c \in Started(partial) : \E i \in DOMAIN e : e[i] = ToolUse(c, Parsed(c, partial[c]))
  /\ \A i, j \in DOMAIN e : e[i].type = "tool_use" /\ e[i] = e[j] => i = j

LEMMA UsesAre ==
  ASSUME StreamTypes, NEW order \in SetToSeqs(Started(partial)), NEW d \in EventSet,
         d.type = "done", NEW e, e = Uses(partial, order) \o <<d>>
  PROVE  UsesIn(e, d)
<1> DEFINE S == Started(partial)
           n == Cardinality(S)
           u == Uses(partial, order)
           use(c) == ToolUse(c, Parsed(c, partial[c]))
<1>1. S \subseteq 1..Len(reply.calls) /\ Len(reply.calls) \in Nat
  <2>1. reply.calls \in Seq(Nat \ {0}) /\ DOMAIN partial = DOMAIN reply.calls
    BY DEF StreamTypes, ReplySet
  <2>2. DOMAIN reply.calls = 1..Len(reply.calls) /\ Len(reply.calls) \in Nat
    BY <2>1, LenProperties
  <2> QED BY <2>1, <2>2 DEF Started
<1>2. IsFiniteSet(S) /\ n \in Nat
  <2>1. IsFiniteSet(1..Len(reply.calls))
    BY <1>1, FS_Interval
  <2> QED BY <1>1, <2>1, FS_Subset, FS_CardinalityType
<1>3. order \in [1..n -> S] /\ \A i, j \in 1..n : i # j => order[i] # order[j]
  BY DEF SetToSeqs
<1>4. \A c \in S : \E i \in 1..n : order[i] = c
  <2>1. IsFiniteSet(1..n) /\ Cardinality(1..n) = n
    <3>1. IF 1 > n THEN n = 0 ELSE n - 1 + 1 = n
      BY <1>2
    <3> QED BY <1>2, <3>1, FS_Interval
  <2>2. order \in Injection(1..n, S)
    BY <1>3 DEF Injection, IsInjective
  <2>3. order \in Surjection(1..n, S)
    <3> HIDE DEF S
    <3> QED BY <1>2, <2>1, <2>2, FS_Injection
  <2> QED BY <2>3 DEF Surjection
<1>5. \A c \in S : use(c) \in EventSet /\ use(c).type = "tool_use"
      /\ \A b \in S : use(b) = use(c) => b = c
  <2>1. \A c \in S : c \in Nat /\ Parsed(c, partial[c]) \in {"whole", "nil"}
    BY <1>1 DEF Parsed
  <2> QED BY <2>1, EventTypes
<1>6. u = [i \in 1..n |-> use(order[i])]
  BY <1>3 DEF Uses
<1> HIDE DEF S, n, u, use
<1>7. \A i \in 1..n : u[i] = use(order[i]) /\ order[i] \in S
  BY <1>3, <1>6
<1>8. u \in Seq(EventSet) /\ Len(u) = n
  <2>1. u \in [1..n -> EventSet]
    BY <1>5, <1>6, <1>7
  <2> QED BY <1>2, <2>1, SeqDef, LenProperties
<1>9. <<d>> \in Seq(EventSet) /\ Len(<<d>>) = 1 /\ <<d>>[1] = d
  OBVIOUS
<1>10. /\ e \in Seq(EventSet) /\ Len(e) = n + 1
       /\ \A i \in 1..(n + 1) : e[i] = IF i <= n THEN u[i] ELSE d
  <2>1. /\ u \o <<d>> \in Seq(EventSet) /\ Len(u \o <<d>>) = Len(u) + 1
        /\ \A i \in 1..(Len(u) + 1) :
             (u \o <<d>>)[i] = IF i <= Len(u) THEN u[i] ELSE <<d>>[i - Len(u)]
    BY <1>8, <1>9, ConcatProperties
  <2>2. e = u \o <<d>>
    BY DEF u
  <2>3. \A i \in 1..(n + 1) : ~ (i <= n) => i - n = 1
    BY <1>2
  <2> QED BY <1>8, <1>9, <2>1, <2>2, <2>3
<1>11. DOMAIN e = 1..(n + 1)
  BY <1>10, LenProperties
<1>12. \A i \in DOMAIN e : IF i = n + 1 THEN e[i] = d ELSE i \in 1..n /\ e[i] = use(order[i])
  BY <1>2, <1>7, <1>10, <1>11
<1>13. \A i \in DOMAIN e : e[i] = d \/ \E c \in S : e[i] = use(c)
  BY <1>7, <1>12
<1>14. \A c \in S : \E i \in DOMAIN e : e[i] = use(c)
  <2>1. ASSUME NEW c \in S PROVE \E i \in DOMAIN e : e[i] = use(c)
    <3>1. PICK i \in 1..n : order[i] = c
      BY <1>4
    <3>2. i \in DOMAIN e /\ i # n + 1
      BY <1>2, <1>11
    <3> QED BY <1>12, <3>1, <3>2
  <2> QED BY <2>1
<1>15. ASSUME NEW i \in DOMAIN e, NEW j \in DOMAIN e, e[i].type = "tool_use", e[i] = e[j]
       PROVE  i = j
  <2>1. i # n + 1 /\ j # n + 1
    BY <1>12, <1>15
  <2>2. i \in 1..n /\ j \in 1..n /\ use(order[i]) = use(order[j])
    BY <1>12, <1>15, <2>1
  <2>3. order[i] = order[j]
    BY <1>5, <1>7, <2>2
  <2> QED BY <1>3, <2>2, <2>3
<1> QED BY <1>10, <1>13, <1>14, <1>15 DEF S, use, UsesIn

\* In the end a reader has all fragments of the calls it keeps.
LEMMA FragmentsAtEnd ==
  ASSUME StreamTypes, NEW p \in Nat, p >= reply.text + NumCalls, NEW c \in DOMAIN reply.calls
  PROVE  /\ OwnFragments(p, c) => Parsed(c, partial[c]) = "whole" /\ c \in Started(partial)
         /\ StrangeFragments(p, c) /\ c # Len(reply.calls) => Parsed(c, partial[c]) = "nil"
<1>1. /\ reply \in ReplySet /\ partial \in [DOMAIN reply.calls -> Seq(Nat \X Nat)]
      /\ DOMAIN reply.calls = 1..Len(reply.calls) /\ Len(reply.calls) \in Nat
      /\ \A d \in DOMAIN reply.calls : reply.calls[d] \in Nat \ {0}
  <2>1. reply \in ReplySet /\ partial \in [DOMAIN reply.calls -> Seq(Nat \X Nat)]
    BY DEF StreamTypes
  <2>2. reply.calls \in Seq(Nat \ {0})
    BY <2>1 DEF ReplySet
  <2> QED BY <2>1, <2>2, LenProperties, ElementOfSeq
<1>2. \A d \in DOMAIN reply.calls : \A n \in 1..reply.calls[d] : CallRead(p, d, n)
  BY <1>1, CallsReadAt
<1>3. ASSUME OwnFragments(p, c) PROVE Parsed(c, partial[c]) = "whole" /\ c \in Started(partial)
  <2>1. Len(partial[c]) \in Nat
    BY <1>1, LenProperties
  <2>2. reply.calls[c] \in 1..reply.calls[c]
    BY <1>1
  <2>3. Len(partial[c]) <= reply.calls[c] /\ reply.calls[c] <= Len(partial[c])
    BY <1>2, <1>3, <2>2 DEF OwnFragments
  <2>4. Len(partial[c]) = reply.calls[c]
    BY <1>1, <2>1, <2>3
  <2>5. partial[c] = [n \in 1..reply.calls[c] |-> <<c, n>>]
    BY <1>3, <2>4 DEF OwnFragments
  <2>6. partial[c] # <<>>
    <3>1. Len(partial[c]) # 0
      BY <1>1, <2>4
    <3> QED BY <3>1, EmptySeq
  <2> QED BY <1>1, <2>5, <2>6 DEF Parsed, Started
<1>4. ASSUME StrangeFragments(p, c), c # Len(reply.calls) PROVE Parsed(c, partial[c]) = "nil"
  <2>1. c + 1 \in DOMAIN reply.calls /\ c < c + 1 /\ DOMAIN partial = DOMAIN reply.calls
          /\ c \in Nat
    BY <1>1, <1>4
  <2>2. 1 \in 1..reply.calls[c + 1]
    BY <1>1, <2>1
  <2>3. <<c + 1, 1>> \in Range(partial[c])
    BY <1>2, <1>4, <2>1, <2>2 DEF StrangeFragments
  <2>4. PICK i \in DOMAIN partial[c] : partial[c][i] = <<c + 1, 1>>
    BY <2>3 DEF Range
  <2>5. ASSUME partial[c] = [n \in 1..reply.calls[c] |-> <<c, n>>] PROVE FALSE
    <3>1. partial[c][i] = <<c, i>>
      BY <2>4, <2>5
    <3>2. c + 1 = c
      BY <2>4, <3>1
    <3> QED BY <2>1, <3>2
  <2> QED BY <2>5 DEF Parsed
<1> QED BY <1>3, <1>4

LEMMA EventsOf ==
  ASSUME StreamTypes, reader # "idle", NEW p \in Nat, NEW end, IsEnding(end), PartialAt(p),
         p < Len(WholeWire(end)), NEW e \in Events(vendor, partial, WholeWire(end)[p + 1])
  PROVE  NewEvents(p, e, WholeWire(end)[p + 1])
<1> DEFINE chunk == WholeWire(end)[p + 1]
<1>0. /\ reply \in ReplySet /\ vendor \in Vendors /\ consumer # "complete" /\ joint \in BOOLEAN
      /\ (joint => vendor = "openaicompat") /\ (vendor = "ollama" => reply.calls = <<>>)
      /\ reply.text \in Nat /\ NumCalls \in Nat /\ DOMAIN partial = DOMAIN reply.calls
      /\ DOMAIN reply.calls = 1..Len(reply.calls) /\ Len(reply.calls) \in Nat
      /\ \A c \in DOMAIN reply.calls : reply.calls[c] \in Nat \ {0}
  <2>1. reply \in ReplySet
    BY DEF StreamTypes
  <2>2. NumCalls \in Nat
    BY <2>1, CallsInOrder, LenProperties DEF CallsUpTo, NumCalls
  <2>3. reply.calls \in Seq(Nat \ {0})
    BY <2>1 DEF ReplySet
  <2>4. /\ DOMAIN reply.calls = 1..Len(reply.calls) /\ Len(reply.calls) \in Nat
        /\ \A c \in DOMAIN reply.calls : reply.calls[c] \in Nat \ {0}
    BY <2>3, LenProperties, ElementOfSeq
  <2> QED BY <2>1, <2>2, <2>4 DEF StreamTypes, StreamTypeOK, WithoutTools, ReplySet
<1>1. /\ chunk \in ChunkSet
      /\ p < reply.text => chunk = Chunk("text", 0, p + 1)
      /\ p >= reply.text /\ p < reply.text + NumCalls =>
           /\ p + 1 - reply.text \in 1..NumCalls /\ chunk = CallChunks(reply)[p + 1 - reply.text]
           /\ chunk = Chunk("call", chunk.call, chunk.nth)
           /\ chunk.call \in DOMAIN reply.calls /\ chunk.nth \in 1..reply.calls[chunk.call]
      /\ p >= reply.text + NumCalls =>
           /\ chunk.kind \notin {"text", "call"}
           /\ p = reply.text + NumCalls => chunk.kind = end[1].kind
           /\ p > reply.text + NumCalls => chunk.kind \in {"usage", "[DONE]"}
  BY <1>0, ChunkAt
<1>2. Reason(reply) \in {"stop", "tool_calls"} /\ (Reason(reply) = "stop" => reply.calls = <<>>)
  BY DEF Reason
<1>3. /\ chunk.kind = "error" => vendor = "anthropic"
      /\ chunk.kind = "finish" => p = reply.text + NumCalls /\ ~joint
      /\ chunk.kind = "finish+usage" => joint \/ vendor = "ollama"
      /\ chunk.kind \in {"finish", "finish+usage", "error"} => p >= reply.text + NumCalls
  <2>1. CASE p < reply.text
    BY <1>1, <2>1 DEF Chunk
  <2>2. CASE p >= reply.text /\ p < reply.text + NumCalls
    <3>1. chunk.kind = "call"
      BY <1>1, <2>2 DEF Chunk
    <3> QED BY <3>1
  <2>3. CASE p >= reply.text + NumCalls
    <3>1. p = reply.text + NumCalls \/ p > reply.text + NumCalls
      BY <1>0, <2>3
    <3> HIDE DEF chunk
    <3> QED BY <1>1, <2>3, <3>1 DEF IsEnding
  <2> QED BY <1>0, <2>1, <2>2, <2>3
<1>4. e \in Events(vendor, partial, chunk)
  OBVIOUS
<1> HIDE DEF chunk
<1>5. CASE p < reply.text
  <2>1. NothingEmitted(p)
    BY <1>5, EmittedAt
  <2>2. chunk.kind = "text" /\ chunk.nth = p + 1
    BY <1>1, <1>5 DEF Chunk
  <2>3. e = <<Event("text", p + 1)>>
    BY <1>0, <1>4, <2>2 DEF Events, OpenAIEvents, CompatEvents, AnthropicEvents, OllamaEvents,
                            BedrockEvents, Vendors
  <2>4. DEFINE x == Event("text", p + 1)
  <2>5. x \in EventSet /\ x.type = "text" /\ x # Done("stop")
    <3>1. Done("stop").type = "done" /\ p + 1 \in Nat
      BY EventTypes
    <3> QED BY <3>1, EventTypes
  <2>6. ~ (p >= reply.text)
    BY <1>0, <1>5
  <2> HIDE DEF x
  <2>7. NewEvents(p, <<x>>, chunk)
    BY <1>0, <2>1, <2>2, <2>5, <2>6, OneEvent DEF x
  <2> QED BY <2>3, <2>7 DEF x, chunk
<1>6. CASE p >= reply.text /\ p < reply.text + NumCalls
  <2>1. chunk.kind = "call" /\ chunk.call \in DOMAIN reply.calls
          /\ chunk.nth \in 1..reply.calls[chunk.call]
    BY <1>1, <1>6 DEF Chunk
  <2>2. CASE vendor # "openai"
    <3>1. e = <<>>
      <4>1. vendor # "ollama"
        BY <1>0, <2>1
      <4> QED BY <1>0, <1>4, <2>1, <2>2, <4>1 DEF Events, CompatEvents, AnthropicEvents,
                                                    BedrockEvents, Vendors
    <3>2. NothingEmitted(p)
      BY <1>6, <2>2, EmittedAt
    <3> QED BY <1>0, <1>6, <2>1, <3>1, <3>2, NoEvent DEF chunk
  <2>3. CASE vendor = "openai"
    <3> DEFINE c == chunk.call
               n == chunk.nth
               how == Parsed(c, <<<<c, n>>>>)
               x == ToolUse(IF n = 1 THEN c ELSE 0, how)
    <3>1. e = <<x>>
      BY <1>4, <2>1, <2>3 DEF Events, OpenAIEvents
    <3>2. c \in Nat /\ n \in Nat /\ how \in {"whole", "nil"} /\ (IF n = 1 THEN c ELSE 0) \in Nat
      BY <1>1 DEF ChunkSet, Parsed
    <3>3. how = "whole" <=> reply.calls[c] = 1
      <4> DEFINE f == <<<<c, n>>>>
                 g == [k \in 1..reply.calls[c] |-> <<c, k>>]
      <4>1. DOMAIN f = 1..1 /\ f[1] = <<c, n>> /\ f = [k \in 1..1 |-> f[k]]
        OBVIOUS
      <4>2. DOMAIN g = 1..reply.calls[c] /\ (reply.calls[c] = 1 => g[1] = <<c, 1>>)
        BY <1>0, <2>1
      <4>3. f = g => reply.calls[c] = 1
        <5>1. reply.calls[c] \in Nat \ {0}
          BY <1>0, <2>1
        <5>2. f = g => 1..1 = 1..reply.calls[c]
          BY <4>1, <4>2
        <5>3. reply.calls[c] \in 1..reply.calls[c]
          BY <5>1
        <5>4. 1..1 = 1..reply.calls[c] => reply.calls[c] \in 1..1
          BY <5>3
        <5> QED BY <5>1, <5>2, <5>4
      <4>4. reply.calls[c] = 1 => f = g
        <5> SUFFICES ASSUME reply.calls[c] = 1 PROVE f = g
          OBVIOUS
        <5>1. n = 1
          BY <2>1
        <5>2. f = [k \in 1..1 |-> <<c, k>>]
          BY <5>1
        <5> QED BY <5>2
      <4>5. how = "whole" <=> f = g
        BY DEF Parsed
      <4> QED BY <4>3, <4>4, <4>5
    <3>4. reply.calls[c] = 1 => n = 1
      BY <2>1
    <3>5. x \in EventSet /\ x.type = "tool_use" /\ \A d \in Nat : x = ToolUse(d, "whole")
            => d = c /\ reply.calls[c] = 1
      <4>1. x \in EventSet /\ x.type = "tool_use"
        BY <3>2, EventTypes
      <4>2. ASSUME NEW d \in Nat, x = ToolUse(d, "whole") PROVE d = c /\ reply.calls[c] = 1
        <5>1. how = "whole" /\ d = IF n = 1 THEN c ELSE 0
          BY <4>2, EventTypes
        <5> QED BY <3>3, <3>4, <5>1
      <4> QED BY <4>1, <4>2
    <3>6. reply.calls[c] = 1 => x = ToolUse(c, "whole")
      BY <3>3, <3>4
    <3> HIDE DEF c, n, how, x
    <3>7. /\ \A d, k : CallRead(p + 1, d, k) <=> CallRead(p, d, k) \/ (d = c /\ k = n)
          /\ \A d \in DOMAIN reply.calls : \A k \in 1..reply.calls[d] :
               CallRead(p, d, k) <=> d < c \/ (d = c /\ k < n)
      <4>1. c \in DOMAIN reply.calls /\ n \in 1..reply.calls[c] /\ p >= reply.text
            /\ p < reply.text + NumCalls
                 /\ CallChunks(reply)[p + 1 - reply.text] = Chunk("call", c, n)
        BY <1>1, <1>6 DEF c, n
      <4>2. ComesNext(p, c, n)
        BY <1>0, <4>1, CallReadNext
      <4> QED BY ONLY <4>2 DEF ComesNext
    <3>8. \A d \in Nat : Emitted(p, d) => Emitted(p + 1, d)
      BY EmittedAt
    <3>9. Kept(vendor, reply) = {d \in DOMAIN reply.calls : reply.calls[d] = 1}
      BY <1>0, <2>3, KeptIs
    <3>10. reply.calls[c] = 1 => Emitted(p + 1, c) /\ ~Emitted(p, c)
      <4> SUFFICES ASSUME reply.calls[c] = 1 PROVE Emitted(p + 1, c) /\ ~Emitted(p, c)
        OBVIOUS
      <4>1. n = 1 /\ c \in DOMAIN reply.calls /\ 1 \in 1..reply.calls[c] /\ c \in Nat
        BY <2>1, <3>2, <3>4 DEF c
      <4>2. CallRead(p + 1, c, 1)
        BY <3>7, <4>1
      <4>3. ~CallRead(p, c, 1)
        <5>1. ~ (c < c) /\ ~ (1 < 1)
          BY <4>1
        <5> QED BY <3>7, <4>1, <5>1
      <4> QED BY <2>3, <3>9, <4>1, <4>2, <4>3 DEF Emitted
    <3>11. \A d \in Nat : Emitted(p + 1, d) /\ ~Emitted(p, d) => d = c /\ reply.calls[c] = 1
      BY <2>3, <3>7, <3>9 DEF Emitted
    <3>12. <<x>> \in Seq(EventSet) /\ DOMAIN <<x>> = {1} /\ <<x>>[1] = x
      BY <3>5
    <3>13. x # Done("stop") /\ reply.calls # <<>> /\ ~ (p < reply.text)
      <4>1. Done("stop").type = "done"
        BY EventTypes
      <4> QED BY <1>0, <1>6, <2>1, <3>5, <4>1
    <3>14. NewEvents(p, <<x>>, chunk)
      BY <2>1, <3>5, <3>6, <3>10, <3>11, <3>12, <3>13 DEF NewEvents
    <3> QED BY <3>1, <3>14 DEF chunk
  <2> QED BY <2>2, <2>3
<1>7. CASE p >= reply.text + NumCalls
  <2>0. chunk.kind \notin {"text", "call"} /\ ~ (p < reply.text) /\ p >= reply.text
    BY <1>0, <1>1, <1>7
  <2>1. \/ /\ e = <<>> /\ NothingEmitted(p) /\ chunk.kind # "error"
        \/ \E x \in {Done("stop"), Done("tool_calls"), Done("end_turn"), Done("none"),
             StreamError} :
             /\ e = <<x>> /\ NothingEmitted(p) /\ (x = Done("stop") => reply.calls = <<>>)
             /\ (chunk.kind = "error" => x = StreamError)
        \/ /\ vendor \in {"openaicompat", "bedrock"} /\ chunk.kind = "finish"
           /\ \E order \in SetToSeqs(Started(partial)), why \in {"stop", "tool_calls", "none"} :
                e = Uses(partial, order) \o <<Done(why)>> /\ (why = "stop" => reply.calls = <<>>)
    <3>1. CASE vendor = "openai"
      <4>1. NothingEmitted(p)
        BY <1>7, <3>1, EmittedAt
      <4>2. e = <<Done(Reason(reply))>> \/ e = <<Done("none")>>
        BY <1>4, <2>0, <3>1 DEF Events, OpenAIEvents
      <4>3. Done("none") # Done("stop")
              /\ (Done(Reason(reply)) = Done("stop") => reply.calls = <<>>)
        BY <1>2, EventTypes
      <4> QED BY <1>2, <1>3, <3>1, <4>1, <4>2, <4>3
    <3>2. CASE vendor = "openaicompat" /\ chunk.kind # "finish"
      <4>1. NothingEmitted(p)
        <5>1. chunk.kind = "finish+usage" => joint
          BY <1>3, <3>2
        <5>2. chunk.kind # "finish+usage" => p > reply.text + NumCalls
          BY <1>0, <1>1, <1>3, <1>7, <3>2 DEF IsEnding
        <5> QED BY <5>1, <5>2, EmittedAt
      <4>2. e = <<Done("none")>>
        BY <1>4, <2>0, <3>2 DEF Events, CompatEvents
      <4>3. Done("none") # Done("stop")
        BY EventTypes
      <4> QED BY <1>3, <3>2, <4>1, <4>2, <4>3
    <3>3. CASE vendor = "openaicompat" /\ chunk.kind = "finish"
      <4>1. \E order \in SetToSeqs(Started(partial)) : e = Uses(partial, order)
              \o <<Done(Reason(reply))>>
        BY <1>4, <3>3 DEF Events, CompatEvents
      <4> QED BY <1>2, <3>3, <4>1
    <3>4. CASE vendor = "anthropic"
      <4>1. NothingEmitted(p)
        BY <3>4, EmittedAt
      <4>2. e = <<Done("end_turn")>> \/ (chunk.kind # "error" /\ e = <<>>) \/ e = <<StreamError>>
        BY <1>4, <2>0, <3>4 DEF Events, AnthropicEvents
      <4>3. e = <<Done("end_turn")>> => chunk.kind # "error"
        <5>1. chunk.kind = "error" => e = <<StreamError>>
          BY <1>4, <3>4 DEF Events, AnthropicEvents
        <5>2. <<StreamError>> # <<Done("end_turn")>>
          <6>1. StreamError.type = "error" /\ Done("end_turn").type = "done"
            BY EventTypes
          <6> QED BY <6>1
        <5> QED BY <5>1, <5>2
      <4>4. Done("end_turn") # Done("stop") /\ StreamError # Done("stop")
        <5>1. StreamError.type = "error" /\ Done("stop").type = "done"
                /\ Done("end_turn") # Done("stop")
          BY EventTypes
        <5> QED BY <5>1
      <4> QED BY <4>1, <4>2, <4>3, <4>4
    <3>5. CASE vendor = "ollama"
      <4>1. NothingEmitted(p)
        BY <3>5, EmittedAt
      <4>2. e = <<Done("stop")>>
        BY <1>4, <2>0, <3>5 DEF Events, OllamaEvents
      <4> QED BY <1>0, <1>3, <3>5, <4>1, <4>2
    <3>6. CASE vendor = "bedrock" /\ chunk.kind # "finish"
      <4>1. NothingEmitted(p)
        <5>1. chunk.kind # "finish+usage"
          BY <1>0, <1>3, <3>6
        <5>2. p > reply.text + NumCalls
          BY <1>0, <1>1, <1>3, <1>7, <3>6, <5>1 DEF IsEnding
        <5> QED BY <5>2, EmittedAt
      <4>2. e = <<Done("none")>>
        BY <1>4, <2>0, <3>6 DEF Events, BedrockEvents
      <4>3. Done("none") # Done("stop")
        BY EventTypes
      <4> QED BY <1>3, <3>6, <4>1, <4>2, <4>3
    <3>7. CASE vendor = "bedrock" /\ chunk.kind = "finish"
      <4>1. \E order \in SetToSeqs(Started(partial)) : e = Uses(partial, order) \o <<Done("none")>>
        BY <1>4, <3>7 DEF Events, BedrockEvents
      <4> QED BY <3>7, <4>1
    <3> QED BY <1>0, <3>1, <3>2, <3>3, <3>4, <3>5, <3>6, <3>7 DEF Vendors
  <2>2. CASE e = <<>> /\ NothingEmitted(p) /\ chunk.kind # "error"
    BY <1>0, <2>0, <2>2, NoEvent DEF chunk
  <2>3. ASSUME NEW x \in {Done("stop"), Done("tool_calls"), Done("end_turn"), Done("none"),
               StreamError},
               e = <<x>>, NothingEmitted(p), x = Done("stop") => reply.calls = <<>>,
               chunk.kind = "error" => x = StreamError
        PROVE  NewEvents(p, e, chunk)
    <3>1. x \in EventSet /\ x.type \in {"done", "error"} /\ (x = StreamError => x.type = "error")
      BY <2>3, EventTypes
    <3>2. NewEvents(p, <<x>>, chunk)
      BY <1>0, <2>0, <2>3, <3>1, OneEvent
    <3> QED BY <2>3, <3>2
  <2>4. ASSUME vendor \in {"openaicompat", "bedrock"}, chunk.kind = "finish",
               NEW order \in SetToSeqs(Started(partial)),
                 NEW why \in {"stop", "tool_calls", "none"},
               e = Uses(partial, order) \o <<Done(why)>>, why = "stop" => reply.calls = <<>>
        PROVE  NewEvents(p, e, chunk)
    <3> DEFINE d == Done(why)
    <3>1. d \in EventSet /\ d.type = "done" /\ (d = Done("stop") => why = "stop")
      BY EventTypes
    <3> HIDE DEF d
    <3>2. /\ e \in Seq(EventSet)
          /\ \A i \in DOMAIN e : \/ e[i] = d
               \/ \E c \in Started(partial) : e[i] = ToolUse(c, Parsed(c, partial[c]))
          /\ \A c \in Started(partial) : \E i \in DOMAIN e : e[i]
               = ToolUse(c, Parsed(c, partial[c]))
          /\ \A i, j \in DOMAIN e : e[i].type = "tool_use" /\ e[i] = e[j] => i = j
      <4>1. e = Uses(partial, order) \o <<d>>
        BY <2>4 DEF d
      <4>2. UsesIn(e, d)
        BY <3>1, <4>1, UsesAre
      <4> QED BY <4>2, Zenon DEF UsesIn
    <3>3. \A c \in Started(partial) : c \in DOMAIN reply.calls /\ c \in Nat
            /\ Parsed(c, partial[c]) \in {"whole", "nil"}
      BY <1>0 DEF Started, Parsed
    <3>4. p = reply.text + NumCalls /\ ~joint
      BY <1>3, <2>4
    <3>5. \A c : (Emitted(p + 1, c) <=> c \in Kept(vendor, reply)) /\ ~Emitted(p, c)
      BY <1>0, <2>4, <3>4 DEF Emitted
    <3>6. \A c \in Started(partial) : Parsed(c, partial[c]) = "whole" => c \in Kept(vendor, reply)
      <4>1. CASE vendor = "openaicompat"
        BY <1>0, <3>3, <3>4, <4>1, KeptIs
      <4>2. CASE vendor = "bedrock"
        <5>1. \A c \in DOMAIN reply.calls : StrangeFragments(p, c)
          BY <1>0, <4>2 DEF PartialAt
        <5>2. \A c \in DOMAIN reply.calls : Parsed(c, partial[c]) = "whole" => c = Len(reply.calls)
          BY <1>7, <5>1, FragmentsAtEnd
        <5> QED BY <1>0, <3>3, <4>2, <5>2, KeptIs
      <4> QED BY <2>4, <4>1, <4>2
    <3>7. \A c \in Kept(vendor, reply) : c \in Started(partial) /\ Parsed(c, partial[c]) = "whole"
      <4>1. \A c \in Kept(vendor, reply) : c \in DOMAIN reply.calls /\ OwnFragments(p, c)
        BY <1>0, <2>4, <3>4, KeptIs DEF PartialAt
      <4> QED BY <1>7, <4>1, FragmentsAtEnd
    <3>8. ASSUME NEW i \in DOMAIN e, NEW c \in Nat, e[i] = ToolUse(c, "whole")
          PROVE  /\ Emitted(p + 1, c) /\ ~Emitted(p, c)
                 /\ \A j \in DOMAIN e : e[j] = ToolUse(c, "whole") => i = j
      <4>1. e[i].type = "tool_use"
        BY <3>8, EventTypes
      <4>2. PICK b \in Started(partial) : e[i] = ToolUse(b, Parsed(b, partial[b]))
        BY <3>1, <3>2, <4>1
      <4>3. b = c /\ Parsed(b, partial[b]) = "whole"
        BY <3>8, <4>2, EventTypes
      <4> QED BY <3>2, <3>5, <3>6, <3>8, <4>1, <4>2, <4>3
    <3>9. ASSUME NEW c \in Nat, Emitted(p + 1, c)
          PROVE  \E i \in DOMAIN e : e[i] = ToolUse(c, "whole")
      BY <3>2, <3>5, <3>7, <3>9
    <3>10. ASSUME NEW i \in DOMAIN e
           PROVE  /\ e[i] = Done("stop") => reply.calls = <<>>
                  /\ e[i].type = "tool_use" => reply.calls # <<>>
                  /\ e[i].type # "text"
      <4>1. CASE e[i] = d
        BY <2>4, <3>1, <4>1
      <4>2. ASSUME NEW c \in Started(partial), e[i] = ToolUse(c, Parsed(c, partial[c]))
            PROVE  e[i].type = "tool_use" /\ reply.calls # <<>> /\ e[i] # Done("stop")
        <5>1. e[i].type = "tool_use" /\ Done("stop").type = "done"
          BY <3>3, <4>2, EventTypes
        <5>2. reply.calls # <<>>
          BY <3>3
        <5> QED BY <5>1, <5>2
      <4> QED BY <3>2, <4>1, <4>2
    <3> QED BY <2>0, <2>4, <3>2, <3>8, <3>9, <3>10 DEF NewEvents
  <2> QED BY <2>1, <2>2, <2>3, <2>4 DEF chunk
<1> QED BY <1>0, <1>5, <1>6, <1>7

-----------------------------------------------------------------------------
(* The events on their way *)

LEMMA Behead ==
  ASSUME NEW S, NEW s \in Seq(S), s # <<>>
  PROVE  /\ Len(s) \in Nat \ {0} /\ DOMAIN s = 1..Len(s) /\ Head(s) = s[1] /\ Head(s) \in S
         /\ Tail(s) \in Seq(S) /\ Len(Tail(s)) = Len(s) - 1 /\ DOMAIN Tail(s) = 1..(Len(s) - 1)
         /\ \A i \in 1..(Len(s) - 1) : Tail(s)[i] = s[i + 1]
<1>1. Len(s) \in Nat \ {0} /\ DOMAIN s = 1..Len(s)
  BY EmptySeq, LenProperties
<1>2. Head(s) \in S /\ Tail(s) \in Seq(S) /\ Len(Tail(s)) = Len(s) - 1
      /\ \A i \in 1..Len(Tail(s)) : Tail(s)[i] = s[i + 1]
  BY HeadTailProperties
<1>3. DOMAIN Tail(s) = 1..(Len(s) - 1)
  BY <1>2, LenProperties
<1>4. Head(s) = s[1]
  OBVIOUS
<1> QED BY <1>1, <1>2, <1>3, <1>4

\* The head of one sequence goes to the end of the other, or is taken from both.
LEMMA Passing ==
  ASSUME NEW S, NEW s \in Seq(S), NEW t \in Seq(S)
  PROVE  /\ t # <<>> => Append(s, Head(t)) \o Tail(t) = s \o t
         /\ s # <<>> => Tail(s) \o t = Tail(s \o t) /\ Head(s) = (s \o t)[1] /\ s \o t # <<>>
<1> DEFINE q == s \o t
<1>0. /\ q \in Seq(S) /\ Len(s) \in Nat /\ Len(t) \in Nat /\ Len(q) = Len(s) + Len(t)
      /\ DOMAIN q = 1..(Len(s) + Len(t))
      /\ \A i \in 1..Len(s) : q[i] = s[i]
      /\ \A i \in 1..Len(t) : q[Len(s) + i] = t[i]
  <2>1. JoinIs(s, t, q, S)
    BY Joined
  <2> HIDE DEF q
  <2> QED BY <2>1 DEF JoinIs
<1> HIDE DEF q
<1>1. ASSUME t # <<>> PROVE Append(s, Head(t)) \o Tail(t) = q
  <2>1. /\ Len(t) \in Nat \ {0} /\ Head(t) = t[1] /\ Head(t) \in S /\ Tail(t) \in Seq(S)
        /\ Len(Tail(t)) = Len(t) - 1 /\ \A i \in 1..(Len(t) - 1) : Tail(t)[i] = t[i + 1]
    BY <1>1, Behead
  <2> DEFINE a == Append(s, Head(t))
             b == Tail(t)
             w == a \o b
  <2>2. /\ a \in Seq(S) /\ Len(a) = Len(s) + 1 /\ (\A i \in 1..Len(s) : a[i] = s[i])
        /\ a[Len(s) + 1] = Head(t)
    BY <2>1, Longer
  <2>3. b \in Seq(S) /\ Len(b) = Len(t) - 1 /\ \A i \in 1..(Len(t) - 1) : b[i] = t[i + 1]
    BY <2>1
  <2> HIDE DEF a, b
  <2>4. /\ w \in Seq(S) /\ Len(w) = Len(a) + Len(b)
        /\ DOMAIN w = 1..(Len(a) + Len(b))
        /\ \A i \in 1..Len(a) : w[i] = a[i]
        /\ \A i \in 1..Len(b) : w[Len(a) + i] = b[i]
        /\ \A i \in 1..(Len(a) + Len(b)) : i \in 1..Len(a) \/ \E j \in 1..Len(b) : i = Len(a) + j
    <3>1. a \in Seq(S) /\ b \in Seq(S)
      BY <2>2, <2>3
    <3>2. JoinIs(a, b, w, S)
      BY ONLY <3>1, Joined
    <3> HIDE DEF w
    <3> QED BY <3>2 DEF JoinIs
  <2> HIDE DEF w
  <2>5. Len(a) + Len(b) = Len(s) + Len(t)
    BY <1>0, <2>1, <2>2, <2>3
  <2>6. ASSUME NEW i \in 1..(Len(s) + Len(t)) PROVE w[i] = q[i]
    <3>1. CASE i \in 1..Len(s)
      <4>1. i \in 1..Len(a)
        BY <1>0, <2>2, <3>1
      <4> QED BY <1>0, <2>2, <2>4, <3>1, <4>1
    <3>2. CASE i = Len(s) + 1
      <4>1. i \in 1..Len(a) /\ 1 \in 1..Len(t)
        BY <1>0, <2>1, <2>2, <3>2
      <4> QED BY <1>0, <2>1, <2>2, <2>4, <3>2, <4>1
    <3>3. CASE i \notin 1..Len(s) /\ i # Len(s) + 1
      <4>1. PICK j \in 1..(Len(t) - 1) : i = Len(s) + 1 + j
        <5>1. i - Len(s) - 1 \in 1..(Len(t) - 1) /\ i = Len(s) + 1 + (i - Len(s) - 1)
          BY <1>0, <3>3
        <5> QED BY <5>1
      <4>2. w[Len(a) + j] = b[j] /\ b[j] = t[j + 1]
        BY <2>3, <2>4, <4>1
      <4>3. j + 1 \in 1..Len(t) /\ Len(s) + (j + 1) = i /\ Len(a) + j = i
        BY <1>0, <2>2, <4>1
      <4>4. q[Len(s) + (j + 1)] = t[j + 1]
        BY <1>0, <4>3
      <4> QED BY <4>2, <4>3, <4>4
    <3> QED BY <3>1, <3>2, <3>3
  <2>7. Len(w) = Len(q) /\ \A i \in 1..Len(w) : w[i] = q[i]
    BY <1>0, <2>4, <2>5, <2>6
  <2>8. w = q
    BY <1>0, <2>4, <2>7, SeqEqual
  <2> QED BY <2>8 DEF w, a, b
<1>2. ASSUME s # <<>> PROVE Tail(s) \o t = Tail(q) /\ Head(s) = q[1] /\ q # <<>>
  <2>1. /\ Len(s) \in Nat \ {0} /\ Head(s) = s[1] /\ Tail(s) \in Seq(S)
        /\ Len(Tail(s)) = Len(s) - 1 /\ \A i \in 1..(Len(s) - 1) : Tail(s)[i] = s[i + 1]
    BY <1>2, Behead
  <2>2. q # <<>>
    <3>1. Len(q) # 0
      BY <1>0, <2>1
    <3> QED BY <3>1, EmptySeq
  <2> DEFINE a == Tail(s)
             b == Tail(q)
             w == a \o t
  <2>3. /\ b \in Seq(S) /\ Len(b) = Len(q) - 1 /\ \A i \in 1..(Len(q) - 1) : b[i] = q[i + 1]
    BY <1>0, <2>2, Behead
  <2>4. a \in Seq(S) /\ Len(a) = Len(s) - 1 /\ \A i \in 1..(Len(s) - 1) : a[i] = s[i + 1]
    BY <2>1
  <2> HIDE DEF a, b
  <2>5. /\ w \in Seq(S) /\ Len(w) = Len(a) + Len(t)
        /\ \A i \in 1..Len(a) : w[i] = a[i]
        /\ \A i \in 1..Len(t) : w[Len(a) + i] = t[i]
        /\ \A i \in 1..(Len(a) + Len(t)) : i \in 1..Len(a) \/ \E j \in 1..Len(t) : i = Len(a) + j
    <3>1. JoinIs(a, t, w, S)
      BY <2>4, Joined
    <3> HIDE DEF w
    <3> QED BY <3>1 DEF JoinIs
  <2> HIDE DEF w
  <2>6. Len(w) = Len(b)
    BY <1>0, <2>1, <2>3, <2>4, <2>5
  <2>7. ASSUME NEW i \in 1..Len(w) PROVE w[i] = b[i]
    <3>1. i \in 1..(Len(q) - 1) /\ b[i] = q[i + 1]
      BY <2>3, <2>6, <1>0
    <3>2. CASE i \in 1..Len(a)
      <4>1. i \in 1..(Len(s) - 1) /\ i + 1 \in 1..Len(s)
        BY <2>1, <2>4, <3>2
      <4> QED BY <1>0, <2>4, <2>5, <3>1, <3>2, <4>1
    <3>3. CASE \E j \in 1..Len(t) : i = Len(a) + j
      <4>1. PICK j \in 1..Len(t) : i = Len(a) + j
        BY <3>3
      <4>2. Len(s) + j = i + 1 /\ q[Len(s) + j] = t[j]
        BY <1>0, <2>1, <2>4, <4>1
      <4>3. w[Len(a) + j] = t[j]
        BY <2>5, <4>1
      <4> QED BY <3>1, <4>1, <4>2, <4>3
    <3> QED BY <2>5, <3>2, <3>3
  <2>8. w = b
    BY <2>3, <2>5, <2>6, <2>7, SeqEqual
  <2>9. 1 \in 1..Len(s)
    BY <2>1
  <2> QED BY <1>0, <2>1, <2>2, <2>8, <2>9 DEF a, b, w
<1> QED BY <1>1, <1>2 DEF q

LEMMA QueueIs ==
  ASSUME StreamTypes
  PROVE  OnTheWay \in Seq(EventSet) /\ Len(OnTheWay) \in Nat /\ DOMAIN OnTheWay = 1..Len(OnTheWay)
<1>1. stream \in Seq(EventSet) /\ sending \in Seq(EventSet)
  BY DEF StreamTypes
<1>2. stream \o sending \in Seq(EventSet)
  BY <1>1, ConcatProperties
<1> QED BY <1>2, LenProperties DEF OnTheWay

\* Text goes to the end of the queue.
LEMMA TextIsQueued ==
  ASSUME StreamTypes, NEW p \in Nat, p < reply.text, TextQueue(p), reader = "reading",
         OnTheWay' = OnTheWay \o <<Event("text", p + 1)>>, UNCHANGED <<reply, text>>
  PROVE  TextQueue(p + 1)'
<1>1. OnTheWay \in Seq(EventSet) /\ Len(OnTheWay) \in Nat /\ DOMAIN OnTheWay = 1..Len(OnTheWay)
      /\ reply.text \in Nat /\ Len(text) \in Nat
  BY QueueIs, LenProperties DEF StreamTypes, StreamTypeOK, ReplySet
<1>2. Event("text", p + 1) \in EventSet
  BY EventTypes
<1> DEFINE e == <<Event("text", p + 1)>>
<1>3. e \in Seq(EventSet) /\ Len(e) = 1 /\ e[1] = Event("text", p + 1)
  BY <1>2
<1> HIDE DEF e
<1>4. /\ OnTheWay' \in Seq(EventSet) /\ Len(OnTheWay') = Len(OnTheWay) + 1
      /\ DOMAIN OnTheWay' = 1..(Len(OnTheWay) + 1)
      /\ \A i \in 1..Len(OnTheWay) : OnTheWay'[i] = OnTheWay[i]
      /\ OnTheWay'[Len(OnTheWay) + 1] = Event("text", p + 1)
  <2>1. /\ OnTheWay \o e \in Seq(EventSet) /\ Len(OnTheWay \o e) = Len(OnTheWay) + Len(e)
        /\ DOMAIN (OnTheWay \o e) = 1..(Len(OnTheWay) + Len(e))
        /\ \A i \in 1..Len(OnTheWay) : (OnTheWay \o e)[i] = OnTheWay[i]
        /\ \A i \in 1..Len(e) : (OnTheWay \o e)[Len(OnTheWay) + i] = e[i]
    <3>1. JoinIs(OnTheWay, e, OnTheWay \o e, EventSet)
      BY <1>1, <1>3, Joined
    <3> QED BY <3>1 DEF JoinIs
  <2>2. OnTheWay' = OnTheWay \o e /\ 1 \in 1..Len(e)
    BY <1>3 DEF e
  <2> QED BY <1>3, <2>1, <2>2
<1>5. TextsDue(p) = p - Len(text) /\ TextsDue(p) = Len(OnTheWay) /\ p = Len(text) + Len(OnTheWay)
  BY <1>1 DEF TextQueue, TextsDue
<1>6. TextsDue(p + 1)' = Len(OnTheWay) + 1
  <2>1. TextsDue(p + 1)' = (IF p + 1 < reply.text THEN p + 1 ELSE reply.text) - Len(text)
    BY DEF TextsDue
  <2> QED BY <1>1, <1>5, <2>1
<1>7. ASSUME NEW i \in DOMAIN OnTheWay'
      PROVE  i <= Len(OnTheWay) + 1 /\ OnTheWay'[i] = Event("text", Len(text) + i)
  <2>1. CASE i \in 1..Len(OnTheWay)
    <3>1. OnTheWay[i] = Event("text", Len(text) + i)
      BY <1>1, <1>5, <2>1 DEF TextQueue
    <3> QED BY <1>1, <1>4, <2>1, <3>1
  <2>2. CASE i = Len(OnTheWay) + 1
    <3>1. Len(text) + i = p + 1
      BY <1>1, <1>5, <2>2
    <3> QED BY <1>1, <1>4, <2>2, <3>1
  <2> QED BY <1>1, <1>4, <2>1, <2>2
<1> QED BY <1>1, <1>4, <1>6, <1>7 DEF TextQueue

\* Other events do, once all text has.
LEMMA OthersAreQueued ==
  ASSUME StreamTypes, NEW p \in Nat, NEW q \in {p, p + 1}, TextQueue(p), NEW e \in Seq(EventSet),
         \A i \in DOMAIN e : e[i].type # "text", OnTheWay' = OnTheWay
           \o e, UNCHANGED <<reply, text>>,
         q = p \/ p >= reply.text, reader' = "reading" => q >= reply.text
  PROVE  TextQueue(q)'
<1>1. OnTheWay \in Seq(EventSet) /\ Len(OnTheWay) \in Nat /\ DOMAIN OnTheWay = 1..Len(OnTheWay)
      /\ reply.text \in Nat /\ Len(text) \in Nat /\ q \in Nat
  BY QueueIs, LenProperties DEF StreamTypes, StreamTypeOK, ReplySet
<1>2. /\ Len(OnTheWay') = Len(OnTheWay) + Len(e) /\ DOMAIN OnTheWay' = 1..(Len(OnTheWay) + Len(e))
      /\ Len(e) \in Nat
      /\ \A i \in 1..Len(OnTheWay) : OnTheWay'[i] = OnTheWay[i]
      /\ \A i \in 1..Len(e) : OnTheWay'[Len(OnTheWay) + i] = e[i]
      /\ \A i \in 1..(Len(OnTheWay) + Len(e)) :
           i \in 1..Len(OnTheWay) \/ \E j \in 1..Len(e) : i = Len(OnTheWay) + j
      /\ DOMAIN e = 1..Len(e)
  <2>1. JoinIs(OnTheWay, e, OnTheWay \o e, EventSet)
    BY <1>1, Joined
  <2> QED BY <2>1 DEF JoinIs
<1>3. TextsDue(q)' = TextsDue(p)
  <2>1. TextsDue(q)' = (IF q < reply.text THEN q ELSE reply.text) - Len(text)
    BY DEF TextsDue
  <2>2. (IF q < reply.text THEN q ELSE reply.text) = (IF p < reply.text THEN p ELSE reply.text)
    BY <1>1
  <2> QED BY <2>1, <2>2 DEF TextsDue
<1>4. TextsDue(p) \in 0..Len(OnTheWay)
  BY DEF TextQueue
<1>5. TextsDue(q)' \in 0..Len(OnTheWay')
  BY <1>1, <1>2, <1>3, <1>4
<1>6. ASSUME NEW i \in DOMAIN OnTheWay'
      PROVE  IF i <= TextsDue(p) THEN OnTheWay'[i] = Event("text", Len(text) + i)
             ELSE OnTheWay'[i].type # "text"
  <2>1. CASE i \in 1..Len(OnTheWay)
    BY <1>1, <1>2, <2>1 DEF TextQueue
  <2>2. ASSUME NEW j \in 1..Len(e), i = Len(OnTheWay) + j
        PROVE  ~ (i <= TextsDue(p)) /\ OnTheWay'[i].type # "text"
    <3>1. OnTheWay'[i] = e[j] /\ j \in DOMAIN e
      BY <1>2, <2>2
    <3>2. ASSUME NEW l \in Nat, NEW d \in 0..l, NEW k \in Nat \ {0} PROVE ~ (l + k <= d)
      OBVIOUS
    <3>3. ~ (i <= TextsDue(p))
      BY <1>1, <1>2, <1>4, <2>2, <3>2
    <3> QED BY <3>1, <3>3
  <2> QED BY <1>2, <2>1, <2>2
<1>7. ~ (reader' = "reading" /\ q < reply.text)
  BY <1>1
<1> QED BY <1>3, <1>5, <1>6, <1>7 DEF TextQueue

\* The events of calls.
LEMMA UsesAreQueued ==
  ASSUME StreamTypes, NEW p, NEW q, CallQueue(p), NEW e \in Seq(EventSet),
         OnTheWay' = OnTheWay \o e,
         UNCHANGED <<request, toolCalls>>,
         \A i \in DOMAIN e : \A c \in Nat : e[i] = ToolUse(c, "whole") =>
           /\ Emitted(q, c) /\ ~Emitted(p, c)
           /\ \A j \in DOMAIN e : e[j] = ToolUse(c, "whole") => i = j,
         \A c \in Nat : Emitted(q, c) /\ ~Emitted(p, c) =>
           \E i \in DOMAIN e : e[i] = ToolUse(c, "whole"),
         \A c \in Nat : Emitted(p, c) => Emitted(q, c)
  PROVE  CallQueue(q)'
<1>1. OnTheWay \in Seq(EventSet) /\ Len(OnTheWay) \in Nat /\ DOMAIN OnTheWay = 1..Len(OnTheWay)
  BY QueueIs
<1>2. /\ DOMAIN OnTheWay' = 1..(Len(OnTheWay) + Len(e)) /\ Len(e) \in Nat
      /\ \A i \in 1..Len(OnTheWay) : OnTheWay'[i] = OnTheWay[i]
      /\ \A i \in 1..Len(e) : OnTheWay'[Len(OnTheWay) + i] = e[i]
      /\ \A i \in 1..(Len(OnTheWay) + Len(e)) :
           i \in 1..Len(OnTheWay) \/ \E j \in 1..Len(e) : i = Len(OnTheWay) + j
      /\ DOMAIN e = 1..Len(e)
  <2>1. JoinIs(OnTheWay, e, OnTheWay \o e, EventSet)
    BY <1>1, Joined
  <2> QED BY <2>1 DEF JoinIs
<1>3. \A c : (Emitted(q, c)' <=> Emitted(q, c)) /\ (Assembled(c)' <=> Assembled(c))
  BY Unasked DEF Assembled
<1>4. \A i \in DOMAIN OnTheWay : i \in DOMAIN OnTheWay' /\ OnTheWay'[i] = OnTheWay[i]
  BY <1>1, <1>2
<1>5. \A i \in DOMAIN e : Len(OnTheWay) + i \in DOMAIN OnTheWay'
        /\ OnTheWay'[Len(OnTheWay) + i] = e[i]
  BY <1>1, <1>2
<1>6. ASSUME NEW i \in DOMAIN OnTheWay', NEW c \in Nat, OnTheWay'[i] = ToolUse(c, "whole")
      PROVE  /\ Emitted(q, c) /\ ~Assembled(c)
             /\ \A j \in DOMAIN OnTheWay' : OnTheWay'[j] = ToolUse(c, "whole") => i = j
  <2>1. CASE i \in 1..Len(OnTheWay)
    <3>1. Emitted(p, c) /\ ~Assembled(c)
            /\ \A j \in DOMAIN OnTheWay : OnTheWay[j] = ToolUse(c, "whole") => i = j
      BY <1>1, <1>2, <1>6, <2>1 DEF CallQueue
    <3>2. ASSUME NEW j \in 1..Len(e), OnTheWay'[Len(OnTheWay) + j] = ToolUse(c, "whole") PROVE FALSE
      BY <1>2, <3>1, <3>2
    <3>3. \A j \in DOMAIN OnTheWay' : OnTheWay'[j] = ToolUse(c, "whole") => i = j
      <4> SUFFICES ASSUME NEW j \in DOMAIN OnTheWay', OnTheWay'[j] = ToolUse(c, "whole") PROVE i = j
        OBVIOUS
      <4>1. CASE j \in 1..Len(OnTheWay)
        <5>1. j \in DOMAIN OnTheWay /\ OnTheWay'[j] = OnTheWay[j]
          BY <1>1, <1>2, <4>1
        <5> QED BY <3>1, <5>1
      <4>2. CASE \E h \in 1..Len(e) : j = Len(OnTheWay) + h
        BY <3>2, <4>2
      <4> QED BY <1>2, <4>1, <4>2
    <3>4. Emitted(q, c)
      BY <1>1, <3>1
    <3> QED BY ONLY <3>1, <3>3, <3>4
  <2>2. CASE \E h \in 1..Len(e) : i = Len(OnTheWay) + h
    <3>1. PICK h \in 1..Len(e) : i = Len(OnTheWay) + h
      BY <2>2
    <3>2. Emitted(q, c) /\ ~Emitted(p, c) /\ \A j \in DOMAIN e : e[j] = ToolUse(c, "whole") => h = j
      <4>1. e[h] = ToolUse(c, "whole") /\ h \in DOMAIN e
        BY <1>2, <1>6, <3>1
      <4> QED BY <4>1
    <3>3. ~Assembled(c)
      BY <3>2 DEF CallQueue
    <3>4. ASSUME NEW j \in 1..Len(OnTheWay), OnTheWay'[j] = ToolUse(c, "whole") PROVE FALSE
      BY <1>1, <1>2, <3>2, <3>4 DEF CallQueue
    <3>5. \A j \in DOMAIN OnTheWay' : OnTheWay'[j] = ToolUse(c, "whole") => i = j
      <4> SUFFICES ASSUME NEW j \in DOMAIN OnTheWay', OnTheWay'[j] = ToolUse(c, "whole") PROVE i = j
        OBVIOUS
      <4>1. CASE j \in 1..Len(OnTheWay)
        BY <3>4, <4>1
      <4>2. CASE \E k \in 1..Len(e) : j = Len(OnTheWay) + k
        <5>1. PICK k \in 1..Len(e) : j = Len(OnTheWay) + k
          BY <4>2
        <5>2. k \in DOMAIN e /\ e[k] = ToolUse(c, "whole")
          BY <1>2, <5>1
        <5> QED BY <3>1, <3>2, <5>1, <5>2
      <4> QED BY <1>2, <4>1, <4>2
    <3> QED BY ONLY <3>2, <3>3, <3>5
  <2> QED BY <1>2, <2>1, <2>2
<1>7. \A c \in Nat : Assembled(c) => Emitted(q, c)
  BY DEF CallQueue
<1>8. ASSUME NEW c \in Nat, Emitted(q, c)
      PROVE  Assembled(c) \/ \E i \in DOMAIN OnTheWay' : OnTheWay'[i] = ToolUse(c, "whole")
  <2>1. CASE Emitted(p, c)
    BY <1>4, <2>1 DEF CallQueue
  <2>2. CASE ~Emitted(p, c)
    BY <1>5, <1>8, <2>2
  <2> QED BY <2>1, <2>2
<1> QED BY <1>3, <1>6, <1>7, <1>8 DEF CallQueue

\* A use of a tool, or an end for want of one, is queued only as the reply says.
FitsReply(e) ==
  /\ e = Done("stop") => reply.calls = <<>>
  /\ e.type = "tool_use" => reply.calls # <<>>

LEMMA EndsAreTrue ==
  ASSUME NEW end, NEW p, EndQueue(end, p)
  PROVE  \A i \in DOMAIN OnTheWay : FitsReply(OnTheWay[i])
<1> HIDE DEF OnTheWay, Done
<1>1. \A i \in DOMAIN OnTheWay : /\ OnTheWay[i] = Done("stop") => reply.calls = <<>>
                                 /\ OnTheWay[i].type = "tool_use" => reply.calls # <<>>
  BY DEF EndQueue
<1>2. ASSUME NEW i \in DOMAIN OnTheWay
      PROVE  FitsReply(OnTheWay[i])
  <2>1. /\ OnTheWay[i] = Done("stop") => reply.calls = <<>>
        /\ OnTheWay[i].type = "tool_use" => reply.calls # <<>>
    BY <1>1
  <2> QED BY ONLY <2>1 DEF FitsReply
<1> QED BY <1>2

\* What the reader's end means to the queue's last part.
LEMMA EndIsQueued ==
  ASSUME StreamTypes, UNCHANGED <<request, finish, toolCalls, connection>>, NEW end, NEW p \in Nat,
         NEW q \in {p, p + 1}, EndQueue(end, p), NEW e \in Seq(EventSet), OnTheWay' = OnTheWay \o e,
         \A i \in DOMAIN e : /\ e[i] = Done("stop") => reply.calls = <<>>
                             /\ e[i].type = "tool_use" => reply.calls # <<>>,
         reader = "reading", reader' \in {"reading", "leaving"},
         reader' = "reading" /\ q > reply.text + NumCalls => end[1].kind # "error",
         reader' = "leaving" =>
           \/ (\E i \in DOMAIN e : e[i].type = "error") \/ Lost
           \/ q > reply.text + NumCalls /\ end[1].kind # "error"
  PROVE  EndQueue(end, q)'
<1>1. OnTheWay \in Seq(EventSet) /\ Len(OnTheWay) \in Nat /\ DOMAIN OnTheWay = 1..Len(OnTheWay)
  BY QueueIs
<1>2. /\ DOMAIN OnTheWay' = 1..(Len(OnTheWay) + Len(e)) /\ Len(e) \in Nat
      /\ \A i \in 1..Len(OnTheWay) : OnTheWay'[i] = OnTheWay[i]
      /\ \A i \in 1..Len(e) : OnTheWay'[Len(OnTheWay) + i] = e[i]
      /\ \A i \in 1..(Len(OnTheWay) + Len(e)) :
           i \in 1..Len(OnTheWay) \/ \E j \in 1..Len(e) : i = Len(OnTheWay) + j
      /\ DOMAIN e = 1..Len(e)
  <2>1. JoinIs(OnTheWay, e, OnTheWay \o e, EventSet)
    BY <1>1, Joined
  <2> QED BY <2>1 DEF JoinIs
<1>3. UNCHANGED <<vendor, reply, joint, consumer>> /\ NumCalls' = NumCalls
  BY Unasked
<1>4. \A i \in DOMAIN e : Len(OnTheWay) + i \in DOMAIN OnTheWay'
        /\ OnTheWay'[Len(OnTheWay) + i] = e[i]
  BY <1>1, <1>2
<1>5. ASSUME NEW i \in DOMAIN OnTheWay'
      PROVE  /\ OnTheWay'[i] = Done("stop") => reply.calls = <<>>
             /\ OnTheWay'[i].type = "tool_use" => reply.calls # <<>>
  <2>1. CASE i \in 1..Len(OnTheWay)
    <3>1. OnTheWay'[i] = OnTheWay[i] /\ i \in DOMAIN OnTheWay
      BY <1>1, <1>2, <2>1
    <3>3. FitsReply(OnTheWay[i])
      BY <3>1, EndsAreTrue
    <3>2. /\ OnTheWay[i] = Done("stop") => reply.calls = <<>>
          /\ OnTheWay[i].type = "tool_use" => reply.calls # <<>>
      BY ONLY <3>3 DEF FitsReply
    <3> QED BY ONLY <3>1, <3>2
  <2>2. ASSUME NEW j \in 1..Len(e), i = Len(OnTheWay) + j
        PROVE  /\ OnTheWay'[i] = Done("stop") => reply.calls = <<>>
               /\ OnTheWay'[i].type = "tool_use" => reply.calls # <<>>
    <3>1. OnTheWay'[i] = e[j] /\ j \in DOMAIN e
      BY <1>2, <2>2
    <3> QED BY <3>1
  <2> QED BY <1>2, <2>1, <2>2
<1>6. Lost' <=> Lost
  BY <1>3 DEF Lost
<1>7. reader' = "leaving" =>
        \/ (\E i \in DOMAIN OnTheWay' : OnTheWay'[i].type = "error") \/ Lost
        \/ q > reply.text + NumCalls /\ end[1].kind # "error"
  <2>1. (\E i \in DOMAIN e : e[i].type = "error")
          => \E i \in DOMAIN OnTheWay' : OnTheWay'[i].type = "error"
    BY <1>4
  <2> QED BY <2>1
<1>8. finish' = "stop" => reply.calls = <<>>
  BY DEF EndQueue
<1>9. toolCalls' # <<>> => reply.calls # <<>>
  BY DEF EndQueue
<1> QED BY <1>3, <1>5, <1>6, <1>7, <1>8, <1>9 DEF EndQueue

\* The queue is the same, and of the reader nothing that counts is new.
LEMMA QueueStays ==
  ASSUME StreamTypes, UNCHANGED <<request, text, toolCalls, finish, OnTheWay>>, NEW end, NEW p,
         QueueUpTo(end, p), reader' = reader \/ (reader = "leaving" /\ reader' = "closed"),
         reader' = "closed" => sending' = <<>>, Lost => Lost'
  PROVE  QueueUpTo(end, p)'
<1>1. /\ UNCHANGED <<vendor, reply, joint, consumer>> /\ NumCalls' = NumCalls
      /\ \A c : (Emitted(p, c)' <=> Emitted(p, c))
  BY Unasked
<1>2. TextQueue(p)'
  BY <1>1 DEF QueueUpTo, TextQueue, TextsDue
<1>3. CallQueue(p)'
  BY <1>1 DEF QueueUpTo, CallQueue, Assembled
<1>4. EndQueue(end, p)'
  BY <1>1 DEF QueueUpTo, EndQueue
<1> QED BY <1>2, <1>3, <1>4 DEF QueueUpTo

\* What stays when nothing has been read.
LEMMA ReadStays ==
  ASSUME StreamTypes, UNCHANGED <<request, wire, connection, partial>>, NEW end, NEW p,
         ReadUpTo(end, p)
  PROVE  ReadUpTo(end, p)'
<1>1. /\ UNCHANGED <<vendor, reply, joint, consumer>> /\ NumCalls' = NumCalls
      /\ WholeWire(end)' = WholeWire(end) /\ (IsEnding(end)' <=> IsEnding(end))
      /\ \A c, n : CallRead(p, c, n)' <=> CallRead(p, c, n)
  BY Unasked
<1>2. WireAt(end, p)'
  BY <1>1 DEF ReadUpTo, WireAt
<1>3. PartialAt(p)'
  BY <1>1 DEF ReadUpTo, PartialAt, OwnFragments, StrangeFragments
<1> QED BY <1>1, <1>2, <1>3 DEF ReadUpTo

\* The chunk at the head of the wire.
LEMMA NextChunk ==
  ASSUME StreamTypes, NEW end, NEW p, ReadUpTo(end, p), wire # <<>>
  PROVE  /\ p \in Nat /\ p < Len(WholeWire(end)) /\ Head(wire) = WholeWire(end)[p + 1]
         /\ Tail(wire) \in Seq(ChunkSet)
         /\ UNCHANGED <<request, connection>> /\ wire' = Tail(wire) => WireAt(end, p + 1)'
<1>1. /\ Len(wire) \in Nat \ {0} /\ DOMAIN wire = 1..Len(wire) /\ Head(wire) = wire[1]
      /\ Tail(wire) \in Seq(ChunkSet) /\ Len(Tail(wire)) = Len(wire) - 1
      /\ DOMAIN Tail(wire) = 1..(Len(wire) - 1)
      /\ \A i \in 1..(Len(wire) - 1) : Tail(wire)[i] = wire[i + 1]
  BY Behead DEF StreamTypes
<1>2. WholeWire(end) \in Seq(ChunkSet) /\ Len(WholeWire(end)) \in Nat
  <2>1. reply \in ReplySet /\ IsEnding(end)
    BY DEF StreamTypes, ReadUpTo
  <2> QED BY <2>1, FullIs, LenProperties
<1>3. p \in Nat /\ p < Len(WholeWire(end)) /\ Len(wire) = Len(WholeWire(end)) - p
  BY <1>1, <1>2 DEF ReadUpTo, WireAt
<1>4. \A i \in 1..Len(wire) : wire[i] = WholeWire(end)[p + i]
  BY <1>1 DEF ReadUpTo, WireAt
<1>5. Head(wire) = WholeWire(end)[p + 1]
  <2>1. 1 \in 1..Len(wire)
    BY <1>1
  <2> QED BY <1>1, <1>4, <2>1
<1>6. ASSUME UNCHANGED <<request, connection>>, wire' = Tail(wire) PROVE WireAt(end, p + 1)'
  <2>1. WholeWire(end)' = WholeWire(end)
    BY <1>6, Unasked
  <2>2. ASSUME NEW i \in DOMAIN wire' PROVE wire'[i] = WholeWire(end)[(p + 1) + i]
    <3>1. wire'[i] = wire[i + 1] /\ i + 1 \in 1..Len(wire) /\ p + (i + 1) = (p + 1) + i
      <4>1. i \in 1..(Len(wire) - 1)
        BY <1>1, <1>6
      <4>2. wire'[i] = wire[i + 1]
        BY <1>1, <1>6, <4>1
      <4>3. i + 1 \in 1..Len(wire) /\ p + (i + 1) = (p + 1) + i
        BY <1>1, <1>3, <4>1
      <4> QED BY <4>2, <4>3
    <3>2. wire[i + 1] = WholeWire(end)[p + (i + 1)]
      BY <1>4, <3>1
    <3> QED BY <3>1, <3>2
  <2>3. p + 1 \in 0..Len(WholeWire(end)) /\ Len(wire') = Len(WholeWire(end)) - (p + 1)
    BY <1>1, <1>2, <1>3, <1>6
  <2> QED BY <2>1, <2>2, <2>3 DEF WireAt
<1> QED BY <1>1, <1>3, <1>5, <1>6

-----------------------------------------------------------------------------
(* The steps *)

LEMMA StreamBegins ==
  StreamInit => StreamInv
<1> SUFFICES ASSUME StreamInit PROVE StreamInv
  OBVIOUS
<1>1. \A S : <<>> \in Seq(S)
  OBVIOUS
<1>2. reply \in ReplySet /\ reply.calls = <<>> /\ reply.text = 0
  <2>1. reply = [text |-> 0, calls |-> <<>>] /\ <<>> \in Seq(Nat \ {0})
    BY <1>1 DEF StreamInit
  <2> QED BY <2>1 DEF ReplySet
<1>3. DOMAIN <<>> = {} /\ Len(<<>>) = 0
  OBVIOUS
<1>4. StreamTypeOK
  <2>1. stream = <<>> /\ partial = <<>> /\ text = <<>> /\ reply.calls = <<>>
    BY <1>2 DEF StreamInit
  <2>2. Len(stream) <= StreamCap
    BY <1>3, <2>1, StreamConfig
  <2>3. text \in Seq(Nat)
    BY <1>1, <2>1
  <2> QED BY <2>1, <2>2, <2>3 DEF StreamInit, StreamTypeOK
<1>5. StreamTypes
  <2>1. partial \in [DOMAIN reply.calls -> Seq(Nat \X Nat)]
    <3>1. partial = <<>> /\ reply.calls = <<>>
      BY <1>2 DEF StreamInit
    <3>2. <<>> \in [DOMAIN <<>> -> Seq(Nat \X Nat)]
      OBVIOUS
    <3> QED BY <3>1, <3>2
  <2>2. wire \in Seq(ChunkSet) /\ stream \in Seq(EventSet) /\ sending \in Seq(EventSet)
    BY <1>1 DEF StreamInit
  <2>3. toolCalls \in Seq(Nat \X {"whole", "nil"})
    BY <1>1 DEF StreamInit
  <2> QED BY <1>2, <1>4, <2>1, <2>2, <2>3 DEF StreamTypes, StreamInit
<1>6. TextSoFar
  <2>1. Len(text) = 0 /\ text = <<>> /\ reply.text = 0
    BY <1>2, <1>3 DEF StreamInit
  <2>2. <<>> = [i \in 1..0 |-> i]
    OBVIOUS
  <2> QED BY <2>1, <2>2 DEF TextSoFar
<1>7. CallsSoFar
  BY <1>3 DEF StreamInit, CallsSoFar
<1> QED BY <1>5, <1>6, <1>7 DEF StreamInv, StreamInit

\* A stream that has just been opened.
Opened(end) ==
  /\ vendor \in Vendors /\ consumer \in {"collect", "turn"} /\ reply \in Replies
  /\ (vendor \in WithoutTools => reply.calls = <<>>) /\ joint \in BOOLEAN
  /\ joint => vendor = "openaicompat"
  /\ partial = [c \in DOMAIN reply.calls |-> <<>>]
  /\ sending = <<>> /\ stream = <<>> /\ text = <<>> /\ toolCalls = <<>> /\ finish = "none"
  /\ ctx \in {"live", "cancelled"}
  /\ end \in Endings(vendor, joint)
  /\ \/ /\ connection = "open" /\ reader = "reading" /\ outcome = "reading" /\ wire = WholeWire(end)
     \/ /\ connection = "refused" /\ wire = <<>>
        /\ \/ vendor = "ollama" /\ reader = "reading" /\ outcome = "reading"
           \/ reader = "idle" /\ outcome = "error"

LEMMA OpenedIs ==
  ASSUME NEW end, Opened(end) PROVE StreamInv
<1>1. \A S : <<>> \in Seq(S)
  OBVIOUS
<1>2. DOMAIN <<>> = {} /\ Len(<<>>) = 0
  OBVIOUS
<1>3. reply \in ReplySet /\ reply.calls \in Seq(Nat \ {0}) /\ reply.text \in Nat
  BY StreamConfig DEF Opened, ReplySet
<1>4. IsEnding(end)
  BY EndingsEnd DEF Opened
<1>5. WholeWire(end) \in Seq(ChunkSet) /\ Len(WholeWire(end)) \in Nat /\ NumCalls \in Nat
  BY <1>3, <1>4, FullIs, LenProperties
<1>6. partial \in [DOMAIN reply.calls -> Seq(Nat \X Nat)] /\ DOMAIN partial = DOMAIN reply.calls
      /\ \A c \in DOMAIN partial : partial[c] = <<>>
  <2>1. partial = [c \in DOMAIN reply.calls |-> <<>>]
    BY DEF Opened
  <2>2. <<>> \in Seq(Nat \X Nat)
    BY <1>1
  <2> QED BY <2>1, <2>2
<1>7. StreamTypeOK
  <2>1. stream = <<>> /\ text = <<>>
    BY DEF Opened
  <2>2. Len(stream) <= StreamCap
    BY <1>2, <2>1, StreamConfig
  <2>3. text \in Seq(Nat)
    BY <1>1, <2>1
  <2> QED BY <1>6, <2>2, <2>3 DEF Opened, StreamTypeOK
<1>8. StreamTypes
  <2>1. wire \in Seq(ChunkSet)
    <3>1. wire = <<>> \/ wire = WholeWire(end)
      BY DEF Opened
    <3> QED BY <1>1, <1>5, <3>1
  <2>2. stream \in Seq(EventSet) /\ sending \in Seq(EventSet)
    BY <1>1 DEF Opened
  <2>3. toolCalls \in Seq(Nat \X {"whole", "nil"})
    BY <1>1 DEF Opened
  <2> QED BY <1>3, <1>6, <1>7, <2>1, <2>2, <2>3 DEF StreamTypes, Opened
<1>9. TextSoFar /\ Len(text) = 0
  <2>1. Len(text) = 0 /\ text = <<>>
    BY <1>2 DEF Opened
  <2>2. <<>> = [i \in 1..0 |-> i]
    OBVIOUS
  <2> QED BY <1>3, <2>1, <2>2 DEF TextSoFar
<1>10. CallsSoFar
  BY <1>2 DEF Opened, CallsSoFar
<1>11. \A c, n : ~CallRead(0, c, n)
  BY <1>3, <1>5 DEF CallRead
<1>12. ReadUpTo(end, 0)
  <2>1. WireAt(end, 0)
    <3>1. CASE wire = <<>>
      <4>1. Len(wire) = 0 /\ DOMAIN wire = {} /\ (connection = "open" => wire = WholeWire(end))
        BY <1>2, <3>1 DEF Opened
      <4>2. connection = "open" => Len(wire) = Len(WholeWire(end)) - 0
        BY <1>5, <4>1
      <4> QED BY <1>5, <3>1, <4>1, <4>2 DEF WireAt
    <3>2. CASE wire = WholeWire(end)
      <4>1. DOMAIN wire = 1..Len(WholeWire(end))
        BY <1>5, <3>2, LenProperties
      <4>2. \A i \in DOMAIN wire : wire[i] = WholeWire(end)[0 + i]
        BY <1>5, <3>2, <4>1
      <4>3. Len(wire) = Len(WholeWire(end)) - 0 /\ 0 \in 0..Len(WholeWire(end))
        BY <1>5, <3>2
      <4> QED BY <4>2, <4>3 DEF WireAt
    <3> QED BY <3>1, <3>2 DEF Opened
  <2>2. ASSUME NEW c \in DOMAIN partial PROVE OwnFragments(0, c)
    <3>1. Len(partial[c]) = 0 /\ partial[c] = <<>>
      BY <1>2, <1>6
    <3>2. <<>> = [n \in 1..0 |-> <<c, n>>]
      OBVIOUS
    <3>3. reply.calls[c] \in Nat
      BY <1>3, <1>6, ElementOfSeq, LenProperties
    <3>4. \A n \in 1..reply.calls[c] : ~ (n <= 0)
      BY <3>3
    <3> QED BY <1>11, <3>1, <3>2, <3>3, <3>4 DEF OwnFragments
  <2>3. ASSUME NEW c \in DOMAIN partial PROVE StrangeFragments(0, c)
    BY <1>11 DEF StrangeFragments
  <2> QED BY <1>4, <2>1, <2>2, <2>3 DEF ReadUpTo, PartialAt
<1>13. OnTheWay = <<>> /\ DOMAIN OnTheWay = {} /\ Len(OnTheWay) = 0
  <2>1. OnTheWay = <<>>
    BY DEF OnTheWay, Opened
  <2> QED BY <1>2, <2>1
<1>14. ASSUME outcome = "reading" PROVE QueueUpTo(end, 0)
  <2>1. TextQueue(0)
    <3>1. TextsDue(0) = 0
      BY <1>3, <1>9 DEF TextsDue
    <3> QED BY <1>13, <3>1 DEF TextQueue
  <2>2. \A c : ~Emitted(0, c)
    <3>1. ~ (0 > reply.text + NumCalls)
      BY <1>3, <1>5
    <3> QED BY <1>11, <3>1 DEF Emitted
  <2>3. \A c : ~Assembled(c)
    <3>1. toolCalls = <<>> /\ ToSet(<<>>) = {}
      BY <1>2 DEF Opened, ToSet
    <3> QED BY <3>1 DEF Assembled
  <2>4. CallQueue(0)
    BY <1>13, <2>2, <2>3 DEF CallQueue
  <2>5. EndQueue(end, 0)
    <3>1. ~ (0 > reply.text + NumCalls)
      BY <1>3, <1>5
    <3>2. reader = "reading" /\ finish = "none" /\ toolCalls = <<>>
      BY <1>14 DEF Opened
    <3> QED BY <1>13, <3>1, <3>2 DEF EndQueue
  <2> QED BY <2>1, <2>4, <2>5 DEF QueueUpTo
<1>15. reader # "idle" => ReaderInv
  BY <1>12, <1>14 DEF ReaderInv
<1> QED BY <1>8, <1>9, <1>10, <1>15 DEF StreamInv, Opened

\* A reply in one piece.
RepliedTo ==
  /\ vendor \in Vendors \union {"vertex"} /\ consumer = "complete" /\ joint = FALSE
  /\ reply \in Replies /\ (vendor \in WithoutTools => reply.calls = <<>>)
  /\ partial = [c \in DOMAIN reply.calls |-> <<>>]
  /\ wire = <<>> /\ sending = <<>> /\ stream = <<>> /\ reader = "idle"
  /\ ctx \in {"live", "cancelled"}
  /\ \/ /\ outcome = "reply" /\ connection = "open" /\ text = Said(reply)
        /\ \/ toolCalls = Whole(reply) /\ (finish = "stop" => reply.calls = <<>>)
           \/ toolCalls = <<>> /\ reply.calls = <<>>
     \/ /\ connection \in {"cut", "broken", "refused"} /\ text = <<>> /\ toolCalls = <<>>
        /\ outcome = "error" \/ (outcome = "reply" /\ vendor = "ollama" /\ connection = "refused")

LEMMA AnsweredIs ==
  RepliedTo => StreamInv
<1> SUFFICES ASSUME RepliedTo PROVE StreamInv
  OBVIOUS
<1>1. \A S : <<>> \in Seq(S)
  OBVIOUS
<1>2. DOMAIN <<>> = {} /\ Len(<<>>) = 0
  OBVIOUS
<1>3. reply \in ReplySet /\ reply.calls \in Seq(Nat \ {0}) /\ reply.text \in Nat
  BY StreamConfig DEF RepliedTo, ReplySet
<1>4. DOMAIN reply.calls = 1..Len(reply.calls) /\ Len(reply.calls) \in Nat
  BY <1>3, LenProperties
<1>5. /\ text \in Seq(Nat) /\ TextSoFar
      /\ text = Said(reply) => Len(text) = reply.text
  <2>1. CASE text = <<>>
    <3>1. Len(text) = 0 /\ text \in Seq(Nat)
      BY <1>1, <1>2, <2>1
    <3>2. <<>> = [i \in 1..0 |-> i]
      OBVIOUS
    <3>3. text = Said(reply) => reply.text = 0
      <4>1. DOMAIN Said(reply) = 1..reply.text
        BY DEF Said
      <4>2. Said(reply) = <<>> => 1..reply.text = {}
        BY <1>2, <4>1
      <4> QED BY <1>3, <2>1, <4>2
    <3> QED BY <1>3, <2>1, <3>1, <3>2, <3>3 DEF TextSoFar
  <2>2. CASE text = Said(reply)
    <3>1. text = [i \in 1..reply.text |-> i]
      BY <2>2 DEF Said
    <3>2. text \in [1..reply.text -> Nat]
      BY <1>3, <3>1
    <3>3. text \in Seq(Nat) /\ Len(text) = reply.text
      <4>1. text \in Seq(Nat) /\ DOMAIN text = 1..reply.text
        BY <1>3, <3>2, SeqDef
      <4> QED BY <1>3, <4>1, LenProperties
    <3> QED BY <1>3, <3>1, <3>3 DEF TextSoFar
  <2> QED BY <2>1, <2>2 DEF RepliedTo
<1>6. Kept(vendor, reply) = DOMAIN reply.calls
  <2>1. consumer = "complete"
    BY DEF RepliedTo
  <2> QED BY <2>1 DEF Kept
<1>7. /\ toolCalls \in Seq(Nat \X {"whole", "nil"}) /\ CallsSoFar
      /\ outcome = "reply"
           => Lost \/ \A c \in Kept(vendor, reply) : <<c, "whole">> \in ToSet(toolCalls)
  <2>1. CASE toolCalls = <<>>
    <3>1. toolCalls \in Seq(Nat \X {"whole", "nil"})
      BY <1>1, <2>1
    <3>2. CallsSoFar
      BY <1>2, <2>1 DEF CallsSoFar
    <3>3. toolCalls = Whole(reply) => DOMAIN reply.calls = {}
      <4>1. DOMAIN Whole(reply) = DOMAIN reply.calls
        BY DEF Whole
      <4> QED BY <1>2, <2>1, <4>1
    <3>4. reply.calls = <<>> => DOMAIN reply.calls = {}
      BY <1>2
    <3> QED BY <1>6, <3>1, <3>2, <3>3, <3>4 DEF RepliedTo, Lost
  <2>2. CASE toolCalls = Whole(reply)
    <3>1. toolCalls = [c \in 1..Len(reply.calls) |-> <<c, "whole">>]
      BY <1>4, <2>2 DEF Whole
    <3>2. DOMAIN toolCalls = 1..Len(reply.calls)
          /\ \A c \in 1..Len(reply.calls) : toolCalls[c] = <<c, "whole">>
               /\ toolCalls[c] \in Nat \X {"whole", "nil"}
      BY <1>4, <3>1
    <3>3. toolCalls \in Seq(Nat \X {"whole", "nil"})
      <4> DEFINE S == Nat \X {"whole", "nil"}
      <4>1. toolCalls = [c \in 1..Len(reply.calls) |-> toolCalls[c]]
        BY <3>1, <3>2
      <4>2. \A c \in 1..Len(reply.calls) : toolCalls[c] \in S
        BY <3>2
      <4> HIDE DEF S
      <4>3. toolCalls \in [1..Len(reply.calls) -> S]
        BY <4>1, <4>2
      <4>4. toolCalls \in Seq(S)
        BY <1>4, <4>3, SeqDef
      <4> QED BY <4>4 DEF S
    <3>4. \A c \in Kept(vendor, reply) : <<c, "whole">> \in ToSet(toolCalls)
      BY <1>4, <1>6, <3>2 DEF ToSet
    <3>5. CallsSoFar
      <4>1. ASSUME NEW i \in DOMAIN toolCalls, NEW j \in DOMAIN toolCalls
            PROVE  toolCalls[i][1] \in Kept(vendor, reply) /\ (toolCalls[i] = toolCalls[j] => i = j)
        <5>1. toolCalls[i] = <<i, "whole">> /\ toolCalls[j] = <<j, "whole">>
          BY <3>2
        <5>2. <<i, "whole">> = <<j, "whole">> => i = j
          OBVIOUS
        <5> QED BY <1>4, <1>6, <3>2, <5>1, <5>2
      <4> QED BY <4>1 DEF CallsSoFar
    <3> QED BY <3>3, <3>4, <3>5
  <2> QED BY <2>1, <2>2 DEF RepliedTo
<1>8. partial \in [DOMAIN reply.calls -> Seq(Nat \X Nat)] /\ DOMAIN partial = DOMAIN reply.calls
  <2>1. partial = [c \in DOMAIN reply.calls |-> <<>>]
    BY DEF RepliedTo
  <2>2. <<>> \in Seq(Nat \X Nat)
    BY <1>1
  <2> QED BY <2>1, <2>2
<1>9. StreamTypeOK
  <2>1. Len(stream) <= StreamCap
    <3>1. stream = <<>>
      BY DEF RepliedTo
    <3> QED BY <1>2, <3>1, StreamConfig
  <2> QED BY <1>5, <1>8, <2>1 DEF RepliedTo, StreamTypeOK
<1>10. StreamTypes
  <2>1. wire \in Seq(ChunkSet) /\ stream \in Seq(EventSet) /\ sending \in Seq(EventSet)
    BY <1>1 DEF RepliedTo
  <2> QED BY <1>3, <1>7, <1>8, <1>9, <2>1 DEF StreamTypes, RepliedTo
<1>11. outcome = "reply" => Lost \/ ReplyIsWhole
  <2>1. finish = "stop" /\ toolCalls = Whole(reply) /\ reply.calls = <<>> => toolCalls = <<>>
    <3>1. reply.calls = <<>> => Whole(reply) = <<>>
      BY <1>2 DEF Whole
    <3> QED BY <3>1
  <2> QED BY <1>5, <1>7, <2>1 DEF RepliedTo, Lost, ReplyIsWhole
<1> QED BY <1>5, <1>7, <1>10, <1>11 DEF StreamInv, RepliedTo

LEMMA OpenStep ==
  ASSUME StreamInv, OpenStream PROVE StreamInv'
<1>1. Endings("ollama", FALSE) # {}
  BY DEF Endings
<1>2. /\ sending = <<>> /\ stream = <<>> /\ text = <<>> /\ toolCalls = <<>> /\ finish = "none"
      /\ ctx \in {"live", "cancelled"}
  BY DEF StreamInv, StreamTypes, StreamTypeOK, OpenStream
<1>3. /\ vendor' \in Vendors /\ consumer' \in {"collect", "turn"} /\ reply' \in Replies
      /\ (vendor' \in WithoutTools => reply'.calls = <<>>) /\ joint' \in BOOLEAN
      /\ joint' => vendor' = "openaicompat"
      /\ partial' = [c \in DOMAIN reply'.calls |-> <<>>]
      /\ reader = "idle" /\ outcome = "reading"
      /\ UNCHANGED <<ctx, sending, stream, text, toolCalls, finish>>
  BY DEF OpenStream
<1>4. Endings(vendor', joint') # {}
  BY <1>3 DEF Endings, Vendors
<1>5. CASE connection' = "open" /\ reader' = "reading" /\ UNCHANGED outcome
           /\ \E end \in Endings(vendor', joint') :
                wire' = TextChunks(reply') \o CallChunks(reply') \o end
  <2>1. PICK end \in Endings(vendor', joint') : wire' = TextChunks(reply') \o CallChunks(reply')
          \o end
    BY <1>5
  <2>2. wire' = WholeWire(end)'
    BY <2>1 DEF WholeWire
  <2>3. Opened(end)'
    BY <1>2, <1>3, <1>5, <2>1, <2>2 DEF Opened
  <2>4. (Opened(end) => StreamInv)'
    <3>1. Opened(end) => StreamInv
      BY OpenedIs
    <3> QED BY OpenedIs, PTL
  <2> QED BY <2>3, <2>4
<1>6. CASE /\ connection' = "refused" /\ wire' = <<>>
           /\ IF vendor' = "ollama" THEN reader' = "reading" /\ UNCHANGED outcome
              ELSE outcome' = "error" /\ UNCHANGED reader
  <2>1. PICK end : end \in Endings(vendor', joint')
    BY <1>4
  <2>2. Opened(end)'
    BY <1>2, <1>3, <1>6, <2>1 DEF Opened
  <2>3. (Opened(end) => StreamInv)'
    BY OpenedIs, PTL
  <2> QED BY <2>2, <2>3
<1> QED BY <1>5, <1>6 DEF OpenStream

LEMMA CompleteStep ==
  ASSUME StreamInv, Complete PROVE StreamInv'
<1>1. /\ text = <<>> /\ toolCalls = <<>> /\ wire = <<>> /\ sending = <<>> /\ stream = <<>>
      /\ ctx \in {"live", "cancelled"}
  BY DEF StreamInv, StreamTypes, StreamTypeOK, Complete
<1>2. /\ vendor' \in Vendors \union {"vertex"} /\ consumer' = "complete" /\ joint' = FALSE
      /\ reply' \in Replies /\ (vendor' \in WithoutTools => reply'.calls = <<>>)
      /\ partial' = [c \in DOMAIN reply'.calls |-> <<>>]
      /\ UNCHANGED <<wire, ctx, sending, reader, stream>> /\ reader = "idle"
  BY DEF Complete
<1>4. RepliedTo' => StreamInv'
  <2>1. (RepliedTo => StreamInv)'
    BY AnsweredIs, PTL
  <2> QED BY <2>1
<1>3. CASE /\ outcome' = "reply" /\ connection' = "open"
           /\ LET r == Completed(vendor', reply') IN
              text' = r.text /\ toolCalls' = r.calls /\ finish' = r.finish
  <2>1. /\ text' = Said(reply')
        /\ \/ toolCalls' = Whole(reply') /\ (finish' = "stop" => reply'.calls = <<>>)
           \/ toolCalls' = <<>> /\ vendor' \in WithoutTools
    BY <1>2, <1>3 DEF Completed, Vendors, OpenAIResponse, CompatResponse, AnthropicResponse,
       BedrockResponse, OllamaResponse, VertexResponse, Response, Reason, WithoutTools
  <2>2. RepliedTo'
    <3>1. /\ outcome' = "reply" /\ connection' = "open" /\ text' = Said(reply')
          /\ \/ toolCalls' = Whole(reply') /\ (finish' = "stop" => reply'.calls = <<>>)
             \/ toolCalls' = <<>> /\ reply'.calls = <<>>
      BY <1>2, <1>3, <2>1
    <3> QED BY <1>1, <1>2, <3>1 DEF RepliedTo, Said, Whole
  <2> QED BY <1>4, <2>2
<1>5. CASE /\ connection' \in {"cut", "broken", "refused"}
           /\ outcome' = IF vendor' = "ollama" /\ connection' = "refused" THEN "reply" ELSE "error"
           /\ UNCHANGED <<text, toolCalls, finish>>
  <2>1. RepliedTo'
    BY <1>1, <1>2, <1>5 DEF RepliedTo
  <2> QED BY <1>4, <2>1
<1> QED BY <1>3, <1>5 DEF Complete

\* Steps that leave the consumer's side alone need only this.
LEMMA ReaderSide ==
  ASSUME StreamInv, UNCHANGED <<request, assembled>>, StreamTypes', reader # "idle",
         reader' # "idle",
         ReaderInv', Lost => Lost'
  PROVE  StreamInv'
<1>1. /\ UNCHANGED <<vendor, reply, joint, consumer>> /\ Kept(vendor, reply)' = Kept(vendor, reply)
      /\ UNCHANGED <<outcome, text, toolCalls, finish>>
  BY Unasked DEF assembled
<1>2. TextSoFar' /\ CallsSoFar'
  BY <1>1 DEF StreamInv, TextSoFar, CallsSoFar
<1>3. outcome' = "reply" => Lost' \/ ReplyIsWhole'
  BY <1>1 DEF StreamInv, ReplyIsWhole
<1> QED BY <1>2, <1>3 DEF StreamInv

LEMMA DisconnectStep ==
  ASSUME StreamInv, Disconnect PROVE StreamInv'
<1>1. /\ UNCHANGED <<request, ctx, partial, sending, reader, stream, assembled>>
           /\ connection = "open"
      /\ connection' \in {"cut", "broken", "failed"} /\ wire' = <<>> /\ wire # <<>>
      /\ UNCHANGED <<vendor, reply, joint, consumer>>
           /\ UNCHANGED <<outcome, text, toolCalls, finish>>
  BY DEF Disconnect, request, assembled
<1>2. reader # "idle"
  BY <1>1 DEF StreamInv
<1>3. Lost => Lost'
  BY <1>1 DEF Lost
<1>4. StreamTypes'
  <2>1. wire' \in Seq(ChunkSet)
    BY <1>1
  <2>2. StreamTypeOK'
    BY <1>1 DEF StreamInv, StreamTypes, StreamTypeOK
  <2> QED BY <1>1, <2>1, <2>2 DEF StreamInv, StreamTypes
<1>5. ReaderInv'
  <2>1. PICK end, p : ReadUpTo(end, p) /\ (outcome = "reading" => QueueUpTo(end, p))
    BY <1>2 DEF StreamInv, ReaderInv
  <2>2. /\ WholeWire(end)' = WholeWire(end) /\ (IsEnding(end)' <=> IsEnding(end))
        /\ \A c, n : CallRead(p, c, n)' <=> CallRead(p, c, n)
    BY <1>1, Unasked
  <2>3. PartialAt(p)'
    BY <1>1, <2>1, <2>2 DEF ReadUpTo, PartialAt, OwnFragments, StrangeFragments
  <2>4. DOMAIN wire' = {}
    BY <1>1
  <2>5. WireAt(end, p)'
    BY <1>1, <2>1, <2>2, <2>4 DEF ReadUpTo, WireAt
  <2>6. ReadUpTo(end, p)'
    BY <2>1, <2>2, <2>3, <2>5 DEF ReadUpTo
  <2>7. outcome' = "reading" => QueueUpTo(end, p)'
    <3>1. OnTheWay' = OnTheWay
      BY <1>1 DEF OnTheWay
    <3>2. StreamTypes
      BY DEF StreamInv
    <3>3. reader' = "closed" /\ outcome = "reading" => sending' = <<>>
      BY <1>1, <2>1 DEF QueueUpTo, EndQueue
    <3> QED BY <1>1, <1>3, <2>1, <3>1, <3>2, <3>3, QueueStays
  <2> QED BY <2>6, <2>7 DEF ReaderInv
<1> QED BY <1>1, <1>2, <1>3, <1>4, <1>5, ReaderSide

\* The steps that read nothing, and send to the channel at most what waits to be sent.
LEMMA IdleStep ==
  ASSUME StreamInv, UNCHANGED <<request, wire, connection, partial, assembled, OnTheWay>>,
         ctx' \in {"live", "cancelled"}, reader # "idle",
         stream' \in Seq(EventSet), sending' \in Seq(EventSet), Len(stream') <= StreamCap,
         \/ reader' = reader /\ (sending = <<>> => sending' = <<>>)
         \/ reader = "leaving" /\ reader' = "closed" /\ sending' = <<>>
  PROVE  StreamInv'
<1>1. /\ UNCHANGED <<vendor, reply, joint, consumer>>
           /\ UNCHANGED <<outcome, text, toolCalls, finish>>
  BY DEF request, assembled
<1>2. reader' \in {"reading", "leaving", "closed"}
  BY DEF StreamInv, StreamTypes, StreamTypeOK
<1>3. Lost => Lost'
  BY <1>1 DEF Lost
<1>4. StreamTypes'
  <2>1. StreamTypeOK'
    BY <1>1, <1>2 DEF StreamInv, StreamTypes, StreamTypeOK
  <2> QED BY <1>1, <1>2, <2>1 DEF StreamInv, StreamTypes
<1>5. ReaderInv'
  <2>1. PICK end, p : ReadUpTo(end, p) /\ (outcome = "reading" => QueueUpTo(end, p))
    BY DEF StreamInv, ReaderInv
  <2>2. StreamTypes
    BY DEF StreamInv
  <2>3. ReadUpTo(end, p)'
    BY <2>1, <2>2, ReadStays
  <2>4. outcome' = "reading" => QueueUpTo(end, p)'
    <3>1. outcome = "reading" /\ reader = "closed" => sending = <<>>
      BY <2>1 DEF QueueUpTo, EndQueue
    <3>2. outcome = "reading" /\ reader' = "closed" => sending' = <<>>
      BY <3>1
    <3> QED BY <1>1, <1>3, <2>1, <2>2, <3>2, QueueStays
  <2> QED BY <2>3, <2>4 DEF ReaderInv
<1> QED BY <1>2, <1>3, <1>4, <1>5, ReaderSide

LEMMA CancelStep ==
  ASSUME StreamInv, Cancel PROVE StreamInv'
<1>1. /\ UNCHANGED <<request, wire, connection, partial, sending, reader, stream, assembled>>
      /\ ctx' = "cancelled" /\ reader = "reading"
  BY DEF Cancel
<1>2. OnTheWay' = OnTheWay
  BY <1>1 DEF OnTheWay
<1>3. stream \in Seq(EventSet) /\ sending \in Seq(EventSet) /\ Len(stream) <= StreamCap
  BY DEF StreamInv, StreamTypes, StreamTypeOK
<1>4. UNCHANGED <<request, wire, connection, partial, assembled, OnTheWay>>
  BY <1>1, <1>2
<1>5. stream' \in Seq(EventSet) /\ sending' \in Seq(EventSet) /\ Len(stream') <= StreamCap
  BY <1>1, <1>3
<1>6. ctx' \in {"live", "cancelled"} /\ reader # "idle" /\ reader' = reader
      /\ (sending = <<>> => sending' = <<>>)
  BY <1>1
<1> QED BY <1>4, <1>5, <1>6, IdleStep

LEMMA CloseStep ==
  ASSUME StreamInv, CloseStream PROVE StreamInv'
<1>1. /\ UNCHANGED <<request, wire, connection, ctx, partial, sending, stream, assembled>>
      /\ reader = "leaving" /\ reader' = "closed" /\ sending = <<>>
  BY DEF CloseStream
<1>2. OnTheWay' = OnTheWay
  BY <1>1 DEF OnTheWay
<1>3. stream \in Seq(EventSet) /\ sending \in Seq(EventSet) /\ Len(stream) <= StreamCap
      /\ ctx \in {"live", "cancelled"}
  BY DEF StreamInv, StreamTypes, StreamTypeOK
<1>4. UNCHANGED <<request, wire, connection, partial, assembled, OnTheWay>>
  BY <1>1, <1>2
<1>5. stream' \in Seq(EventSet) /\ sending' \in Seq(EventSet) /\ Len(stream') <= StreamCap
      /\ ctx' \in {"live", "cancelled"}
  BY <1>1, <1>3
<1>6. reader # "idle" /\ reader = "leaving" /\ reader' = "closed" /\ sending' = <<>>
  BY <1>1
<1> QED BY <1>4, <1>5, <1>6, IdleStep

LEMMA SendStep ==
  ASSUME StreamInv, SendEvent PROVE StreamInv'
<1>1. /\ UNCHANGED <<request, wire, connection, ctx, partial, reader, assembled>>
      /\ sending # <<>> /\ Len(stream) < StreamCap
      /\ stream' = Append(stream, Head(sending)) /\ sending' = Tail(sending)
  BY DEF SendEvent
<1>2. stream \in Seq(EventSet) /\ sending \in Seq(EventSet) /\ ctx \in {"live", "cancelled"}
  BY DEF StreamInv, StreamTypes, StreamTypeOK
<1>3. OnTheWay' = OnTheWay
  BY <1>1, <1>2, Passing DEF OnTheWay
<1>4. Head(sending) \in EventSet /\ sending' \in Seq(EventSet)
  BY <1>1, <1>2, Behead
<1>5. stream' \in Seq(EventSet) /\ Len(stream') = Len(stream) + 1 /\ Len(stream) \in Nat
  BY <1>1, <1>2, <1>4, Longer
<1>6. Len(stream') <= StreamCap
  BY <1>1, <1>5, StreamConfig
<1>7. reader # "idle"
  BY <1>1 DEF StreamInv
<1>8. UNCHANGED <<request, wire, connection, partial, assembled, OnTheWay>>
        /\ ctx' \in {"live", "cancelled"}
      /\ reader' = reader /\ (sending = <<>> => sending' = <<>>)
  BY <1>1, <1>2, <1>3
<1> QED BY <1>4, <1>5, <1>6, <1>7, <1>8, IdleStep

\* Events e come into the queue: of a chunk (q = p + 1), or of the reader itself (q = p).
LEMMA QueueGrows ==
  ASSUME StreamTypes, UNCHANGED <<request, connection, assembled, stream>>, NEW end, NEW p \in Nat,
         NEW q \in {p, p + 1}, NEW e \in Seq(EventSet), sending = <<>>, sending' = e,
         QueueUpTo(end, p), reader = "reading", reader' \in {"reading", "leaving"},
         q = p => \A i \in DOMAIN e : e[i] = StreamError,
         q = p => reader' = "leaving",
         q = p + 1 => \E chunk : NewEvents(p, e, chunk),
         reader' = "reading" /\ q > reply.text + NumCalls => end[1].kind # "error",
         reader' = "leaving" =>
           \/ (\E i \in DOMAIN e : e[i].type = "error") \/ Lost
           \/ q > reply.text + NumCalls /\ end[1].kind # "error"
  PROVE  QueueUpTo(end, q)'
<1>1. /\ stream \in Seq(EventSet) /\ OnTheWay = stream /\ OnTheWay' = OnTheWay \o e
      /\ UNCHANGED <<reply, text, toolCalls, finish, request>> /\ reply.text \in Nat
  <2>1. stream \in Seq(EventSet)
    BY DEF StreamTypes
  <2>2. stream \o <<>> = stream
    BY <2>1, ConcatEmptySeq
  <2> QED BY <2>1, <2>2 DEF OnTheWay, assembled, request, StreamTypes, ReplySet
<1>2. q = p => \A i \in DOMAIN e : e[i].type = "error" /\ \A c \in Nat : e[i] # ToolUse(c, "whole")
  BY EventTypes
<1>3. \A i \in DOMAIN e : /\ e[i] = Done("stop") => reply.calls = <<>>
                          /\ e[i].type = "tool_use" => reply.calls # <<>>
  <2>1. Done("stop").type # "error"
    BY EventTypes
  <2> QED BY <1>2, <2>1 DEF NewEvents
<1>4. TextQueue(q)'
  <2>1. CASE q = p + 1 /\ p < reply.text
    <3>1. e = <<Event("text", p + 1)>>
      BY <2>1 DEF NewEvents
    <3>2. TextQueue(p + 1)'
      BY <1>1, <2>1, <3>1, TextIsQueued DEF QueueUpTo
    <3> QED BY <2>1, <3>2
  <2>2. CASE ~ (q = p + 1 /\ p < reply.text)
    <3>1. q = p \/ p >= reply.text
      BY <1>1, <2>2
    <3>2. reader' = "reading" => q >= reply.text
      BY <1>1, <2>2
    <3>3. \A i \in DOMAIN e : e[i].type # "text"
      BY <1>1, <1>2, <2>2 DEF NewEvents
    <3>4. OnTheWay' = OnTheWay \o e /\ UNCHANGED <<reply, text>> /\ TextQueue(p)
      BY <1>1 DEF QueueUpTo
    <3> QED BY <3>1, <3>2, <3>3, <3>4, OthersAreQueued
  <2> QED BY <2>1, <2>2
<1>5. CallQueue(q)'
  <2>1. /\ \A i \in DOMAIN e : \A c \in Nat : e[i] = ToolUse(c, "whole") =>
             /\ Emitted(q, c) /\ ~Emitted(p, c)
             /\ \A j \in DOMAIN e : e[j] = ToolUse(c, "whole") => i = j
        /\ \A c \in Nat : Emitted(q, c) /\ ~Emitted(p, c) =>
             \E i \in DOMAIN e : e[i] = ToolUse(c, "whole")
    BY <1>2 DEF NewEvents
  <2>2. \A c \in Nat : Emitted(p, c) => Emitted(q, c)
    BY EmittedAt
  <2>3. CallQueue(p) /\ OnTheWay' = OnTheWay \o e /\ UNCHANGED <<request, toolCalls>>
    BY <1>1 DEF QueueUpTo
  <2> QED BY <2>1, <2>2, <2>3, UsesAreQueued
<1>6. EndQueue(end, q)'
  <2>1. EndQueue(end, p) /\ OnTheWay' = OnTheWay \o e
          /\ UNCHANGED <<request, finish, toolCalls, connection>>
    BY <1>1 DEF QueueUpTo
  <2> QED BY <1>3, <2>1, EndIsQueued
<1> QED BY <1>4, <1>5, <1>6 DEF QueueUpTo

LEMMA ReadStep ==
  ASSUME StreamInv, ReadChunk PROVE StreamInv'
<1> DEFINE chunk == Head(wire)
<1>1. /\ reader = "reading" /\ sending = <<>> /\ wire # <<>>
      /\ sending' \in Events(vendor, partial, chunk)
      /\ partial' = IF chunk.kind = "call" /\ vendor \in {"openaicompat", "bedrock"}
                    THEN Accumulate(vendor, partial, chunk) ELSE partial
      /\ reader' = IF Leaves(vendor, chunk) THEN "leaving" ELSE "reading"
      /\ wire' = Tail(wire) /\ UNCHANGED <<request, connection, ctx, stream, assembled>>
      /\ UNCHANGED <<vendor, reply, joint, consumer>>
           /\ UNCHANGED <<outcome, text, toolCalls, finish>>
  BY DEF ReadChunk, request, assembled
<1>2. StreamTypes /\ reader # "idle"
  BY <1>1 DEF StreamInv
<1>3. PICK end, p : ReadUpTo(end, p) /\ (outcome = "reading" => QueueUpTo(end, p))
  BY <1>2 DEF StreamInv, ReaderInv
<1>4. /\ p \in Nat /\ p < Len(WholeWire(end)) /\ chunk = WholeWire(end)[p + 1]
           /\ wire' \in Seq(ChunkSet)
      /\ WireAt(end, p + 1)'
  BY <1>1, <1>2, <1>3, NextChunk
<1>5. IsEnding(end) /\ PartialAt(p) /\ reply \in ReplySet
  BY <1>2, <1>3 DEF ReadUpTo, StreamTypes
<1> HIDE DEF chunk
<1>6. NewEvents(p, sending', chunk)
  BY <1>1, <1>2, <1>4, <1>5, EventsOf
<1>7. PartialAt(p + 1)' /\ partial' \in [DOMAIN reply.calls -> Seq(Nat \X Nat)]
  BY <1>1, <1>2, <1>4, <1>5, PartialGrows
<1>8. ReadUpTo(end, p + 1)'
  <2>1. IsEnding(end)'
    BY <1>1, <1>5, Unasked
  <2> QED BY <1>4, <1>7, <2>1 DEF ReadUpTo
<1>9. /\ p < reply.text => chunk.kind = "text"
      /\ p >= reply.text /\ p < reply.text + NumCalls => chunk.kind = "call"
      /\ p >= reply.text + NumCalls =>
           /\ p = reply.text + NumCalls => chunk.kind = end[1].kind
           /\ p > reply.text + NumCalls => chunk.kind \in {"usage", "[DONE]"}
      /\ reply.text \in Nat /\ NumCalls \in Nat
  <2>1. /\ p < reply.text => chunk = Chunk("text", 0, p + 1)
        /\ p >= reply.text /\ p < reply.text + NumCalls
             => chunk = Chunk("call", chunk.call, chunk.nth)
        /\ p >= reply.text + NumCalls =>
             /\ p = reply.text + NumCalls => chunk.kind = end[1].kind
             /\ p > reply.text + NumCalls => chunk.kind \in {"usage", "[DONE]"}
    BY <1>4, <1>5, ChunkAt
  <2>2. \A k, c, n : Chunk(k, c, n).kind = k
    BY DEF Chunk
  <2>3. reply.text \in Nat /\ NumCalls \in Nat
    BY <1>5, FullIs
  <2> QED BY <2>1, <2>2, <2>3
<1>10. ASSUME outcome = "reading" PROVE QueueUpTo(end, p + 1)'
  <2>1. QueueUpTo(end, p)
    BY <1>3, <1>10
  <2>2. p > reply.text + NumCalls => end[1].kind # "error"
    BY <1>1, <2>1 DEF QueueUpTo, EndQueue
  <2>3. p + 1 > reply.text + NumCalls /\ ~ (p > reply.text + NumCalls) => p = reply.text + NumCalls
    BY <1>4, <1>9
  <2>4. reader' = "reading" /\ p + 1 > reply.text + NumCalls => end[1].kind # "error"
    <3>1. ASSUME reader' = "reading", p = reply.text + NumCalls PROVE end[1].kind # "error"
      <4>1. chunk.kind = end[1].kind
        BY <1>4, <1>9, <3>1
      <4>2. chunk.kind # "error"
        BY <1>1, <3>1 DEF Leaves
      <4> QED BY <4>1, <4>2
    <3> QED BY <2>2, <2>3, <3>1
  <2>5. reader' = "leaving" =>
          \/ (\E i \in DOMAIN sending' : sending'[i].type = "error") \/ Lost
          \/ p + 1 > reply.text + NumCalls /\ end[1].kind # "error"
    <3>1. SUFFICES ASSUME reader' = "leaving", chunk.kind # "error"
                   PROVE  p + 1 > reply.text + NumCalls /\ end[1].kind # "error"
      BY <1>6 DEF NewEvents
    <3>2. chunk.kind \in {"finish+usage", "[DONE]", "usage"}
      BY <1>1, <3>1 DEF Leaves
    <3>3. p >= reply.text + NumCalls
      BY <1>4, <1>9, <3>2
    <3>4. p + 1 > reply.text + NumCalls
      BY <1>4, <1>9, <3>3
    <3>5. p = reply.text + NumCalls => end[1].kind # "error"
      BY <1>9, <3>1, <3>3
    <3> QED BY <2>2, <2>3, <3>4, <3>5
  <2>6. sending' \in Seq(EventSet) /\ \E x : NewEvents(p, sending', x)
    BY <1>6 DEF NewEvents
  <2>7. reader' \in {"reading", "leaving"} /\ p + 1 # p
    BY <1>1, <1>4
  <2>8. p + 1 \in {p, p + 1} /\ UNCHANGED <<request, connection, assembled, stream>>
    BY <1>1
  <2> QED BY <1>1, <1>2, <1>4, <2>1, <2>4, <2>5, <2>6, <2>7, <2>8, QueueGrows
<1>11. ReaderInv'
  BY <1>1, <1>8, <1>10 DEF ReaderInv
<1>12. StreamTypes'
  <2>1. reader' \in {"reading", "leaving"} /\ sending' \in Seq(EventSet)
    BY <1>1, <1>6 DEF NewEvents
  <2>2. DOMAIN partial' = DOMAIN reply.calls
    BY <1>7
  <2>3. StreamTypeOK'
    BY <1>1, <1>2, <2>1, <2>2 DEF StreamTypes, StreamTypeOK
  <2> QED BY <1>1, <1>2, <1>4, <1>7, <2>1, <2>3 DEF StreamTypes
<1>13. reader' # "idle" /\ (Lost => Lost')
  BY <1>1 DEF Lost
<1> QED BY <1>1, <1>2, <1>11, <1>12, <1>13, ReaderSide

\* The reader leaves of itself.
LEMMA LeaveStep ==
  ASSUME StreamInv, SeeCancelled \/ ReadEnd PROVE StreamInv'
<1>1. /\ reader = "reading" /\ sending = <<>> /\ reader' = "leaving"
      /\ sending' = <<StreamError>> \/ sending' = <<>>
      /\ UNCHANGED <<request, wire, connection, ctx, partial, stream, assembled>>
      /\ UNCHANGED <<vendor, reply, joint, consumer>>
           /\ UNCHANGED <<outcome, text, toolCalls, finish>>
      /\ sending' # <<StreamError>> =>
           /\ wire = <<>> /\ ~ (connection = "broken" /\ vendor = "openai")
           /\ ~ (connection = "failed" /\ vendor = "anthropic")
  BY DEF SeeCancelled, ReadEnd, SaysLost, request, assembled
<1>2. StreamTypes /\ reader # "idle"
  BY <1>1 DEF StreamInv
<1>3. PICK end, p : ReadUpTo(end, p) /\ (outcome = "reading" => QueueUpTo(end, p))
  BY <1>2 DEF StreamInv, ReaderInv
<1>4. ReadUpTo(end, p)'
  BY <1>1, <1>2, <1>3, ReadStays
<1>5. /\ sending' \in Seq(EventSet) /\ \A i \in DOMAIN sending' : sending'[i] = StreamError
      /\ sending' = <<StreamError>> => \E i \in DOMAIN sending' : sending'[i].type = "error"
  <2>1. StreamError \in EventSet /\ StreamError.type = "error"
    BY EventTypes
  <2>2. <<StreamError>> \in Seq(EventSet) /\ DOMAIN <<StreamError>> = {1}
          /\ <<StreamError>>[1] = StreamError
    BY <2>1
  <2>3. <<>> \in Seq(EventSet) /\ DOMAIN <<>> = {}
    OBVIOUS
  <2> QED BY <1>1, <2>1, <2>2, <2>3
<1>6. ASSUME outcome = "reading" PROVE QueueUpTo(end, p)'
  <2>1. QueueUpTo(end, p) /\ p \in Nat
    <3>1. reply \in ReplySet /\ IsEnding(end) /\ p \in 0..Len(WholeWire(end))
      BY <1>2, <1>3 DEF StreamTypes, ReadUpTo, WireAt
    <3>2. Len(WholeWire(end)) \in Nat
      BY <3>1, FullIs, LenProperties
    <3> QED BY <1>3, <1>6, <3>1, <3>2
  <2>2. sending' # <<StreamError>> => Lost \/ (p > reply.text + NumCalls /\ end[1].kind # "error")
    <3>1. SUFFICES ASSUME sending' # <<StreamError>>, ~Lost
                   PROVE  p > reply.text + NumCalls /\ end[1].kind # "error"
      OBVIOUS
    <3>2. connection = "open" /\ wire = <<>>
      BY <1>1, <1>2, <3>1 DEF Lost, StreamTypes, StreamTypeOK
    <3>3. Len(WholeWire(end)) = p
      <4>1. Len(wire) = 0 /\ Len(wire) = Len(WholeWire(end)) - p /\ p \in 0..Len(WholeWire(end))
        BY <1>3, <3>2 DEF ReadUpTo, WireAt
      <4>2. reply \in ReplySet /\ IsEnding(end)
        BY <1>2, <1>3 DEF StreamTypes, ReadUpTo
      <4>3. Len(WholeWire(end)) \in Nat
        BY <4>2, FullIs, LenProperties
      <4> QED BY <2>1, <4>1, <4>3
    <3>4. p > reply.text + NumCalls
      <4>1. reply \in ReplySet /\ IsEnding(end) /\ Len(end) >= 1
        BY <1>2, <1>3 DEF StreamTypes, ReadUpTo, IsEnding
      <4>2. /\ NumCalls \in Nat /\ reply.text \in Nat /\ Len(end) \in Nat
            /\ Len(WholeWire(end)) = reply.text + NumCalls + Len(end)
        BY <4>1, FullIs
      <4> QED BY <3>3, <4>1, <4>2
    <3>5. end[1].kind # "error"
      BY <1>1, <2>1, <3>4 DEF QueueUpTo, EndQueue
    <3> QED BY <3>4, <3>5
  <2>3. reader' = "leaving" =>
          \/ (\E i \in DOMAIN sending' : sending'[i].type = "error") \/ Lost
          \/ p > reply.text + NumCalls /\ end[1].kind # "error"
    BY <1>5, <2>2
  <2>4. p \in {p, p + 1} /\ p # p + 1 /\ UNCHANGED <<request, connection, assembled, stream>>
        /\ reader' \in {"reading", "leaving"} /\ reader' # "reading"
    BY <1>1, <2>1
  <2> QED BY <1>1, <1>2, <1>5, <2>1, <2>3, <2>4, QueueGrows
<1>7. ReaderInv'
  BY <1>1, <1>4, <1>6 DEF ReaderInv
<1>8. StreamTypes'
  <2>1. StreamTypeOK'
    BY <1>1, <1>2 DEF StreamTypes, StreamTypeOK
  <2> QED BY <1>1, <1>2, <1>5, <2>1 DEF StreamTypes
<1>9. reader' # "idle" /\ (Lost => Lost')
  BY <1>1 DEF Lost
<1> QED BY <1>1, <1>2, <1>7, <1>8, <1>9, ReaderSide

\* The consumer takes the first event of the queue.
LEMMA QueueShrinks ==
  ASSUME StreamTypes, stream # <<>>, stream' = Tail(stream), UNCHANGED sending
  PROVE  /\ stream' \in Seq(EventSet) /\ Len(stream') <= StreamCap
         /\ OnTheWay \in Seq(EventSet) /\ OnTheWay # <<>> /\ Len(OnTheWay) \in Nat \ {0}
         /\ DOMAIN OnTheWay = 1..Len(OnTheWay) /\ Head(stream) = OnTheWay[1]
         /\ Len(OnTheWay') = Len(OnTheWay) - 1 /\ DOMAIN OnTheWay' = 1..(Len(OnTheWay) - 1)
         /\ \A i \in 1..(Len(OnTheWay) - 1) : OnTheWay'[i] = OnTheWay[i + 1]
<1>1. stream \in Seq(EventSet) /\ sending \in Seq(EventSet) /\ Len(stream) <= StreamCap
  BY DEF StreamTypes, StreamTypeOK
<1>2. OnTheWay' = Tail(OnTheWay) /\ Head(stream) = OnTheWay[1] /\ OnTheWay # <<>>
  BY <1>1, Passing DEF OnTheWay
<1>3. OnTheWay \in Seq(EventSet)
  BY QueueIs
<1>4. /\ Len(OnTheWay) \in Nat \ {0} /\ DOMAIN OnTheWay = 1..Len(OnTheWay)
      /\ Len(Tail(OnTheWay)) = Len(OnTheWay) - 1 /\ DOMAIN Tail(OnTheWay) = 1..(Len(OnTheWay) - 1)
      /\ \A i \in 1..(Len(OnTheWay) - 1) : Tail(OnTheWay)[i] = OnTheWay[i + 1]
  BY <1>2, <1>3, Behead
<1>5. stream' \in Seq(EventSet) /\ Len(stream') = Len(stream) - 1 /\ Len(stream) \in Nat \ {0}
  BY <1>1, Behead
<1>6. Len(stream') <= StreamCap
  BY <1>1, <1>5, StreamConfig
<1> QED BY <1>2, <1>3, <1>4, <1>5, <1>6

\* The consumer puts the first event where it belongs.
LEMMA ReceivedEvent ==
  ASSUME StreamTypes, TextSoFar, CallsSoFar, stream # <<>>, stream' = Tail(stream),
         UNCHANGED <<sending, reader, connection>>,
         UNCHANGED request, NEW end, NEW p \in Nat, IsEnding(end), QueueUpTo(end, p), NEW e, e
           = Head(stream),
         e.type # "error",
         text' = IF e.type = "text" THEN Append(text, e.what) ELSE text,
         toolCalls' = IF e.type = "tool_use" THEN Append(toolCalls, e.what) ELSE toolCalls,
         finish' = IF e.type = "done" THEN e.what ELSE finish
  PROVE  /\ text' \in Seq(Nat) /\ TextSoFar' /\ toolCalls' \in Seq(Nat \X {"whole", "nil"})
              /\ CallsSoFar'
         /\ QueueUpTo(end, p)'
<1>1. /\ OnTheWay \in Seq(EventSet) /\ OnTheWay # <<>> /\ Len(OnTheWay) \in Nat \ {0}
      /\ DOMAIN OnTheWay = 1..Len(OnTheWay) /\ e = OnTheWay[1]
      /\ Len(OnTheWay') = Len(OnTheWay) - 1 /\ DOMAIN OnTheWay' = 1..(Len(OnTheWay) - 1)
      /\ \A i \in 1..(Len(OnTheWay) - 1) : OnTheWay'[i] = OnTheWay[i + 1]
  BY QueueShrinks
<1>2. /\ UNCHANGED <<vendor, reply, joint, consumer>> /\ NumCalls' = NumCalls
      /\ Kept(vendor, reply)' = Kept(vendor, reply)
      /\ \A c : (Emitted(p, c)' <=> Emitted(p, c))
  BY Unasked
<1>3. \A i \in 1..(Len(OnTheWay) - 1) : i + 1 \in DOMAIN OnTheWay /\ i + 1 # 1 /\ i \in Nat
  BY <1>1
<1>4. 1 \in DOMAIN OnTheWay /\ e \in EventSet
  <2>1. 1 \in 1..Len(OnTheWay)
    BY <1>1
  <2> QED BY <1>1, <2>1, ElementOfSeq
<1>5. reply.text \in Nat /\ text \in Seq(Nat) /\ Len(text) \in Nat
      /\ toolCalls \in Seq(Nat \X {"whole", "nil"}) /\ NumCalls \in Nat
  <2>1. reply \in ReplySet /\ text \in Seq(Nat)
    BY DEF StreamTypes, StreamTypeOK
  <2>2. NumCalls \in Nat
    BY <2>1, FullIs
  <2> QED BY <2>1, <2>2, LenProperties DEF StreamTypes, ReplySet
<1>6. /\ TextsDue(p) \in 0..Len(OnTheWay)
      /\ TextsDue(p) = (IF p < reply.text THEN p ELSE reply.text) - Len(text)
      /\ \A i \in DOMAIN OnTheWay : IF i <= TextsDue(p)
           THEN OnTheWay[i] = Event("text", Len(text) + i)
                                    ELSE OnTheWay[i].type # "text"
      /\ reader = "reading" /\ p < reply.text => TextsDue(p) = Len(OnTheWay)
  BY DEF QueueUpTo, TextQueue, TextsDue
<1> DEFINE due == TextsDue(p)
<1>7. TextsDue(p)' = (IF p < reply.text THEN p ELSE reply.text) - Len(text')
  BY <1>2 DEF TextsDue
<1>8. /\ text' \in Seq(Nat) /\ TextSoFar' /\ TextQueue(p)'
  <2>1. CASE due >= 1
    <3>1. e = Event("text", Len(text) + 1)
      BY <1>1, <1>4, <1>6, <2>1
    <3>2. e.type = "text" /\ e.what = Len(text) + 1
      BY <1>5, <3>1, EventTypes
    <3>3. text' = Append(text, Len(text) + 1) /\ Len(text) + 1 \in Nat
      BY <1>5, <3>2
    <3>4. /\ text' \in Seq(Nat) /\ Len(text') = Len(text) + 1 /\ DOMAIN text' = 1..(Len(text) + 1)
          /\ (\A i \in 1..Len(text) : text'[i] = text[i]) /\ text'[Len(text) + 1] = Len(text) + 1
      BY <1>5, <3>3, Longer
    <3>5. TextSoFar'
      <4>1. Len(text) + 1 <= reply.text
        BY <1>5, <1>6, <2>1
      <4>2. \A i \in 1..Len(text) : text[i] = i
        BY DEF TextSoFar
      <4>3. ASSUME NEW i \in 1..(Len(text) + 1) PROVE text'[i] = i
        <5>1. i \in 1..Len(text) \/ i = Len(text) + 1
          BY <1>5
        <5> QED BY <3>4, <4>2, <5>1
      <4>4. text' = [i \in 1..Len(text') |-> i]
        <5>1. text' = [i \in DOMAIN text' |-> text'[i]]
          BY <3>4
        <5> HIDE DEF due
        <5> QED BY <3>4, <4>3, <5>1
      <4> QED BY <1>2, <3>4, <4>1, <4>4 DEF TextSoFar
    <3>6. TextsDue(p)' = due - 1
      BY <1>5, <1>6, <1>7, <3>4
    <3>7. TextQueue(p)'
      <4>1. due - 1 \in 0..(Len(OnTheWay) - 1)
        BY <1>1, <1>6, <2>1
      <4>2. ASSUME NEW i \in DOMAIN OnTheWay'
            PROVE  IF i <= due - 1 THEN OnTheWay'[i] = Event("text", Len(text') + i)
                   ELSE OnTheWay'[i].type # "text"
        <5>1. i \in 1..(Len(OnTheWay) - 1) /\ OnTheWay'[i] = OnTheWay[i + 1]
          BY <1>1
        <5>2. IF i + 1 <= due THEN OnTheWay[i + 1] = Event("text", Len(text) + (i + 1))
              ELSE OnTheWay[i + 1].type # "text"
          BY <1>3, <1>6, <5>1
        <5>3. (i + 1 <= due <=> i <= due - 1) /\ Len(text) + (i + 1) = Len(text') + i
          <6>1. i \in Int /\ due \in Int
            BY <1>1, <1>6, <5>1
          <6>2. i + 1 <= due <=> i <= due - 1
            BY ONLY <6>1
          <6>3. Len(text) + (i + 1) = Len(text') + i
            <7>1. Len(text') = Len(text) + 1 /\ Len(text) \in Int
              BY <1>5, <3>4
            <7> QED BY ONLY <6>1, <7>1
          <6> QED BY <6>2, <6>3
        <5> QED BY <5>1, <5>2, <5>3
      <4>3. reader' = "reading" /\ p < reply.text' => due - 1 = Len(OnTheWay')
        BY <1>1, <1>2, <1>6
      <4> QED BY <1>1, <3>6, <4>1, <4>2, <4>3 DEF TextQueue
    <3> QED BY <3>4, <3>5, <3>7
  <2>2. CASE due = 0
    <3>1. e.type # "text"
      BY <1>1, <1>4, <1>6, <2>2
    <3>2. text' = text
      BY <3>1
    <3>3. TextsDue(p)' = 0
      BY <1>6, <1>7, <2>2, <3>2
    <3>4. ASSUME NEW i \in DOMAIN OnTheWay' PROVE ~ (i <= 0) /\ OnTheWay'[i].type # "text"
      <4>1. i \in 1..(Len(OnTheWay) - 1) /\ OnTheWay'[i] = OnTheWay[i + 1]
        BY <1>1
      <4>2. i + 1 \in DOMAIN OnTheWay /\ ~ (i + 1 <= 0) /\ ~ (i <= 0)
        BY <1>1, <1>3, <4>1
      <4> QED BY <1>6, <2>2, <4>1, <4>2
    <3>5. ~ (reader' = "reading" /\ p < reply.text')
      BY <1>1, <1>2, <1>6, <2>2
    <3>6. TextQueue(p)'
      <4>1. 0 \in 0..Len(OnTheWay')
        BY <1>1
      <4> QED BY <3>3, <3>4, <3>5, <4>1 DEF TextQueue
    <3> QED BY <1>2, <1>5, <3>2, <3>6 DEF TextSoFar
  <2> QED BY <1>1, <1>6, <2>1, <2>2
<1> HIDE DEF due
<1>9. /\ toolCalls' \in Seq(Nat \X {"whole", "nil"}) /\ CallsSoFar' /\ CallQueue(p)'
      /\ toolCalls' # <<>> => reply.calls # <<>>
  <2>0. /\ \A i \in DOMAIN OnTheWay : \A c \in Nat : OnTheWay[i] = ToolUse(c, "whole") =>
             /\ Emitted(p, c) /\ ~Assembled(c)
             /\ \A j \in DOMAIN OnTheWay : OnTheWay[j] = ToolUse(c, "whole") => i = j
        /\ \A c \in Nat : Assembled(c) => Emitted(p, c)
        /\ \A c \in Nat : Emitted(p, c) =>
             Assembled(c) \/ \E i \in DOMAIN OnTheWay : OnTheWay[i] = ToolUse(c, "whole")
    BY Zenon DEF QueueUpTo, CallQueue
  <2>1. \A i \in DOMAIN OnTheWay' : i + 1 \in DOMAIN OnTheWay /\ OnTheWay'[i] = OnTheWay[i + 1]
          /\ i + 1 # 1
    BY <1>1, <1>3
  <2>2. \A i, j \in DOMAIN OnTheWay' : i + 1 = j + 1 => i = j
    BY <1>1
  <2>3. ASSUME NEW i \in DOMAIN OnTheWay, i # 1
        PROVE  \E j \in DOMAIN OnTheWay' : OnTheWay'[j] = OnTheWay[i]
    <3>1. PICK j \in 1..(Len(OnTheWay) - 1) : i = j + 1
      <4>1. i - 1 \in 1..(Len(OnTheWay) - 1) /\ i = (i - 1) + 1
        BY <1>1, <2>3
      <4> QED BY <4>1
    <3> QED BY <1>1, <3>1
  <2>4. toolCalls # <<>> => reply.calls # <<>>
    BY DEF QueueUpTo, EndQueue
  <2>5. CASE e.type # "tool_use"
    <3>1. toolCalls' = toolCalls
      BY <2>5
    <3>2. \A c \in Nat : e # ToolUse(c, "whole")
      BY <2>5, EventTypes
    <3>3. \A c : Assembled(c)' <=> Assembled(c)
      BY <3>1 DEF Assembled
    <3>4. CallsSoFar'
      BY <1>2, <3>1 DEF CallsSoFar
    <3>5. ASSUME NEW i \in DOMAIN OnTheWay', NEW c \in Nat, OnTheWay'[i] = ToolUse(c, "whole")
          PROVE  /\ Emitted(p, c) /\ ~Assembled(c)
                 /\ \A j \in DOMAIN OnTheWay' : OnTheWay'[j] = ToolUse(c, "whole") => i = j
      BY <2>0, <2>1, <2>2, <3>5
    <3>6. ASSUME NEW c \in Nat, Emitted(p, c), ~Assembled(c)
          PROVE  \E i \in DOMAIN OnTheWay' : OnTheWay'[i] = ToolUse(c, "whole")
      <4>1. PICK i \in DOMAIN OnTheWay : OnTheWay[i] = ToolUse(c, "whole")
        BY <2>0, <3>6
      <4>2. i # 1
        BY <1>1, <3>2, <4>1
      <4> QED BY <2>3, <4>1, <4>2
    <3>7. CallQueue(p)'
      BY <1>2, <2>0, <3>3, <3>5, <3>6 DEF CallQueue
    <3> QED BY <1>5, <2>4, <3>1, <3>4, <3>7
  <2>6. CASE e.type = "tool_use"
    <3>1. PICK c \in Nat, a \in {"whole", "nil"} : e = ToolUse(c, a) /\ e.what = <<c, a>>
      <4>1. PICK c \in Nat, a \in {"whole", "nil"} : e = ToolUse(c, a)
        <5>1. /\ \A n \in Nat : Event("text", n).type # "tool_use"
              /\ \A why \in {"stop", "tool_calls", "end_turn", "none"} : Done(why).type # "tool_use"
              /\ StreamError.type # "tool_use"
          BY EventTypes
        <5> QED BY <1>4, <2>6, <5>1 DEF EventSet
      <4> QED BY <4>1, EventTypes
    <3>2. toolCalls' = Append(toolCalls, <<c, a>>)
      BY <2>6, <3>1
    <3>3. <<c, a>> \in Nat \X {"whole", "nil"}
      BY <3>1
    <3> DEFINE S == Nat \X {"whole", "nil"}
    <3>4. /\ toolCalls' \in Seq(S) /\ Len(toolCalls) \in Nat
          /\ DOMAIN toolCalls' = 1..(Len(toolCalls) + 1) /\ DOMAIN toolCalls = 1..Len(toolCalls)
          /\ \A i \in 1..Len(toolCalls) : toolCalls'[i] = toolCalls[i]
          /\ toolCalls'[Len(toolCalls) + 1] = <<c, a>>
      <4>1. toolCalls \in Seq(S) /\ <<c, a>> \in S
        BY <1>5, <3>3
      <4> HIDE DEF S
      <4>2. PICK x \in S : x = <<c, a>>
        BY <4>1
      <4>3. toolCalls' = Append(toolCalls, x)
        BY <3>2, <4>2
      <4>4. /\ toolCalls' \in Seq(S) /\ Len(toolCalls) \in Nat
            /\ DOMAIN toolCalls' = 1..(Len(toolCalls) + 1) /\ DOMAIN toolCalls = 1..Len(toolCalls)
            /\ \A i \in 1..Len(toolCalls) : toolCalls'[i] = toolCalls[i]
            /\ toolCalls'[Len(toolCalls) + 1] = x
        BY <4>1, <4>3, Longer
      <4> QED BY <4>2, <4>4
    <3>5. \A i \in DOMAIN toolCalls' : i \in DOMAIN toolCalls \/ i = Len(toolCalls) + 1
      BY <3>4
    <3>6. \A x : x \in ToSet(toolCalls') <=> x \in ToSet(toolCalls) \/ x = <<c, a>>
      <4> HIDE DEF S
      <4>1. Len(toolCalls) + 1 \in DOMAIN toolCalls' /\ DOMAIN toolCalls \subseteq DOMAIN toolCalls'
        BY <3>4
      <4>2. \A i \in DOMAIN toolCalls' : toolCalls'[i] = IF i \in DOMAIN toolCalls
              THEN toolCalls[i] ELSE <<c, a>>
        BY <3>4, <3>5
      <4>3. \A i \in DOMAIN toolCalls : i \in DOMAIN toolCalls' /\ toolCalls'[i] = toolCalls[i]
        BY <4>1, <4>2
      <4>4. ASSUME NEW x, x \in ToSet(toolCalls') PROVE x \in ToSet(toolCalls) \/ x = <<c, a>>
        <5>1. PICK i \in DOMAIN toolCalls' : x = toolCalls'[i]
          BY <4>4 DEF ToSet
        <5> QED BY <4>2, <5>1 DEF ToSet
      <4>5. ASSUME NEW x, x \in ToSet(toolCalls) \/ x = <<c, a>> PROVE x \in ToSet(toolCalls')
        <5>1. x \in ToSet(toolCalls) => x \in ToSet(toolCalls')
          BY <4>3 DEF ToSet
        <5>2. <<c, a>> \in ToSet(toolCalls')
          BY <3>4, <4>1 DEF ToSet
        <5> QED BY <4>5, <5>1, <5>2
      <4> QED BY <4>4, <4>5
    <3>7. \A d : Assembled(d)' <=> Assembled(d) \/ (d = c /\ a = "whole")
      <4>1. \A d : <<d, "whole">> = <<c, a>> <=> d = c /\ a = "whole"
        OBVIOUS
      <4> QED BY <3>6, <4>1 DEF Assembled
    <3>8. a = "whole"
            => Emitted(p, c) /\ ~Assembled(c)
              /\ \A j \in DOMAIN OnTheWay : OnTheWay[j] = ToolUse(c, "whole") => 1 = j
      BY <1>1, <1>4, <2>0, <3>1
    <3>9. CallsSoFar'
      <4>0. \A i, j \in DOMAIN toolCalls :
              toolCalls[i][2] = "whole" => /\ toolCalls[i][1] \in Kept(vendor, reply)
                                           /\ toolCalls[i] = toolCalls[j] => i = j
        BY DEF CallsSoFar
      <4>1. ASSUME NEW i \in DOMAIN toolCalls', NEW j \in DOMAIN toolCalls',
                   toolCalls'[i][2] = "whole"
            PROVE  toolCalls'[i][1] \in Kept(vendor, reply)
                     /\ (toolCalls'[i] = toolCalls'[j] => i = j)
        <5>1. ASSUME NEW k \in DOMAIN toolCalls, a = "whole" PROVE toolCalls[k] # <<c, a>>
          BY <3>8, <5>1 DEF Assembled, ToSet
        <5>2. CASE i \in DOMAIN toolCalls
          <6>1. toolCalls'[i] = toolCalls[i]
            BY <3>4, <5>2
          <6>2. toolCalls'[i][1] \in Kept(vendor, reply)
            BY <4>0, <4>1, <5>2, <6>1
          <6>3. CASE j \in DOMAIN toolCalls
            <7>1. toolCalls'[j] = toolCalls[j]
              BY <3>4, <6>3
            <7> QED BY <4>0, <4>1, <5>2, <6>1, <6>2, <6>3, <7>1
          <6>4. CASE j = Len(toolCalls) + 1
            <7>1. toolCalls'[j] = <<c, a>>
              BY <3>4, <6>4
            <7>2. toolCalls[i] = <<c, a>> => a = "whole"
              BY <4>1, <6>1
            <7> QED BY <5>1, <5>2, <6>1, <6>2, <7>1, <7>2
          <6> QED BY <3>5, <6>3, <6>4
        <5>3. CASE i = Len(toolCalls) + 1
          <6>1. toolCalls'[i] = <<c, a>> /\ a = "whole"
            <7>1. toolCalls'[i] = <<c, a>>
              BY <3>4, <5>3
            <7> QED BY <4>1, <7>1
          <6>2. <<c, a>>[1] = c /\ c \in Kept(vendor, reply)
            BY <3>8, <6>1 DEF Emitted
          <6>3. CASE j \in DOMAIN toolCalls
            <7>1. toolCalls'[j] = toolCalls[j]
              BY <3>4, <6>3
            <7> QED BY <5>1, <6>1, <6>2, <6>3, <7>1
          <6> QED BY <3>5, <5>3, <6>1, <6>2, <6>3
        <5> QED BY <3>5, <5>2, <5>3
      <4> QED BY <1>2, <4>1 DEF CallsSoFar
    <3>10. ASSUME NEW i \in DOMAIN OnTheWay', NEW d \in Nat, OnTheWay'[i] = ToolUse(d, "whole")
           PROVE  /\ Emitted(p, d) /\ ~Assembled(d)'
                  /\ \A j \in DOMAIN OnTheWay' : OnTheWay'[j] = ToolUse(d, "whole") => i = j
      <4>1. OnTheWay[i + 1] = ToolUse(d, "whole") /\ i + 1 \in DOMAIN OnTheWay /\ i + 1 # 1
        BY <2>1, <3>10
      <4>2. Emitted(p, d) /\ ~Assembled(d)
              /\ \A j \in DOMAIN OnTheWay : OnTheWay[j] = ToolUse(d, "whole") => i + 1 = j
        BY <2>0, <4>1
      <4>3. ~ (d = c /\ a = "whole")
        BY <3>8, <4>1
      <4> QED BY <2>1, <2>2, <3>7, <4>2, <4>3
    <3>11. ASSUME NEW d \in Nat, Emitted(p, d), ~Assembled(d)'
           PROVE  \E i \in DOMAIN OnTheWay' : OnTheWay'[i] = ToolUse(d, "whole")
      <4>1. PICK i \in DOMAIN OnTheWay : OnTheWay[i] = ToolUse(d, "whole")
        BY <2>0, <3>7, <3>11
      <4>2. i # 1
        <5>1. SUFFICES ASSUME i = 1 PROVE FALSE
          OBVIOUS
        <5>2. ToolUse(c, a) = ToolUse(d, "whole")
          BY <1>1, <3>1, <4>1, <5>1
        <5>3. c = d /\ a = "whole"
          BY <5>2, EventTypes
        <5> QED BY <3>7, <3>11, <5>3
      <4> QED BY <2>3, <4>1, <4>2
    <3>12. CallQueue(p)'
      BY <1>2, <2>0, <3>7, <3>8, <3>10, <3>11 DEF CallQueue
    <3>13. reply.calls # <<>>
      <4>1. EndQueue(end, p) /\ 1 \in DOMAIN OnTheWay /\ OnTheWay[1].type = "tool_use"
        BY <1>1, <1>4, <2>6 DEF QueueUpTo
      <4>2. FitsReply(OnTheWay[1])
        BY ONLY <4>1, EndsAreTrue
      <4> QED BY <4>1, <4>2 DEF FitsReply
    <3> QED BY <3>4, <3>9, <3>12, <3>13
  <2> QED BY <2>5, <2>6
<1>10. EndQueue(end, p)'
  <2>1. finish' = "stop" => reply.calls = <<>>
    <3>1. CASE e.type # "done"
      BY <3>1 DEF QueueUpTo, EndQueue
    <3>2. CASE e.type = "done" /\ finish' = "stop"
      <4>1. /\ \A n \in Nat : Event("text", n).type # "done"
            /\ \A c \in Nat, a \in {"whole", "nil"} : ToolUse(c, a).type # "done"
            /\ StreamError.type # "done"
        BY EventTypes
      <4>2. PICK why \in {"stop", "tool_calls", "end_turn", "none"} : e = Done(why)
        BY <1>4, <3>2, <4>1 DEF EventSet
      <4>3. e.what = why
        BY <4>2, EventTypes
      <4>4. e = Done("stop")
        BY <3>2, <4>2, <4>3
      <4>5. EndQueue(end, p) /\ 1 \in DOMAIN OnTheWay /\ OnTheWay[1] = Done("stop")
        BY <1>1, <1>4, <4>4 DEF QueueUpTo
      <4>6. FitsReply(OnTheWay[1])
        BY ONLY <4>5, EndsAreTrue
      <4> QED BY <4>5, <4>6 DEF FitsReply
    <3> QED BY <3>1, <3>2
  <2>2. \A i \in DOMAIN OnTheWay' : i + 1 \in DOMAIN OnTheWay /\ OnTheWay'[i] = OnTheWay[i + 1]
    BY <1>1, <1>3
  <2>3. \A i \in DOMAIN OnTheWay' : /\ OnTheWay'[i] = Done("stop") => reply.calls = <<>>
                                    /\ OnTheWay'[i].type = "tool_use" => reply.calls # <<>>
    BY <2>2 DEF QueueUpTo, EndQueue
  <2>4. ASSUME NEW i \in DOMAIN OnTheWay, OnTheWay[i].type = "error"
        PROVE  \E j \in DOMAIN OnTheWay' : OnTheWay'[j].type = "error"
    <3>1. i # 1
      BY <1>1, <2>4
    <3>2. PICK j \in 1..(Len(OnTheWay) - 1) : i = j + 1
      <4>1. i - 1 \in 1..(Len(OnTheWay) - 1) /\ i = (i - 1) + 1
        BY <1>1, <3>1
      <4> QED BY <4>1
    <3> QED BY <1>1, <2>4, <3>2
  <2>5. Lost' <=> Lost
    BY <1>2 DEF Lost
  <2>6. /\ reader = "closed" => sending = <<>>
        /\ reader = "reading" /\ p > reply.text + NumCalls => end[1].kind # "error"
        /\ reader # "reading" =>
             \/ (\E i \in DOMAIN OnTheWay : OnTheWay[i].type = "error") \/ Lost
             \/ p > reply.text + NumCalls /\ end[1].kind # "error"
    BY DEF QueueUpTo, EndQueue
  <2> QED BY <1>2, <1>9, <2>1, <2>3, <2>4, <2>5, <2>6 DEF EndQueue
<1> QED BY <1>8, <1>9, <1>10 DEF QueueUpTo

LEMMA ReceiveStep ==
  ASSUME StreamInv, Receive PROVE StreamInv'
<1> DEFINE e == Head(stream)
<1>1. /\ outcome = "reading" /\ stream # <<>> /\ stream' = Tail(stream)
      /\ UNCHANGED <<request, wire, connection, ctx, partial, sending, reader>>
      /\ UNCHANGED <<vendor, reply, joint, consumer>>
  BY DEF Receive, request
<1>2. StreamTypes /\ TextSoFar /\ CallsSoFar /\ reader # "idle" /\ reader' = reader
  BY <1>1 DEF StreamInv
<1>3. stream' \in Seq(EventSet) /\ Len(stream') <= StreamCap
  BY <1>1, <1>2, QueueShrinks
<1>4. PICK end, p : ReadUpTo(end, p) /\ QueueUpTo(end, p)
  BY <1>1, <1>2 DEF StreamInv, ReaderInv
<1>5. ReadUpTo(end, p)'
  BY <1>1, <1>2, <1>4, ReadStays
<1>6. IsEnding(end) /\ p \in Nat
  <2>1. reply \in ReplySet /\ IsEnding(end) /\ p \in 0..Len(WholeWire(end))
    BY <1>2, <1>4 DEF StreamTypes, ReadUpTo, WireAt
  <2>2. Len(WholeWire(end)) \in Nat
    BY <2>1, FullIs, LenProperties
  <2> QED BY <2>1, <2>2
<1>7. SUFFICES ASSUME outcome' \in {"reading", "draining", "error"}
               PROVE  /\ text' \in Seq(Nat) /\ toolCalls' \in Seq(Nat \X {"whole", "nil"})
                      /\ TextSoFar' /\ CallsSoFar' /\ (outcome' = "reading" => QueueUpTo(end, p)')
  <2>1. outcome' \in {"reading", "draining", "error"}
    BY <1>1 DEF Receive
  <2>2. ASSUME text' \in Seq(Nat), toolCalls' \in Seq(Nat \X {"whole", "nil"}), TextSoFar',
               CallsSoFar',
               outcome' = "reading" => QueueUpTo(end, p)'
        PROVE  StreamInv'
    <3>1. StreamTypeOK'
      BY <1>1, <1>2, <1>3, <2>1, <2>2 DEF StreamTypes, StreamTypeOK
    <3>2. StreamTypes'
      BY <1>1, <1>2, <1>3, <2>2, <3>1 DEF StreamTypes
    <3>3. ReaderInv'
      BY <1>5, <2>2 DEF ReaderInv
    <3> QED BY <1>2, <2>1, <2>2, <3>2, <3>3 DEF StreamInv
  <2> QED BY <2>1, <2>2
<1>8. ASSUME UNCHANGED <<text, toolCalls, finish>>, outcome' # "reading"
      PROVE  /\ text' \in Seq(Nat) /\ toolCalls' \in Seq(Nat \X {"whole", "nil"})
             /\ TextSoFar' /\ CallsSoFar'
  <2>1. Kept(vendor, reply)' = Kept(vendor, reply)
    BY <1>1, Unasked
  <2>2. TextSoFar' /\ CallsSoFar'
    BY <1>1, <1>2, <1>8, <2>1 DEF TextSoFar, CallsSoFar
  <2> QED BY <1>2, <1>8, <2>2 DEF StreamTypes, StreamTypeOK
<1>9. CASE outcome' = "draining" /\ UNCHANGED <<text, toolCalls, finish>>
  BY <1>8, <1>9
<1>10. CASE /\ outcome' = IF e.type = "error" THEN "error" ELSE "reading"
            /\ text' = IF e.type = "text" THEN Append(text, e.what) ELSE text
            /\ toolCalls' = IF e.type = "tool_use" THEN Append(toolCalls, e.what) ELSE toolCalls
            /\ finish' = IF e.type = "done" THEN e.what ELSE finish
  <2>1. CASE e.type = "error"
    <3>1. UNCHANGED <<text, toolCalls, finish>> /\ outcome' # "reading"
      BY <1>10, <2>1
    <3> QED BY <1>8, <3>1
  <2>2. CASE e.type # "error"
    <3>0. PICK x : x = e
      OBVIOUS
    <3>1. /\ x.type # "error" /\ x = Head(stream)
          /\ text' = IF x.type = "text" THEN Append(text, x.what) ELSE text
          /\ toolCalls' = IF x.type = "tool_use" THEN Append(toolCalls, x.what) ELSE toolCalls
          /\ finish' = IF x.type = "done" THEN x.what ELSE finish
      BY <1>10, <2>2, <3>0
    <3>2. UNCHANGED <<sending, reader, connection>> /\ UNCHANGED request
      BY <1>1
    <3> HIDE DEF e
    <3> QED BY <1>1, <1>2, <1>4, <1>6, <3>1, <3>2, ReceivedEvent
  <2> QED BY <2>1, <2>2
<1> QED BY <1>9, <1>10 DEF Receive

\* What a reply is that is neither read nor given up.
LEMMA RepliedStep ==
  ASSUME StreamInv, DrainStream \/ Finish PROVE StreamInv'
<1>1. /\ UNCHANGED <<request, wire, connection, ctx, partial, sending, reader, text, toolCalls,
           finish>>
      /\ UNCHANGED <<vendor, reply, joint, consumer>>
      /\ (stream # <<>> /\ stream' = Tail(stream)) \/ UNCHANGED stream
      /\ outcome # "reply" /\ outcome' \in {"draining", "reply", "error"}
      /\ outcome' = "draining" => outcome = "draining"
      /\ outcome' = "reply" => outcome = "reading" /\ stream = <<>> /\ reader = "closed"
  BY DEF DrainStream, Finish, request
<1>2. StreamTypes /\ TextSoFar /\ CallsSoFar
  BY DEF StreamInv
<1>3. stream' \in Seq(EventSet) /\ Len(stream') <= StreamCap
  <2>1. CASE stream # <<>> /\ stream' = Tail(stream)
    BY <1>1, <1>2, <2>1, QueueShrinks
  <2>2. CASE UNCHANGED stream
    BY <1>2, <2>2 DEF StreamTypes, StreamTypeOK
  <2> QED BY <1>1, <2>1, <2>2
<1>4. StreamTypes'
  <2>1. StreamTypeOK'
    BY <1>1, <1>2, <1>3 DEF StreamTypes, StreamTypeOK
  <2> QED BY <1>1, <1>2, <1>3, <2>1 DEF StreamTypes
<1>5. Kept(vendor, reply)' = Kept(vendor, reply)
  BY <1>1, Unasked
<1>6. TextSoFar' /\ CallsSoFar'
  BY <1>1, <1>2, <1>5 DEF TextSoFar, CallsSoFar
<1>7. reader # "idle" => ReaderInv'
  <2>1. SUFFICES ASSUME reader # "idle" PROVE ReaderInv'
    OBVIOUS
  <2>2. PICK end, p : ReadUpTo(end, p)
    BY <2>1 DEF StreamInv, ReaderInv
  <2>3. ReadUpTo(end, p)'
    BY <1>1, <1>2, <2>2, ReadStays
  <2> QED BY <1>1, <2>3 DEF ReaderInv
<1>8. outcome' = "reply" => Lost' \/ ReplyIsWhole'
  <2>1. SUFFICES ASSUME outcome = "reading", stream = <<>>, reader = "closed", ~Lost
                 PROVE  ReplyIsWhole
    <3>1. (Lost => Lost') /\ (ReplyIsWhole => ReplyIsWhole')
      BY <1>1, <1>5 DEF Lost, ReplyIsWhole
    <3> QED BY <1>1, <3>1
  <2>2. PICK end, p : ReadUpTo(end, p) /\ QueueUpTo(end, p)
    BY <2>1 DEF StreamInv, ReaderInv
  <2>3. OnTheWay = <<>> /\ DOMAIN OnTheWay = {} /\ Len(OnTheWay) = 0
    <3>1. sending = <<>>
      BY <2>1, <2>2 DEF QueueUpTo, EndQueue
    <3>2. OnTheWay = <<>>
      BY <2>1, <3>1 DEF OnTheWay
    <3>3. DOMAIN <<>> = {} /\ Len(<<>>) = 0
      OBVIOUS
    <3> QED BY <3>2, <3>3
  <2>4. p > reply.text + NumCalls
    BY <2>1, <2>2, <2>3 DEF QueueUpTo, EndQueue
  <2>5. /\ reply \in ReplySet /\ reply.text \in Nat /\ NumCalls \in Nat /\ p \in Nat
             /\ Len(text) \in Nat
        /\ reply.calls \in Seq(Nat \ {0})
    <3>1. reply \in ReplySet /\ IsEnding(end) /\ p \in 0..Len(WholeWire(end)) /\ text \in Seq(Nat)
      BY <1>2, <2>2 DEF StreamTypes, StreamTypeOK, ReadUpTo, WireAt
    <3>2. Len(WholeWire(end)) \in Nat /\ NumCalls \in Nat /\ reply.text \in Nat
      BY <3>1, FullIs, LenProperties
    <3> QED BY <3>1, <3>2, LenProperties DEF ReplySet
  <2>6. Len(text) = reply.text
    <3>1. TextsDue(p) = 0
      BY <2>2, <2>3 DEF QueueUpTo, TextQueue
    <3> QED BY <2>4, <2>5, <3>1 DEF TextsDue
  <2>7. ASSUME NEW c \in Kept(vendor, reply) PROVE <<c, "whole">> \in ToSet(toolCalls)
    <3>1. c \in DOMAIN reply.calls /\ c \in Nat /\ 1 \in 1..reply.calls[c]
      <4>1. c \in DOMAIN reply.calls
        BY <2>7, <1>2 DEF Kept, StreamTypes, StreamTypeOK
      <4>2. DOMAIN reply.calls = 1..Len(reply.calls) /\ reply.calls[c] \in Nat \ {0}
        BY <2>5, <4>1, LenProperties, ElementOfSeq
      <4>3. Len(reply.calls) \in Nat
        BY <2>5, LenProperties
      <4> QED BY <4>1, <4>2, <4>3
    <3>2. CallRead(p, c, 1)
      <4>1. p >= reply.text + NumCalls
        BY <2>4, <2>5
      <4> QED BY <2>5, <3>1, <4>1, CallsReadAt
    <3>3. Emitted(p, c)
      BY <2>4, <3>2 DEF Emitted
    <3> QED BY <2>2, <2>3, <3>1, <3>3 DEF QueueUpTo, CallQueue, Assembled
  <2>8. finish = "stop" => toolCalls = <<>>
    BY <2>2 DEF QueueUpTo, EndQueue
  <2> QED BY <2>6, <2>7, <2>8 DEF ReplyIsWhole
<1>9. /\ reader' = "idle"
           => wire' = <<>> /\ sending' = <<>> /\ stream' = <<>> /\ outcome' # "draining"
      /\ ~ (reader' = "idle" /\ outcome' = "reading")
  BY <1>1 DEF StreamInv
<1> QED BY <1>1, <1>4, <1>6, <1>7, <1>8, <1>9 DEF StreamInv

LEMMA StreamStep ==
  StreamInv /\ [StreamNext]_streamVars => StreamInv'
<1> SUFFICES ASSUME StreamInv, [StreamNext]_streamVars PROVE StreamInv'
  OBVIOUS
<1>1. CASE OpenStream
  BY <1>1, OpenStep
<1>2. CASE Complete
  BY <1>2, CompleteStep
<1>3. CASE Disconnect
  BY <1>3, DisconnectStep
<1>4. CASE Cancel
  BY <1>4, CancelStep
<1>5. CASE ReadChunk
  BY <1>5, ReadStep
<1>6. CASE SeeCancelled \/ ReadEnd
  BY <1>6, LeaveStep
<1>7. CASE SendEvent
  BY <1>7, SendStep
<1>8. CASE CloseStream
  BY <1>8, CloseStep
<1>9. CASE Receive
  BY <1>9, ReceiveStep
<1>10. CASE DrainStream \/ Finish
  BY <1>10, RepliedStep
<1>11. CASE UNCHANGED streamVars
  <2>1. /\ UNCHANGED <<vendor, reply, joint, consumer, outcome, text, toolCalls, finish>>
        /\ UNCHANGED <<wire, connection, ctx, partial, sending, reader, stream>>
    BY <1>11 DEF streamVars, request, assembled
  <2>2. UNCHANGED <<request, wire, connection, partial, assembled, OnTheWay>>
    BY <2>1 DEF request, assembled, OnTheWay
  <2>3. StreamTypes
    BY DEF StreamInv
  <2>4. StreamTypes'
    BY <2>1, <2>3 DEF StreamTypes, StreamTypeOK
  <2>5. Kept(vendor, reply)' = Kept(vendor, reply)
    BY <2>2, Unasked
  <2>6. reader # "idle" => ReaderInv'
    <3>1. SUFFICES ASSUME reader # "idle" PROVE ReaderInv'
      OBVIOUS
    <3>2. PICK end, p : ReadUpTo(end, p) /\ (outcome = "reading" => QueueUpTo(end, p))
      BY <3>1 DEF StreamInv, ReaderInv
    <3>3. ReadUpTo(end, p)'
      BY <2>2, <2>3, <3>2, ReadStays
    <3>4. outcome = "reading" => QueueUpTo(end, p)'
      <4>1. Lost => Lost'
        BY <2>1 DEF Lost
      <4>2. outcome = "reading" /\ reader' = "closed" => sending' = <<>>
        BY <2>1, <3>2 DEF QueueUpTo, EndQueue
      <4>3. UNCHANGED <<request, text, toolCalls, finish, OnTheWay>> /\ reader' = reader
        BY <2>1, <2>2
      <4> QED BY <2>3, <3>2, <4>1, <4>2, <4>3, QueueStays
    <3> QED BY <2>1, <3>3, <3>4 DEF ReaderInv
  <2>7. TextSoFar' /\ CallsSoFar'
    BY <2>1, <2>5 DEF StreamInv, TextSoFar, CallsSoFar
  <2>8. outcome' = "reply" => Lost' \/ ReplyIsWhole'
    BY <2>1, <2>5 DEF StreamInv, Lost, ReplyIsWhole
  <2> QED BY <2>1, <2>4, <2>6, <2>7, <2>8 DEF StreamInv
<1> QED BY <1>1, <1>2, <1>3, <1>4, <1>5, <1>6, <1>7, <1>8, <1>9, <1>10, <1>11
     DEF StreamNext, ReaderStep, ConsumerStep

LEMMA StreamFaithful ==
  StreamInv => StreamTypeOK /\ ReplyIsFaithful
<1> SUFFICES ASSUME StreamInv PROVE StreamTypeOK /\ ReplyIsFaithful
  OBVIOUS
<1>1. StreamTypeOK /\ TextSoFar /\ CallsSoFar /\ reply.text \in Nat /\ text \in Seq(Nat)
  BY DEF StreamInv, StreamTypes, StreamTypeOK, ReplySet
<1>2. IsPrefix(text, [i \in 1..reply.text |-> i])
  <2> DEFINE whole == [i \in 1..reply.text |-> i]
  <2>1. Len(text) \in Nat /\ Len(text) <= reply.text
    BY <1>1, LenProperties DEF TextSoFar
  <2>2. whole \in Seq(Nat) /\ Len(whole) = reply.text /\ \A i \in 1..reply.text : whole[i] = i
    <3>1. whole \in [1..reply.text -> Nat] /\ DOMAIN whole = 1..reply.text
      BY <1>1
    <3>2. whole \in Seq(Nat)
      BY <1>1, <3>1, SeqDef
    <3> QED BY <1>1, <3>1, <3>2, LenProperties
  <2> HIDE DEF whole
  <2>3. SubSeq(whole, 1, Len(text)) = [i \in 1..Len(text) |-> whole[i]]
    BY <2>1, <2>2
  <2>4. SubSeq(whole, 1, Len(text)) = text
    <3>1. \A i \in 1..Len(text) : whole[i] = i
      BY <1>1, <2>1, <2>2
    <3> QED BY <1>1, <2>3, <3>1 DEF TextSoFar
  <2>5. SubSeq(text, 1, Len(text)) = text
    <3>1. SubSeq(text, 1, Len(text)) = [i \in 1..Len(text) |-> text[i]]
      BY <1>1, <2>1
    <3>2. DOMAIN text = 1..Len(text) /\ text = [i \in DOMAIN text |-> text[i]]
      BY <1>1, LenProperties
    <3> QED BY <3>1, <3>2
  <2>6. IsPrefix(text, whole)
    BY <2>1, <2>2, <2>4, <2>5 DEF IsPrefix
  <2> QED BY <2>6 DEF whole
<1>3. outcome = "reply" => Lost \/ ReplyIsWhole
  BY DEF StreamInv
<1> QED BY <1>1, <1>2, <1>3 DEF ReplyIsFaithful, CallsSoFar, Lost, ReplyIsWhole

LEMMA StreamKeeps ==
  StreamInit /\ [][StreamNext]_streamVars => [](StreamTypeOK /\ ReplyIsFaithful)
<1>1. StreamInit => StreamInv
  BY StreamBegins
<1>2. StreamInv /\ [StreamNext]_streamVars => StreamInv'
  BY StreamStep
<1>3. StreamInv => StreamTypeOK /\ ReplyIsFaithful
  BY StreamFaithful
<1> QED BY <1>1, <1>2, <1>3, PTL
=============================================================================
