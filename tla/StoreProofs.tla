----------------------------- MODULE StoreProofs -----------------------------
(***************************************************************************)
(* Proofs about what the daemon keeps: the conversation history            *)
(* (EpisodicMemory), the index of the notes (SemanticIndex) and the chunks *)
(* of a note (Chunker), the audit log (AuditLog), the tables of background *)
(* processes (ProcessTool) and of sub-agents (SubAgents), its own start    *)
(* and end (DaemonLifecycle) and the failures of a trigger                 *)
(* (CircuitBreaker), for any number of messages, files, lines, chunks,     *)
(* events, processes, agents, daemons and failures, and any size of a      *)
(* channel, a batch, a chunk or a word.                                    *)
(***************************************************************************)
EXTENDS EpisodicMemory, SemanticIndex, Chunker, AuditLog, ProcessTool, SubAgents, DaemonLifecycle,
        CircuitBreaker, RecursionProofs

-----------------------------------------------------------------------------
(* The conversation history *)

Waiting == ToSet(writeCh)

SavesTaken == {m \in Messages : saver[m] = "accepted"}

QueueInv == \A i, j \in 1..Len(writeCh) : writeCh[i] = writeCh[j] => i = j

\* The five places are disjoint and hold the accepted messages and no others.
PlacesInv ==
  /\ Waiting \intersect (batch \union db \union deleted \union dropped) = {}
  /\ batch \intersect (db \union deleted \union dropped) = {}
  /\ db \intersect (deleted \union dropped) = {}
  /\ deleted \intersect dropped = {}
  /\ Waiting \union batch \union db \union deleted \union dropped = SavesTaken

\* The channel is closed before it is drained, and nothing comes in afterwards.
CloseInv ==
  /\ batchWriter \in {"draining", "done"} => chClosed
  /\ batchWriter = "done" => writeCh = <<>> /\ batch = {}
  /\ memClose = "returned" =>
       batchWriter \in {"done", "dead"} /\ chClosed /\ writeCh = <<>> /\ batch = {}

\* A forgotten message that was not on its way is not on its way later.
ForgottenInv ==
  /\ forgotten \subseteq SavesTaken
  /\ (Waiting \union batch \union db) \intersect forgotten \subseteq overtaken

EpisodicInv == EpisodicTypeOK /\ QueueInv /\ PlacesInv /\ CloseInv /\ ForgottenInv

-----------------------------------------------------------------------------
(* The channel as a queue without repetitions *)

LEMMA ElementsOf ==
  ASSUME NEW s \in Seq(Messages)
  PROVE  ToSet(s) = {s[i] : i \in 1..Len(s)}
BY DEF ToSet

LEMMA SendQueue ==
  ASSUME EpisodicTypeOK, QueueInv, NEW m \in Messages, m \notin Waiting,
         writeCh' = Append(writeCh, m)
  PROVE  writeCh' \in Seq(Messages) /\ QueueInv' /\ Waiting' = Waiting \union {m}
<1>1. /\ writeCh' \in Seq(Messages) /\ Len(writeCh) \in Nat
      /\ Len(writeCh') = Len(writeCh) + 1
      /\ writeCh'[Len(writeCh) + 1] = m
      /\ \A i \in 1..Len(writeCh) : writeCh'[i] = writeCh[i]
  BY DEF EpisodicTypeOK
<1>2. Waiting = {writeCh[i] : i \in 1..Len(writeCh)}
  BY ElementsOf DEF Waiting, EpisodicTypeOK
<1>3. Waiting' = {writeCh'[i] : i \in 1..Len(writeCh')}
  BY <1>1, ElementsOf DEF Waiting
<1>4. 1..Len(writeCh') = 1..Len(writeCh) \union {Len(writeCh) + 1}
  BY <1>1
<1>5. Waiting' = Waiting \union {m}
  BY <1>1, <1>2, <1>3, <1>4
<1>6. ASSUME NEW i \in 1..Len(writeCh'), NEW j \in 1..Len(writeCh'), writeCh'[i] = writeCh'[j]
      PROVE  i = j
  <2>1. \A k \in 1..Len(writeCh) : writeCh[k] # m
    BY <1>2
  <2>2. i \in 1..Len(writeCh) \/ i = Len(writeCh) + 1
    BY <1>4
  <2>3. j \in 1..Len(writeCh) \/ j = Len(writeCh) + 1
    BY <1>4
  <2> QED BY <1>1, <1>6, <2>1, <2>2, <2>3 DEF QueueInv
<1>7. QueueInv'
  BY <1>6 DEF QueueInv
<1> QED BY <1>1, <1>5, <1>7

LEMMA ReceiveQueue ==
  ASSUME EpisodicTypeOK, QueueInv, writeCh # <<>>, writeCh' = Tail(writeCh)
  PROVE  /\ writeCh' \in Seq(Messages) /\ QueueInv'
         /\ Head(writeCh) \in Waiting /\ Waiting' = Waiting \ {Head(writeCh)}
<1>1. /\ writeCh' \in Seq(Messages) /\ Len(writeCh) \in Nat \ {0}
      /\ Len(writeCh') = Len(writeCh) - 1 /\ Head(writeCh) = writeCh[1]
      /\ \A i \in 1..Len(writeCh') : writeCh'[i] = writeCh[i + 1]
  BY DEF EpisodicTypeOK
<1>2. Waiting = {writeCh[i] : i \in 1..Len(writeCh)}
  BY ElementsOf DEF Waiting, EpisodicTypeOK
<1>3. Waiting' = {writeCh'[i] : i \in 1..Len(writeCh')}
  BY <1>1, ElementsOf DEF Waiting
<1>4. 1 \in 1..Len(writeCh)
  BY <1>1
<1>5. Waiting' \subseteq Waiting \ {writeCh[1]}
  <2>1. ASSUME NEW i \in 1..Len(writeCh') PROVE writeCh'[i] \in Waiting \ {writeCh[1]}
    <3>1. i + 1 \in 1..Len(writeCh) /\ i + 1 # 1
      BY <1>1
    <3>2. writeCh[i + 1] # writeCh[1]
      BY <1>4, <3>1 DEF QueueInv
    <3> QED BY <1>1, <1>2, <3>1, <3>2
  <2> QED BY <1>3, <2>1
<1>6. Waiting \ {writeCh[1]} \subseteq Waiting'
  <2>1. ASSUME NEW i \in 1..Len(writeCh), i # 1 PROVE writeCh[i] \in Waiting'
    <3>1. i - 1 \in 1..Len(writeCh') /\ (i - 1) + 1 = i
      BY <1>1, <2>1
    <3>2. writeCh'[i - 1] = writeCh[i]
      BY <1>1, <3>1
    <3> QED BY <1>3, <3>1, <3>2
  <2> QED BY <1>2, <2>1
<1>7. ASSUME NEW i \in 1..Len(writeCh'), NEW j \in 1..Len(writeCh'), writeCh'[i] = writeCh'[j]
      PROVE  i = j
  <2>1. i + 1 \in 1..Len(writeCh) /\ j + 1 \in 1..Len(writeCh)
    BY <1>1
  <2>2. i + 1 = j + 1
    BY <1>1, <1>7, <2>1 DEF QueueInv
  <2> QED BY <1>1, <2>2
<1>8. QueueInv'
  BY <1>7 DEF QueueInv
<1> QED BY <1>1, <1>2, <1>4, <1>5, <1>6, <1>8

-----------------------------------------------------------------------------
LEMMA EpisodicStarts == EpisodicInit => EpisodicInv
<1> SUFFICES ASSUME EpisodicInit PROVE EpisodicInv
  OBVIOUS
<1>1. Waiting = {} /\ SavesTaken = {} /\ Len(writeCh) = 0
  BY DEF EpisodicInit, Waiting, SavesTaken, ToSet
<1>2. EpisodicTypeOK
  <2>1. writeCh \in Seq(Messages) /\ Len(writeCh) <= WriteCap
    BY <1>1, EpisodicConfig DEF EpisodicInit
  <2> QED BY <2>1 DEF EpisodicInit, EpisodicTypeOK
<1>3. QueueInv /\ PlacesInv /\ CloseInv /\ ForgottenInv
  BY <1>1 DEF EpisodicInit, QueueInv, PlacesInv, CloseInv, ForgottenInv
<1> QED BY <1>2, <1>3 DEF EpisodicInv

\* A flush moves the whole batch to the database or to the failed messages.
LEMMA FlushMoves ==
  ASSUME NEW b, Flush(b)
  PROVE  /\ batch' = {} /\ db' \union dropped' = db \union dropped \union b
         /\ db \subseteq db' /\ dropped \subseteq dropped'
         /\ db' \subseteq db \union b /\ dropped' \subseteq dropped \union b
         /\ b \intersect db = {} /\ b \intersect dropped = {} /\ db \intersect dropped = {} =>
              db' \intersect dropped' = {}
BY DEF Flush

LEMMA EpisodicStep == EpisodicInv /\ [EpisodicNext]_episodicVars => EpisodicInv'
<1> SUFFICES ASSUME EpisodicInv, [EpisodicNext]_episodicVars PROVE EpisodicInv'
  OBVIOUS
<1>0. EpisodicTypeOK /\ QueueInv /\ PlacesInv /\ CloseInv /\ ForgottenInv
  BY DEF EpisodicInv
<1>1. Waiting' = Waiting \/ writeCh' # writeCh
  BY DEF Waiting
<1>2. ASSUME NEW m \in Messages, SaveAccepted(m) PROVE EpisodicInv'
  <2>1. m \notin Waiting \union batch \union db \union deleted \union dropped
    BY <1>0, <1>2 DEF SaveAccepted, PlacesInv, SavesTaken
  <2>2. writeCh' \in Seq(Messages) /\ QueueInv' /\ Waiting' = Waiting \union {m}
    BY <1>0, <1>2, <2>1, SendQueue DEF SaveAccepted
  <2>3. SavesTaken' = SavesTaken \union {m}
    BY <1>0, <1>2 DEF SaveAccepted, SavesTaken, EpisodicTypeOK
  <2>4. PlacesInv'
    BY <1>0, <1>2, <2>1, <2>2, <2>3 DEF SaveAccepted, PlacesInv
  <2>5. CloseInv'
    BY <1>0, <1>2 DEF SaveAccepted, CloseInv
  <2>6. EpisodicTypeOK'
    <3>1. Len(writeCh') <= WriteCap
      BY <1>0, <1>2, EpisodicConfig DEF SaveAccepted, EpisodicTypeOK
    <3> QED BY <1>0, <1>2, <2>2, <3>1 DEF SaveAccepted, EpisodicTypeOK
  <2>7. ForgottenInv'
    <3>1. m \notin SavesTaken /\ UNCHANGED <<batch, db, forgotten, overtaken>>
      BY <1>2 DEF SaveAccepted, SavesTaken
    <3> QED BY <1>0, <2>2, <2>3, <3>1 DEF ForgottenInv
  <2> QED BY <2>2, <2>4, <2>5, <2>6, <2>7 DEF EpisodicInv
<1>3. ASSUME NEW m \in Messages, SaveBegins(m) \/ SaveRefused(m) \/ SavePanics(m) PROVE EpisodicInv'
  <2>1. UNCHANGED <<writeCh, batch, db, deleted, dropped, chClosed, memClose>>
    BY <1>3 DEF SaveBegins, SaveRefused, SavePanics
  <2>2. SavesTaken' = SavesTaken
    BY <1>0, <1>3 DEF SaveBegins, SaveRefused, SavePanics, SavesTaken, EpisodicTypeOK
  <2>3. PlacesInv' /\ QueueInv'
    BY <1>0, <1>1, <2>1, <2>2 DEF PlacesInv, QueueInv
  <2>4. CloseInv'
    BY <1>0, <1>3, <2>1 DEF SaveBegins, SaveRefused, SavePanics, CloseInv
  <2>5. UNCHANGED <<forgotten, overtaken>>
    BY <1>3 DEF SaveBegins, SaveRefused, SavePanics
  <2>6. EpisodicTypeOK'
    BY <1>0, <1>3, <2>1, <2>5 DEF SaveBegins, SaveRefused, SavePanics, EpisodicTypeOK
  <2>7. ForgottenInv'
    BY <1>0, <1>1, <2>1, <2>2, <2>5 DEF ForgottenInv
  <2> QED BY <2>3, <2>4, <2>6, <2>7 DEF EpisodicInv
<1>4. CASE Take
  <2> DEFINE h == Head(writeCh)
  <2>1. /\ writeCh # <<>> /\ writeCh' = Tail(writeCh) /\ Writing
        /\ UNCHANGED <<saver, chClosed, batchWriter, memClose, deleted, forgotten, overtaken>>
    BY <1>4 DEF Take
  <2>2. /\ writeCh' \in Seq(Messages) /\ QueueInv'
        /\ h \in Waiting /\ Waiting' = Waiting \ {h}
    BY <1>0, <2>1, ReceiveQueue
  <2>3. \/ Flush(batch \union {h})
        \/ batch' = batch \union {h} /\ UNCHANGED <<db, dropped>>
    BY <1>4 DEF Take
  <2>4. SavesTaken' = SavesTaken
    BY <2>1 DEF SavesTaken
  <2> HIDE DEF h
  <2>5. PlacesInv'
    <3>1. CASE Flush(batch \union {h})
      <4>1. /\ batch' = {} /\ db' \union dropped' = db \union dropped \union batch \union {h}
            /\ db' \intersect dropped' = {}
        BY <1>0, <2>2, <3>1, FlushMoves DEF PlacesInv
      <4> QED BY <1>0, <2>1, <2>2, <2>4, <4>1 DEF PlacesInv
    <3>2. CASE batch' = batch \union {h} /\ UNCHANGED <<db, dropped>>
      BY <1>0, <2>1, <2>2, <2>4, <3>2 DEF PlacesInv
    <3> QED BY <2>3, <3>1, <3>2
  <2>6. CloseInv'
    BY <1>0, <2>1 DEF CloseInv, Writing
  <2>7. /\ batch' \subseteq batch \union {h} /\ db' \subseteq db \union batch \union {h}
        /\ dropped' \subseteq dropped \union batch \union {h}
    BY <2>3, FlushMoves
  <2>8. EpisodicTypeOK'
    <3>1. Len(writeCh') <= WriteCap
      BY <1>0, <2>1, EpisodicConfig DEF EpisodicTypeOK
    <3>2. h \in Messages
      BY <1>0, <2>1 DEF EpisodicTypeOK, h
    <3>3. batch' \subseteq Messages /\ db' \subseteq Messages /\ dropped' \subseteq Messages
      BY <1>0, <2>7, <3>2 DEF EpisodicTypeOK
    <3> QED BY <1>0, <2>1, <2>2, <3>1, <3>3 DEF EpisodicTypeOK
  <2>9. ForgottenInv'
    BY <1>0, <2>1, <2>2, <2>4, <2>7 DEF ForgottenInv
  <2> QED BY <2>2, <2>5, <2>6, <2>8, <2>9 DEF EpisodicInv
<1>5. CASE TimerFires \/ StopNoticed \/ Drained
  <2>1. Flush(batch) /\ UNCHANGED <<saver, writeCh, memClose, deleted, forgotten, overtaken>>
    BY <1>5 DEF TimerFires, StopNoticed, Drained
  <2>2. SavesTaken' = SavesTaken /\ Waiting' = Waiting
    BY <2>1 DEF SavesTaken, Waiting
  <2>3. /\ batch' = {} /\ db' \union dropped' = db \union dropped \union batch
        /\ db' \intersect dropped' = {}
        /\ db' \subseteq db \union batch /\ dropped' \subseteq dropped \union batch
    BY <1>0, <2>1, FlushMoves DEF PlacesInv
  <2>4. PlacesInv'
    BY <1>0, <2>1, <2>2, <2>3 DEF PlacesInv
  <2>5. QueueInv'
    BY <1>0, <2>1 DEF QueueInv
  <2>6. CloseInv'
    BY <1>0, <1>5, <2>1, <2>3 DEF CloseInv, TimerFires, StopNoticed, Drained, EpisodicTypeOK
  <2>7. EpisodicTypeOK'
    <3>1. batch' \subseteq Messages /\ db' \subseteq Messages /\ dropped' \subseteq Messages
      BY <1>0, <2>3 DEF EpisodicTypeOK
    <3>2. chClosed' \in BOOLEAN /\ batchWriter' \in {"running", "draining", "done", "dead"}
      BY <1>0, <1>5 DEF EpisodicTypeOK, TimerFires, StopNoticed, Drained
    <3> QED BY <1>0, <2>1, <3>1, <3>2 DEF EpisodicTypeOK
  <2>8. ForgottenInv'
    BY <1>0, <2>1, <2>2, <2>3 DEF ForgottenInv
  <2> QED BY <2>4, <2>5, <2>6, <2>7, <2>8 DEF EpisodicInv
<1>6. CASE DeleteSession
  <2>1. /\ deleted' = deleted \union db /\ db' = {}
        /\ forgotten' = SavesTaken /\ overtaken' = overtaken \union batch \union Waiting
        /\ UNCHANGED <<saver, writeCh, chClosed, batch, batchWriter, memClose, dropped>>
    BY <1>6 DEF DeleteSession, SavesTaken, Waiting
  <2>2. SavesTaken' = SavesTaken /\ Waiting' = Waiting
    BY <2>1 DEF SavesTaken, Waiting
  <2>3. PlacesInv'
    BY <1>0, <2>1, <2>2 DEF PlacesInv
  <2>4. ForgottenInv'
    BY <2>1, <2>2 DEF ForgottenInv
  <2>5. EpisodicTypeOK'
    <3>1. SavesTaken \subseteq Messages /\ Waiting \subseteq Messages
      <4>1. Waiting \subseteq SavesTaken
        BY <1>0 DEF PlacesInv
      <4> QED BY <4>1 DEF SavesTaken
    <3>2. /\ deleted' \subseteq Messages /\ db' \subseteq Messages
          /\ forgotten' \subseteq Messages /\ overtaken' \subseteq Messages
      BY <1>0, <2>1, <3>1 DEF EpisodicTypeOK
    <3> QED BY <1>0, <2>1, <3>2 DEF EpisodicTypeOK
  <2> QED BY <1>0, <2>1, <2>3, <2>4, <2>5 DEF EpisodicInv, QueueInv, CloseInv
<1>7. CASE CloseCalled \/ CloseReturns
  <2>1. /\ UNCHANGED <<saver, writeCh, chClosed, batch, db, batchWriter, dropped, deleted>>
        /\ UNCHANGED <<forgotten, overtaken>>
    BY <1>7 DEF CloseCalled, CloseReturns
  <2>2. SavesTaken' = SavesTaken /\ Waiting' = Waiting
    BY <2>1 DEF SavesTaken, Waiting
  <2>3. CloseInv' /\ memClose' \in {"uncalled", "waiting", "returned"}
    BY <1>0, <1>7, <2>1 DEF CloseInv, CloseCalled, CloseReturns
  <2>4. EpisodicTypeOK' /\ QueueInv'
    BY <1>0, <2>1, <2>3 DEF EpisodicTypeOK, QueueInv
  <2>5. PlacesInv' /\ ForgottenInv'
    BY <1>0, <2>1, <2>2 DEF PlacesInv, ForgottenInv
  <2> QED BY <2>3, <2>4, <2>5 DEF EpisodicInv
<1>8. CASE UNCHANGED episodicVars
  BY <1>0, <1>8 DEF episodicVars, EpisodicInv, EpisodicTypeOK, QueueInv, PlacesInv, CloseInv,
                    ForgottenInv, Waiting, SavesTaken
<1> QED BY <1>2, <1>3, <1>4, <1>5, <1>6, <1>7, <1>8 DEF EpisodicNext

\* Disjoint places: a message is in one of them only.
LEMMA OnePlace ==
  ASSUME PlacesInv, NEW m \in Messages, saver[m] = "accepted"
  PROVE  \E i \in 1..5 : Places(m) = {i}
<1> DEFINE P == <<ToSet(writeCh), batch, db, deleted, dropped>>
<1>1. /\ P[1] = Waiting /\ P[2] = batch /\ P[3] = db /\ P[4] = deleted /\ P[5] = dropped
  BY DEF Waiting
<1>2. Places(m) = {i \in 1..5 : m \in P[i]}
  BY DEF Places
<1> HIDE DEF P
<1>3. 1..5 = {1, 2, 3, 4, 5}
  OBVIOUS
<1>4. m \in Waiting \union batch \union db \union deleted \union dropped
  BY DEF PlacesInv, SavesTaken
<1>5. CASE m \in Waiting
  <2>1. m \notin batch /\ m \notin db /\ m \notin deleted /\ m \notin dropped
    BY <1>5 DEF PlacesInv
  <2> QED BY <1>1, <1>2, <1>3, <1>5, <2>1
<1>6. CASE m \in batch
  <2>1. m \notin Waiting /\ m \notin db /\ m \notin deleted /\ m \notin dropped
    BY <1>6 DEF PlacesInv
  <2> QED BY <1>1, <1>2, <1>3, <1>6, <2>1
<1>7. CASE m \in db
  <2>1. m \notin Waiting /\ m \notin batch /\ m \notin deleted /\ m \notin dropped
    BY <1>7 DEF PlacesInv
  <2> QED BY <1>1, <1>2, <1>3, <1>7, <2>1
<1>8. CASE m \in deleted
  <2>1. m \notin Waiting /\ m \notin batch /\ m \notin db /\ m \notin dropped
    BY <1>8 DEF PlacesInv
  <2> QED BY <1>1, <1>2, <1>3, <1>8, <2>1
<1>9. CASE m \in dropped
  <2>1. m \notin Waiting /\ m \notin batch /\ m \notin db /\ m \notin deleted
    BY <1>9 DEF PlacesInv
  <2> QED BY <1>1, <1>2, <1>3, <1>9, <2>1
<1> QED BY <1>4, <1>5, <1>6, <1>7, <1>8, <1>9

-----------------------------------------------------------------------------
\* A message Save accepted is on its way, stored, deleted or dropped, and only one
\* of these, and a Close that has returned leaves none on the way.
THEOREM NothingIsMislaid == EpisodicSpec => []AcceptedIsAccountedFor
<1>1. EpisodicInv => AcceptedIsAccountedFor
  BY OnePlace DEF EpisodicInv, CloseInv, AcceptedIsAccountedFor
<1> QED BY <1>1, EpisodicStarts, EpisodicStep, PTL DEF EpisodicSpec

\* A message of a deleted session is stored again only if it was on its way to the
\* database when the session was deleted, however many batches and ticks come between.
THEOREM ForgottenForGood == EpisodicSpec => []ForgottenStaysForgotten
<1>1. EpisodicInv => ForgottenStaysForgotten
  BY DEF EpisodicInv, ForgottenInv, ForgottenStaysForgotten
<1> QED BY <1>1, EpisodicStarts, EpisodicStep, PTL DEF EpisodicSpec

-----------------------------------------------------------------------------
(* The index of the notes *)

Chunks(f) == {d.chunk : d \in RowsOf(f)}

\* Nothing is indexed of the file, or all chunks of one version.
WholeVersion(f) ==
  RowsOf(f) = {} \/ (Chunks(f) = 1..NumChunks /\ \A d, e \in RowsOf(f) : d.ver = e.ver)

\* A file has one job at a time, which leaves it settled until it clears the old rows, and
\* then has put in the chunks before its next one.
IndexedInv(f) ==
  /\ \A s, t \in Active(f) : s = t
  /\ (\A s \in Active(f) : job[s].step \in {"read", "changed"}) => WholeVersion(f)
  /\ \A s \in Active(f) : job[s].step \in {"cleared", "embedded"} =>
       /\ Chunks(f) = 1..(job[s].next - 1)
       /\ \A d \in RowsOf(f) : d.ver = job[s].ver

JobsInv == \A f \in Files \ broken : IndexedInv(f)

StepsInv == \A s \in Syncers : job[s] # Idle /\ job[s].step # "embedded" => job[s].next = 1

\* While the watches are not set no timer runs, so the clean-up meets no job.
QuietInv == ~watching => due = {} /\ \A s \in Timers : job[s] = Idle

RowsInv == \A d, e \in docs : d.row = e.row => d = e

SemanticInv == SemanticTypeOK /\ JobsInv /\ StepsInv /\ QuietInv /\ RowsInv /\ VectorsMatch

LEMMA NewRowIsNew ==
  ASSUME SemanticTypeOK
  PROVE  NewRow \in Nat \ {0} /\ \A d \in docs : d.row < NewRow
<1>1. CASE docs = {}
  BY <1>1 DEF NewRow
<1>2. CASE docs # {}
  <2> DEFINE T == {d.row : d \in docs}
  <2>1. MaxRow \in Nat /\ \A d \in docs : d.row \in 1..MaxRow
    BY SemanticConfig DEF SemanticTypeOK, Document
  <2>2. T \subseteq 0..MaxRow /\ T # {}
    BY <1>2, <2>1
  <2>3. Max(T) \in T /\ \A y \in T : y <= Max(T)
    <3> HIDE DEF T
    <3> QED BY <2>1, <2>2, MaxOfBounded
  <2>4. NewRow = Max(T) + 1
    BY <1>2 DEF NewRow
  <2>5. Max(T) \in Nat
    BY <2>2, <2>3
  <2>6. ASSUME NEW d \in docs PROVE d.row < NewRow
    <3>1. d.row \in T /\ d.row \in Nat
      BY <2>1
    <3> HIDE DEF T
    <3> QED BY <2>3, <2>4, <2>5, <3>1
  <2> HIDE DEF T
  <2> QED BY <2>4, <2>5, <2>6
<1> QED BY <1>1, <1>2

LEMMA FileKept ==
  ASSUME NEW f \in Files, IndexedInv(f), RowsOf(f)' = RowsOf(f), Active(f)' = Active(f),
         \A s \in Active(f) : job'[s] = job[s]
  PROVE  IndexedInv(f)'
<1>1. Chunks(f)' = Chunks(f)
  BY DEF Chunks
<1>2. WholeVersion(f)' = WholeVersion(f)
  BY <1>1 DEF WholeVersion
<1> QED BY <1>1, <1>2 DEF IndexedInv

\* A syncer takes up, goes on with or ends a job of one file: the other files see nothing.
Moves(s, f, x) ==
  /\ job[s] = Idle \/ job[s].file = f
  /\ x = Idle \/ (x \in SyncJob /\ x.file = f)
  /\ job' = [job EXCEPT ![s] = x]

LEMMA JobMoves ==
  ASSUME SemanticTypeOK, NEW s \in Syncers, NEW f \in Files, NEW x, Moves(s, f, x)
  PROVE  /\ job' \in [Syncers -> {Idle} \union SyncJob] /\ job'[s] = x
         /\ \A t \in Syncers : t # s => job'[t] = job[t]
         /\ \A g \in Files : g # f => Active(g)' = Active(g) /\ s \notin Active(g)
         /\ Active(f)' = IF x = Idle THEN Active(f) \ {s} ELSE Active(f) \union {s}
<1>1. /\ job' \in [Syncers -> {Idle} \union SyncJob] /\ job'[s] = x
      /\ \A t \in Syncers : t # s => job'[t] = job[t]
  BY DEF SemanticTypeOK, Moves
<1>2. \A g \in Files : g # f => Active(g)' = Active(g) /\ s \notin Active(g)
  BY <1>1 DEF Active, Moves
<1>3. x # Idle => x.file = f
  BY DEF Moves
<1>4. Active(f)' = IF x = Idle THEN Active(f) \ {s} ELSE Active(f) \union {s}
  BY <1>1, <1>3 DEF Active
<1> QED BY <1>1, <1>2, <1>4

\* No job of a settled file is under way: all is well with it.
LEMMA FileAtRest ==
  ASSUME NEW f \in Files, Active(f) = {}, WholeVersion(f)
  PROVE  IndexedInv(f)
BY DEF IndexedInv

LEMMA NothingIndexed ==
  ASSUME NEW f \in Files, RowsOf(f) = {}
  PROVE  WholeVersion(f) /\ Chunks(f) = {}
BY DEF WholeVersion, Chunks

LEMMA SemanticStarts == SemanticInit => SemanticInv
<1> SUFFICES ASSUME SemanticInit PROVE SemanticInv
  OBVIOUS
<1>1. \A f \in Files : Active(f) = {} /\ RowsOf(f) = {}
  BY DEF SemanticInit, Active, RowsOf
<1>2. JobsInv
  BY <1>1, NothingIndexed, FileAtRest DEF JobsInv
<1>3. SemanticTypeOK
  BY SemanticConfig DEF SemanticInit, SemanticTypeOK
<1>4. StepsInv /\ QuietInv /\ RowsInv /\ VectorsMatch
  BY DEF SemanticInit, StepsInv, QuietInv, RowsInv, VectorsMatch
<1> QED BY <1>2, <1>3, <1>4 DEF SemanticInv

\* The files change, and the events are handled.
LEMMA FilesStep ==
  ASSUME SemanticInv, NEW f \in Files, Edit(f) \/ RemoveFile(f) \/ HandleRemove(f)
  PROVE  SemanticInv'
<1>0. SemanticTypeOK /\ JobsInv /\ StepsInv /\ QuietInv /\ RowsInv /\ VectorsMatch
  BY DEF SemanticInv
<1>1. UNCHANGED <<vecs, watching, job, scans, scan>> /\ docs' \subseteq docs
  BY DEF Edit, RemoveFile, HandleRemove
<1>2. SemanticTypeOK'
  <2>1. disk' \in [Files -> 0..MaxVersion] /\ edits' \in 0..MaxEdits
    BY <1>0, SemanticConfig DEF Edit, RemoveFile, HandleRemove, SemanticTypeOK
  <2>2. due' \subseteq Files /\ removals' \subseteq Files /\ broken' \subseteq Files
    BY <1>0 DEF Edit, RemoveFile, HandleRemove, SemanticTypeOK
  <2> QED BY <1>0, <1>1, <2>1, <2>2 DEF SemanticTypeOK
<1>3. JobsInv'
  <2> SUFFICES ASSUME NEW g \in Files \ broken' PROVE IndexedInv(g)'
    BY DEF JobsInv
  <2>1. g \notin broken /\ IndexedInv(g)
    BY <1>0 DEF JobsInv, Edit, RemoveFile, HandleRemove
  <2>2. Active(g)' = Active(g)
    BY <1>1 DEF Active
  <2>3. CASE RowsOf(g)' = RowsOf(g)
    BY <1>1, <2>1, <2>2, <2>3, FileKept
  <2>4. CASE RowsOf(g)' # RowsOf(g)
    <3>1. HandleRemove(f) /\ g = f
      BY <2>4 DEF Edit, RemoveFile, HandleRemove, RowsOf
    <3>2. RowsOf(g)' = {} /\ Active(g)' = {}
      BY <2>2, <3>1 DEF HandleRemove, RowsOf
    <3>3. WholeVersion(g)'
      BY <3>2 DEF WholeVersion
    <3> QED BY <3>2, <3>3 DEF IndexedInv
  <2> QED BY <2>3, <2>4
<1>4. StepsInv' /\ RowsInv' /\ VectorsMatch'
  BY <1>0, <1>1 DEF StepsInv, RowsInv, VectorsMatch
<1>5. QuietInv'
  BY <1>0, <1>1 DEF QuietInv, Edit, RemoveFile, HandleRemove
<1> QED BY <1>2, <1>3, <1>4, <1>5 DEF SemanticInv

\* A job that starts, goes on or ends leaves the other files as they were, if it touches
\* rows of its own file only.
LEMMA OtherFilesKept ==
  ASSUME SemanticTypeOK, JobsInv, NEW s \in Syncers, NEW f \in Files, NEW x, Moves(s, f, x),
         broken \subseteq broken',
         \A g \in Files : g # f => RowsOf(g)' = RowsOf(g),
         f \notin broken' => IndexedInv(f)'
  PROVE  JobsInv'
<1> SUFFICES ASSUME NEW g \in Files \ broken', g # f PROVE IndexedInv(g)'
  BY DEF JobsInv
<1>1. IndexedInv(g)
  BY DEF JobsInv
<1>2. /\ \A t \in Syncers : t # s => job'[t] = job[t]
      /\ Active(g)' = Active(g) /\ s \notin Active(g)
  BY JobMoves
<1>3. \A t \in Active(g) : job'[t] = job[t]
  BY <1>2 DEF Active
<1> QED BY <1>1, <1>2, <1>3, FileKept

\* The one job of a file: what its step says of the rows.
LEMMA OnlyJob ==
  ASSUME SemanticTypeOK, JobsInv, StepsInv, NEW s \in Syncers, job[s] # Idle,
         job[s].file \notin broken
  PROVE  /\ job[s] \in SyncJob /\ Active(job[s].file) = {s}
         /\ job[s].step \in {"read", "changed"} => WholeVersion(job[s].file)
         /\ job[s].step \in {"cleared", "embedded"} =>
              /\ Chunks(job[s].file) = 1..(job[s].next - 1)
              /\ \A d \in RowsOf(job[s].file) : d.ver = job[s].ver
         /\ job[s].step # "embedded" => job[s].next = 1
<1> DEFINE f == job[s].file
<1>1. job[s] \in SyncJob /\ f \in Files /\ s \in Active(f)
  BY DEF SemanticTypeOK, SyncJob, Active
<1>2. IndexedInv(f)
  BY <1>1 DEF JobsInv
<1>3. Active(f) = {s}
  BY <1>1, <1>2 DEF IndexedInv
<1> HIDE DEF f
<1>4. f = job[s].file
  BY DEF f
<1> QED BY <1>1, <1>2, <1>3, <1>4 DEF IndexedInv, StepsInv

LEMMA BeginStep ==
  ASSUME SemanticInv, NEW s \in Syncers, NEW f \in Files, BeginJob(s, f), s \in Timers => watching,
         due' \subseteq due, scan' \subseteq scan
  PROVE  SemanticInv'
<1>0. SemanticTypeOK /\ JobsInv /\ StepsInv /\ QuietInv /\ RowsInv /\ VectorsMatch
  BY DEF SemanticInv
<1>1. /\ UNCHANGED <<disk, edits, docs, vecs, removals, scans, watching>> /\ job[s] = Idle
      /\ broken' = IF Active(f) # {} THEN broken \union {f} ELSE broken
  BY DEF BeginJob
<1> DEFINE new == [step |-> "read", file |-> f, ver |-> disk[f], next |-> 1, fits |-> TRUE]
           x == IF disk[f] = 0 THEN Idle ELSE new
<1>2. x = Idle \/ (x \in SyncJob /\ x.file = f /\ x.step = "read" /\ x.next = 1)
  <2>1. disk[f] # 0 => disk[f] \in 1..MaxVersion
    BY <1>0, SemanticConfig DEF SemanticTypeOK
  <2>2. 1 \in 1..NumChunks
    BY SemanticConfig
  <2> QED BY <2>1, <2>2 DEF SyncJob
<1>3. Moves(s, f, x)
  <2>1. job' = [job EXCEPT ![s] = x]
    BY <1>0, <1>1 DEF BeginJob, SemanticTypeOK
  <2> HIDE DEF x
  <2> QED BY <1>1, <1>2, <2>1 DEF Moves
<1> HIDE DEF x
<1>4. /\ job' \in [Syncers -> {Idle} \union SyncJob] /\ job'[s] = x
      /\ \A t \in Syncers : t # s => job'[t] = job[t]
      /\ Active(f)' = IF x = Idle THEN Active(f) \ {s} ELSE Active(f) \union {s}
  BY <1>0, <1>1, <1>2, <1>3, JobMoves
<1>5. ASSUME f \notin broken' PROVE IndexedInv(f)'
  <2>1. Active(f) = {} /\ IndexedInv(f)
    BY <1>0, <1>1, <1>5 DEF JobsInv
  <2>2. WholeVersion(f)
    BY <2>1 DEF IndexedInv
  <2>3. WholeVersion(f)'
    BY <1>1, <2>2 DEF WholeVersion, Chunks, RowsOf
  <2>4. Active(f)' \subseteq {s}
    BY <1>4, <2>1
  <2>5. s \in Active(f)' => job'[s].step = "read"
    BY <1>2, <1>4, <2>1
  <2> QED BY <2>3, <2>4, <2>5 DEF IndexedInv
<1>6. JobsInv'
  <2>1. \A g \in Files : RowsOf(g)' = RowsOf(g)
    BY <1>1 DEF RowsOf
  <2>2. broken \subseteq broken'
    BY <1>1
  <2> QED BY <1>0, <1>1, <1>2, <1>3, <1>5, <2>1, <2>2, OtherFilesKept
<1>7. SemanticTypeOK'
  BY <1>0, <1>1, <1>4 DEF SemanticTypeOK
<1>8. StepsInv' /\ QuietInv'
  BY <1>0, <1>1, <1>2, <1>4 DEF StepsInv, QuietInv, Syncers
<1>9. RowsInv' /\ VectorsMatch'
  BY <1>0, <1>1 DEF RowsInv, VectorsMatch
<1> QED BY <1>6, <1>7, <1>8, <1>9 DEF SemanticInv

\* The job goes on to another step, or ends.
LEMMA JobStep ==
  ASSUME SemanticInv, NEW s \in Syncers, NEW f, f = job[s].file,
         CheckHash(s) \/ ClearOld(s) \/ EmbedChunks(s) \/ IndexFails(s)
  PROVE  SemanticInv'
<1>0. SemanticTypeOK /\ JobsInv /\ StepsInv /\ QuietInv /\ RowsInv /\ VectorsMatch
  BY DEF SemanticInv
<1>1. /\ UNCHANGED <<disk, edits, vecs, due, removals, scan, scans, watching>>
      /\ docs' \subseteq docs /\ broken \subseteq broken'
  BY DEF CheckHash, ClearOld, EmbedChunks, IndexFails
<1>2. job[s] # Idle /\ job[s] \in SyncJob /\ f \in Files
  <2>1. job[s].step \in {"read", "changed", "cleared", "embedded"}
    BY DEF CheckHash, ClearOld, EmbedChunks, IndexFails
  <2>2. job[s] # Idle
    BY <2>1 DEF Idle
  <2> QED BY <1>0, <2>2 DEF SemanticTypeOK, SyncJob
<1>3. PICK x : /\ job' = [job EXCEPT ![s] = x]
               /\ \/ x = Idle
                  \/ x \in SyncJob /\ x.file = f /\ x.next = job[s].next /\ x.ver = job[s].ver
               /\ \/ CheckHash(s) /\ (x = Idle \/ x.step = "changed")
                  \/ ClearOld(s) /\ x # Idle /\ x.step = "cleared"
                  \/ EmbedChunks(s) /\ (x = Idle \/ x.step = "embedded")
                  \/ IndexFails(s) /\ x = Idle
  <2>1. CASE CheckHash(s)
    <3>1. CASE job' = [job EXCEPT ![s] = Idle]
      BY <2>1, <3>1
    <3>2. CASE job' = [job EXCEPT ![s].step = "changed"]
      <4>1. job' = [job EXCEPT ![s] = [job[s] EXCEPT !.step = "changed"]]
        BY <3>2
      <4>2. [job[s] EXCEPT !.step = "changed"] \in SyncJob
        BY <1>2 DEF SyncJob
      <4> QED BY <1>2, <2>1, <4>1, <4>2 DEF SyncJob
    <3> QED BY <2>1, <3>1, <3>2 DEF CheckHash, EndJob, Goto
  <2>2. CASE ClearOld(s)
    <3>1. job' = [job EXCEPT ![s] = [job[s] EXCEPT !.step = "cleared"]]
      BY <2>2 DEF ClearOld, Goto
    <3>2. [job[s] EXCEPT !.step = "cleared"] \in SyncJob
      BY <1>2 DEF SyncJob
    <3>3. [job[s] EXCEPT !.step = "cleared"] # Idle
      BY <1>2 DEF SyncJob, Idle
    <3> QED BY <1>2, <2>2, <3>1, <3>2, <3>3 DEF SyncJob
  <2>3. CASE EmbedChunks(s)
    <3>1. CASE job' = [job EXCEPT ![s] = Idle]
      BY <2>3, <3>1
    <3>2. ASSUME NEW fits \in BOOLEAN, job' = [job EXCEPT ![s].step = "embedded", ![s].fits = fits]
          PROVE  \E x : /\ job' = [job EXCEPT ![s] = x]
                        /\ x \in SyncJob /\ x.file = f /\ x.next = job[s].next /\ x.ver = job[s].ver
                        /\ x.step = "embedded"
      <4>1. job' = [job EXCEPT ![s] = [job[s] EXCEPT !.step = "embedded", !.fits = fits]]
        BY <1>0, <3>2 DEF SemanticTypeOK
      <4>2. [job[s] EXCEPT !.step = "embedded", !.fits = fits] \in SyncJob
        BY <1>2 DEF SyncJob
      <4> QED BY <1>2, <4>1, <4>2 DEF SyncJob
    <3>3. \/ job' = [job EXCEPT ![s] = Idle]
          \/ \E fits \in BOOLEAN : job' = [job EXCEPT ![s].step = "embedded", ![s].fits = fits]
      BY <2>3 DEF EmbedChunks, EndJob
    <3> QED BY <2>3, <3>1, <3>2, <3>3
  <2>4. CASE IndexFails(s)
    BY <2>4 DEF IndexFails, EndJob
  <2> QED BY <2>1, <2>2, <2>3, <2>4
<1>12. Moves(s, f, x)
  BY <1>3 DEF Moves
<1>5. /\ \A g \in Files : g # f => RowsOf(g)' = RowsOf(g)
      /\ ClearOld(s) => RowsOf(f)' = {}
      /\ ~ClearOld(s) => RowsOf(f)' = RowsOf(f)
  <2>1. ClearOld(s) => docs' = {d \in docs : d.file # f}
    BY DEF ClearOld, RowsOf
  <2>2. ~ClearOld(s) => docs' = docs
    BY DEF CheckHash, EmbedChunks, IndexFails
  <2> QED BY <2>1, <2>2 DEF RowsOf
<1>4. /\ job' \in [Syncers -> {Idle} \union SyncJob] /\ job'[s] = x
      /\ \A t \in Syncers : t # s => job'[t] = job[t]
      /\ Active(f)' = IF x = Idle THEN Active(f) \ {s} ELSE Active(f) \union {s}
  BY <1>0, <1>2, <1>12, JobMoves
<1>6. ASSUME f \notin broken' PROVE IndexedInv(f)'
  <2>1. f \notin broken /\ (IndexFails(s) => job[s].next <= 1)
    BY <1>1, <1>6, <1>2 DEF IndexFails, SyncJob
  <2>2. /\ Active(f) = {s}
        /\ job[s].step \in {"read", "changed"} => WholeVersion(f)
        /\ job[s].step \in {"cleared", "embedded"} =>
             Chunks(f) = 1..(job[s].next - 1) /\ \A d \in RowsOf(f) : d.ver = job[s].ver
        /\ job[s].step # "embedded" => job[s].next = 1
    BY <1>0, <1>2, <2>1, OnlyJob
  <2>3. Active(f)' \subseteq {s} /\ (x = Idle => Active(f)' = {})
    BY <1>4, <2>2
  <2>4. CASE CheckHash(s)
    <3>1. WholeVersion(f) /\ ~ClearOld(s)
      BY <2>2, <2>4 DEF CheckHash, ClearOld
    <3>2. WholeVersion(f)'
      BY <1>5, <3>1 DEF WholeVersion, Chunks
    <3>3. x = Idle \/ x.step = "changed"
      BY <1>3, <2>4, <3>1 DEF CheckHash, EmbedChunks, IndexFails
    <3> QED BY <1>4, <2>3, <3>2, <3>3 DEF IndexedInv
  <2>5. CASE ClearOld(s)
    <3>1. RowsOf(f)' = {} /\ Chunks(f)' = {} /\ WholeVersion(f)'
      BY <1>5, <2>5 DEF Chunks, WholeVersion
    <3>2. x.next = 1 /\ x # Idle
      BY <1>3, <2>2, <2>5 DEF ClearOld, CheckHash, EmbedChunks, IndexFails
    <3>3. 1..(x.next - 1) = {}
      BY <3>2
    <3> QED BY <1>4, <2>3, <3>1, <3>3 DEF IndexedInv
  <2>6. CASE EmbedChunks(s) \/ IndexFails(s)
    <3>1. job[s].next = 1 /\ job[s].step \in {"cleared", "embedded"}
      BY <1>2, <2>1, <2>2, <2>6 DEF EmbedChunks, IndexFails, SyncJob
    <3>2. Chunks(f) = {}
      BY <2>2, <3>1
    <3>3. RowsOf(f)' = {}
      BY <1>5, <3>2 DEF Chunks
    <3>4. Chunks(f)' = {} /\ WholeVersion(f)'
      BY <3>3 DEF Chunks, WholeVersion
    <3>5. x # Idle => x.next = 1
      BY <1>3, <3>1
    <3>6. x # Idle => 1..(x.next - 1) = {}
      BY <3>5
    <3> QED BY <1>4, <2>3, <3>3, <3>4, <3>6 DEF IndexedInv
  <2> QED BY <2>4, <2>5, <2>6
<1>7. JobsInv'
  BY <1>0, <1>1, <1>2, <1>5, <1>6, <1>12, OtherFilesKept
<1>8. SemanticTypeOK'
  <2>1. broken' \subseteq Files /\ docs' \subseteq Document
    BY <1>0, <1>1, <1>2 DEF SemanticTypeOK, CheckHash, ClearOld, EmbedChunks, IndexFails
  <2> QED BY <1>0, <1>1, <1>4, <2>1 DEF SemanticTypeOK
<1>9. StepsInv'
  <2>1. x # Idle /\ x.step # "embedded" => x.next = 1
    BY <1>0, <1>2, <1>3 DEF StepsInv, CheckHash, ClearOld
  <2> QED BY <1>0, <1>4, <2>1 DEF StepsInv
<1>10. QuietInv'
  BY <1>0, <1>1, <1>2, <1>4 DEF QuietInv, Syncers
<1>11. RowsInv' /\ VectorsMatch'
  BY <1>0, <1>1 DEF RowsInv, VectorsMatch
<1> QED BY <1>7, <1>8, <1>9, <1>10, <1>11 DEF SemanticInv

\* A chunk is put in: the next one of its file, under a rowid no row and, if it brings a
\* vector, no vector has.
LEMMA IndexStep ==
  ASSUME SemanticInv, NEW s \in Syncers, NEW f, f = job[s].file, IndexChunk(s)
  PROVE  SemanticInv'
<1>0. SemanticTypeOK /\ JobsInv /\ StepsInv /\ QuietInv /\ RowsInv /\ VectorsMatch
  BY DEF SemanticInv
<1>1. /\ UNCHANGED <<disk, edits, due, removals, scan, scans, watching, broken>>
      /\ job[s].step = "embedded" /\ NewRow <= MaxRow /\ job[s] # Idle
  BY DEF IndexChunk, Idle
<1>2. job[s] \in SyncJob /\ f \in Files
  BY <1>0, <1>1 DEF SemanticTypeOK, SyncJob
<1>3. PICK new : /\ new = [row |-> NewRow, file |-> f, chunk |-> job[s].next,
                           ver |-> job[s].ver, fits |-> job[s].fits]
                 /\ docs' = {d \in docs : ~(d.file = f /\ d.chunk = job[s].next)} \union {new}
  BY DEF IndexChunk, Indexed
<1>4. /\ new \in Document /\ new.row = NewRow /\ new.file = f /\ new.chunk = job[s].next
      /\ new.ver = job[s].ver /\ new.fits = job[s].fits
      /\ \A d \in docs : d \in Document /\ d.row # NewRow
  <2>1. NewRow \in 1..MaxRow /\ \A d \in docs : d.row < NewRow
    BY <1>0, <1>1, NewRowIsNew, SemanticConfig
  <2>2. \A d \in docs : d \in Document
    BY <1>0 DEF SemanticTypeOK
  <2>3. \A d \in docs : d.row # NewRow
    BY <2>1, <2>2 DEF Document
  <2> QED BY <1>2, <1>3, <2>1, <2>2, <2>3 DEF Document, SyncJob
<1>5. PICK x : /\ job' = [job EXCEPT ![s] = x]
               /\ \/ job[s].next = NumChunks /\ x = Idle
                  \/ /\ job[s].next # NumChunks /\ x \in SyncJob /\ x.file = f
                     /\ x.next = job[s].next + 1 /\ x.ver = job[s].ver /\ x.step = "embedded"
  <2>1. CASE job[s].next = NumChunks
    BY <2>1 DEF IndexChunk, ChunkDone, EndJob
  <2>2. CASE job[s].next # NumChunks
    <3>1. job' = [job EXCEPT ![s] = [job[s] EXCEPT !.next = job[s].next + 1]]
      BY <2>2 DEF IndexChunk, ChunkDone
    <3>2. job[s].next + 1 \in 1..NumChunks
      BY <1>2, <2>2, SemanticConfig DEF SyncJob
    <3>3. [job[s] EXCEPT !.next = job[s].next + 1] \in SyncJob
      BY <1>2, <3>2 DEF SyncJob
    <3> QED BY <1>1, <1>2, <2>2, <3>1, <3>3 DEF SyncJob
  <2> QED BY <2>1, <2>2
<1>6. Moves(s, f, x)
  BY <1>5 DEF Moves
<1>7. /\ job' \in [Syncers -> {Idle} \union SyncJob] /\ job'[s] = x
      /\ \A t \in Syncers : t # s => job'[t] = job[t]
      /\ Active(f)' = IF x = Idle THEN Active(f) \ {s} ELSE Active(f) \union {s}
  BY <1>0, <1>2, <1>6, JobMoves
<1>8. /\ \A g \in Files : g # f => RowsOf(g)' = RowsOf(g)
      /\ RowsOf(f)' = {d \in RowsOf(f) : d.chunk # job[s].next} \union {new}
  BY <1>3, <1>4 DEF RowsOf
<1>9. ASSUME f \notin broken' PROVE IndexedInv(f)'
  <2>1. /\ Active(f) = {s} /\ Chunks(f) = 1..(job[s].next - 1)
        /\ \A d \in RowsOf(f) : d.ver = job[s].ver
    BY <1>0, <1>1, <1>9, OnlyJob
  <2>2. job[s].next \in 1..NumChunks /\ NumChunks \in Nat \ {0}
    BY <1>2, SemanticConfig DEF SyncJob
  <2>3. job[s].next \notin 1..(job[s].next - 1)
    BY <2>2
  <2>4. RowsOf(f)' = RowsOf(f) \union {new}
    BY <1>8, <2>1, <2>3 DEF Chunks
  <2>5. Chunks(f)' = Chunks(f) \union {job[s].next}
    BY <1>4, <2>4 DEF Chunks
  <2>6. 1..(job[s].next - 1) \union {job[s].next} = 1..job[s].next
    BY <2>2
  <2>7. Chunks(f)' = 1..job[s].next
    BY <2>1, <2>5, <2>6
  <2>8. \A d \in RowsOf(f)' : d.ver = job[s].ver
    BY <1>4, <2>1, <2>4
  <2>9. CASE x = Idle
    <3>1. job[s].next = NumChunks
      BY <1>5, <2>9 DEF SyncJob, Idle
    <3>2. Active(f)' = {}
      BY <1>7, <2>1, <2>9
    <3>3. WholeVersion(f)'
      BY <2>7, <2>8, <3>1 DEF WholeVersion
    <3> QED BY <3>2, <3>3 DEF IndexedInv
  <2>10. CASE x # Idle
    <3>1. x.next - 1 = job[s].next /\ x.ver = job[s].ver /\ x.step = "embedded"
      BY <1>5, <2>2, <2>10
    <3>2. Active(f)' = {s}
      BY <1>7, <2>1, <2>10
    <3> QED BY <1>7, <2>7, <2>8, <3>1, <3>2 DEF IndexedInv
  <2> QED BY <2>9, <2>10
<1>10. JobsInv'
  <2>1. broken \subseteq broken'
    BY <1>1
  <2> QED BY <1>0, <1>2, <1>6, <1>8, <1>9, <2>1, OtherFilesKept
<1>11. vecs' = vecs \/ (job[s].fits /\ ~TakenRow /\ vecs' = vecs \union OwnVector(job[s]))
  BY DEF IndexChunk, Indexed
<1>12. SemanticTypeOK'
  <2>1. docs' \subseteq Document
    BY <1>3, <1>4
  <2>2. OwnVector(job[s]) \subseteq Chunk
    BY <1>0, <1>2, NewRowIsNew DEF OwnVector, Chunk, SyncJob
  <2>3. vecs' \subseteq Chunk
    BY <1>0, <1>11, <2>2 DEF SemanticTypeOK
  <2> QED BY <1>0, <1>1, <1>7, <2>1, <2>3 DEF SemanticTypeOK
<1>13. StepsInv'
  BY <1>0, <1>5, <1>7 DEF StepsInv
<1>14. QuietInv'
  BY <1>0, <1>1, <1>7 DEF QuietInv, Syncers
<1>15. RowsInv'
  BY <1>0, <1>3, <1>4 DEF RowsInv
<1>16. VectorsMatch'
  <2> SUFFICES ASSUME NEW d \in docs', NEW v \in vecs', d.row = v.row, d.fits
               PROVE  <<d.file, d.chunk, d.ver>> = <<v.file, v.chunk, v.ver>>
    BY DEF VectorsMatch
  <2>1. CASE v \in vecs
    <3>1. d \in docs => <<d.file, d.chunk, d.ver>> = <<v.file, v.chunk, v.ver>>
      BY <1>0, <2>1 DEF VectorsMatch
    <3>2. d # new
      BY <1>0, <1>4, <1>11, <2>1 DEF TakenRow, IndexChunk
    <3> QED BY <1>3, <3>1, <3>2
  <2>2. CASE v \in OwnVector(job[s])
    <3>1. v.row = NewRow /\ v.file = f /\ v.chunk = job[s].next /\ v.ver = job[s].ver
      BY <2>2 DEF OwnVector
    <3>2. d = new
      BY <1>3, <1>4, <3>1
    <3> QED BY <1>4, <3>1, <3>2
  <2> QED BY <1>11, <2>1, <2>2
<1> QED BY <1>10, <1>12, <1>13, <1>14, <1>15, <1>16 DEF SemanticInv

\* The clean-up at the end of a scan meets no job.
LEMMA CleanUpStep ==
  ASSUME SemanticInv, CleanUp
  PROVE  SemanticInv'
<1>0. SemanticTypeOK /\ JobsInv /\ StepsInv /\ QuietInv /\ RowsInv /\ VectorsMatch
  BY DEF SemanticInv
<1>1. /\ UNCHANGED <<disk, edits, vecs, due, removals, scan, scans, job, broken>>
      /\ docs' = {d \in docs : disk[d.file] # 0} /\ watching' = TRUE
  BY DEF CleanUp
<1>2. \A s \in Syncers : job[s] = Idle
  BY <1>0 DEF CleanUp, QuietInv, Syncers
<1>3. JobsInv'
  <2> SUFFICES ASSUME NEW f \in Files \ broken' PROVE IndexedInv(f)'
    BY DEF JobsInv
  <2>1. IndexedInv(f) /\ Active(f) = {} /\ Active(f)' = {}
    BY <1>0, <1>1, <1>2 DEF JobsInv, Active
  <2>2. RowsOf(f)' = IF disk[f] = 0 THEN {} ELSE RowsOf(f)
    BY <1>1 DEF RowsOf
  <2>3. CASE disk[f] = 0
    <3>1. WholeVersion(f)'
      BY <2>2, <2>3 DEF WholeVersion
    <3> QED BY <2>1, <3>1 DEF IndexedInv
  <2>4. CASE disk[f] # 0
    <3>1. RowsOf(f)' = RowsOf(f) /\ Active(f)' = Active(f)
      BY <2>1, <2>2, <2>4
    <3> QED BY <1>1, <2>1, <3>1, FileKept
  <2> QED BY <2>3, <2>4
<1>4. SemanticTypeOK' /\ StepsInv' /\ QuietInv' /\ RowsInv' /\ VectorsMatch'
  BY <1>0, <1>1 DEF SemanticTypeOK, StepsInv, QuietInv, RowsInv, VectorsMatch
<1> QED BY <1>3, <1>4 DEF SemanticInv

\* A scan starts: with the process, which forgets the jobs it ran, or by the miner.
LEMMA ScanStep ==
  ASSUME SemanticInv, Mine \/ RestartWatch
  PROVE  SemanticInv'
<1>0. SemanticTypeOK /\ JobsInv /\ StepsInv /\ QuietInv /\ RowsInv /\ VectorsMatch
  BY DEF SemanticInv
<1>1. /\ UNCHANGED <<disk, edits, docs, vecs>>
      /\ scans < MaxScans /\ scans' = scans + 1 /\ scan' \subseteq Files
      /\ due' \subseteq due /\ removals' \subseteq removals
  BY DEF Mine, RestartWatch
<1>2. CASE Mine
  <2>0. job' = job /\ broken' = broken /\ watching' = watching
    BY <1>2 DEF Mine
  <2>1. JobsInv'
    <3> SUFFICES ASSUME NEW f \in Files \ broken' PROVE IndexedInv(f)'
      BY DEF JobsInv
    <3>1. IndexedInv(f) /\ RowsOf(f)' = RowsOf(f) /\ Active(f)' = Active(f)
      BY <1>0, <1>1, <2>0 DEF JobsInv, RowsOf, Active
    <3> QED BY <2>0, <3>1, FileKept
  <2>2. scans' \in 0..MaxScans
    BY <1>0, <1>1, SemanticConfig DEF SemanticTypeOK
  <2>3. SemanticTypeOK' /\ StepsInv' /\ QuietInv' /\ RowsInv' /\ VectorsMatch'
    BY <1>0, <1>1, <2>0, <2>2
    DEF SemanticTypeOK, StepsInv, QuietInv, RowsInv, VectorsMatch
  <2> QED BY <2>1, <2>3 DEF SemanticInv
<1>3. CASE RestartWatch
  <2>1. /\ job' = [s \in Syncers |-> Idle] /\ watching' = FALSE /\ due' = {}
        /\ broken' = broken \union {f \in Files : \E s \in Active(f) : job[s].next > 1}
    BY <1>3 DEF RestartWatch
  <2>2. JobsInv'
    <3> SUFFICES ASSUME NEW f \in Files \ broken' PROVE IndexedInv(f)'
      BY DEF JobsInv
    <3>1. IndexedInv(f) /\ RowsOf(f)' = RowsOf(f) /\ Active(f)' = {}
      BY <1>0, <1>1, <2>1 DEF JobsInv, RowsOf, Active
    <3>2. WholeVersion(f)
      <4>1. CASE \A s \in Active(f) : job[s].step \in {"read", "changed"}
        BY <3>1, <4>1 DEF IndexedInv
      <4>2. ASSUME NEW s \in Active(f), job[s].step \notin {"read", "changed"} PROVE WholeVersion(f)
        <5>1. job[s] \in SyncJob /\ job[s].next <= 1
          BY <1>0, <2>1, <4>2 DEF SemanticTypeOK, SyncJob, Active
        <5>2. job[s].next = 1 /\ job[s].step \in {"cleared", "embedded"}
          BY <4>2, <5>1 DEF SyncJob
        <5>3. Chunks(f) = {}
          BY <3>1, <5>2 DEF IndexedInv
        <5> QED BY <5>3 DEF Chunks, WholeVersion
      <4> QED BY <4>1, <4>2
    <3>3. WholeVersion(f)'
      BY <3>1, <3>2 DEF WholeVersion, Chunks
    <3> QED BY <3>1, <3>3 DEF IndexedInv
  <2>3. SemanticTypeOK'
    <3>1. scans' \in 0..MaxScans
      BY <1>0, <1>1, SemanticConfig DEF SemanticTypeOK
    <3>2. job' \in [Syncers -> {Idle} \union SyncJob] /\ broken' \subseteq Files
      BY <1>0, <2>1 DEF SemanticTypeOK
    <3> QED BY <1>0, <1>1, <2>1, <3>1, <3>2 DEF SemanticTypeOK
  <2>4. StepsInv' /\ QuietInv' /\ RowsInv' /\ VectorsMatch'
    BY <1>0, <1>1, <2>1 DEF StepsInv, QuietInv, RowsInv, VectorsMatch, Syncers
  <2> QED BY <2>2, <2>3, <2>4 DEF SemanticInv
<1> QED BY <1>2, <1>3 DEF Mine

LEMMA SemanticStep == SemanticInv /\ [SemanticNext]_semanticVars => SemanticInv'
<1> SUFFICES ASSUME SemanticInv, [SemanticNext]_semanticVars PROVE SemanticInv'
  OBVIOUS
<1>1. ASSUME NEW f \in Files, Edit(f) \/ RemoveFile(f) \/ HandleRemove(f) PROVE SemanticInv'
  BY <1>1, FilesStep
<1>2. ASSUME NEW s \in Syncers, TimerSyncs(s) PROVE SemanticInv'
  <2>1. PICK f \in due : BeginJob(s, f) /\ due' = due \ {f} /\ scan' = scan
    BY <1>2 DEF TimerSyncs
  <2>2. f \in Files /\ watching
    BY <2>1 DEF SemanticInv, SemanticTypeOK, QuietInv
  <2>3. due' \subseteq due /\ scan' \subseteq scan
    BY <2>1
  <2> QED BY <2>1, <2>2, <2>3, BeginStep
<1>3. ASSUME NEW s \in Syncers, CheckHash(s) \/ ClearOld(s) \/ EmbedChunks(s) \/ IndexFails(s)
      PROVE  SemanticInv'
  BY <1>3, JobStep
<1>4. ASSUME NEW s \in Syncers, IndexChunk(s) PROVE SemanticInv'
  BY <1>4, IndexStep
<1>5. CASE ScannerSyncs
  <2>1. PICK f \in scan : BeginJob("scanner", f) /\ scan' = scan \ {f} /\ due' = due
    BY <1>5 DEF ScannerSyncs
  <2>2. f \in Files /\ "scanner" \in Syncers /\ "scanner" \notin Timers
    BY SemanticConfig DEF SemanticInv, SemanticTypeOK, Syncers
  <2>3. due' \subseteq due /\ scan' \subseteq scan
    BY <2>1
  <2> QED BY <2>1, <2>2, <2>3, BeginStep
<1>6. CASE CleanUp
  BY <1>6, CleanUpStep
<1>7. CASE Mine \/ RestartWatch
  BY <1>7, ScanStep
<1>8. CASE UNCHANGED semanticVars
  <2>1. UNCHANGED <<disk, edits, docs, vecs, due, removals, scan, scans, watching, job, broken>>
    BY <1>8 DEF semanticVars
  <2>2. JobsInv'
    <3> SUFFICES ASSUME NEW f \in Files \ broken' PROVE IndexedInv(f)'
      BY DEF JobsInv
    <3>1. IndexedInv(f) /\ RowsOf(f)' = RowsOf(f) /\ Active(f)' = Active(f)
      BY <2>1 DEF SemanticInv, JobsInv, RowsOf, Active
    <3> QED BY <2>1, <3>1, FileKept
  <2> QED
    BY <2>1, <2>2 DEF SemanticInv, SemanticTypeOK, StepsInv, QuietInv, RowsInv, VectorsMatch
<1> QED BY <1>1, <1>2, <1>3, <1>4, <1>5, <1>6, <1>7, <1>8 DEF SemanticNext

\* A file the next scan would skip is indexed as a whole and with the version on disk,
\* unless its indexing was cut short or ran twice at a time, and a chunk is found by its
\* own vector, whatever rowids are used again.
THEOREM IndexStaysTrue == SemanticSpec => []IndexIsTrue
<1>1. SemanticInv => IndexIsTrue
  <2> SUFFICES ASSUME SemanticInv PROVE SkippedIsComplete
    BY DEF SemanticInv, IndexIsTrue
  <2> SUFFICES ASSUME NEW f \in Files \ broken, Active(f) = {},
                      NEW e \in RowsOf(f), e.ver = disk[f]
               PROVE  /\ {d.chunk : d \in RowsOf(f)} = 1..NumChunks
                      /\ \A d \in RowsOf(f) : d.ver = disk[f]
    BY DEF SkippedIsComplete
  <2>1. WholeVersion(f)
    BY DEF SemanticInv, JobsInv, IndexedInv
  <2> QED BY <2>1 DEF WholeVersion, Chunks
<1> QED BY <1>1, SemanticStarts, SemanticStep, PTL DEF SemanticSpec

-----------------------------------------------------------------------------
(* The chunks of a note *)

Piece == [line : Nat, at : Nat, len : Int]

NoteOK == note \in Seq(Nat) /\ note # <<>>

Fits(l) == note[l] <= ChunkChars

\* The numbers of the pieces.
LEMMA OneChunk ==
  ASSUME NEW c \in Nat \ {0}, NEW n \in 1..c
  PROVE  (n + c - 1) \div c = 1
<1> DEFINE x == n + c - 1
           q == x \div c
<1>1. x \in Nat /\ c <= x /\ x < c + c
  OBVIOUS
<1>2. q \in Int /\ c * q <= x /\ x < c * (q + 1)
  <2> HIDE DEF x
  <2> QED BY <1>1
<1> HIDE DEF q, x
<1>3. ~ (q <= 0)
  BY <1>1, <1>2
<1>4. ~ (q >= 2)
  BY <1>1, <1>2
<1> QED BY <1>2, <1>3, <1>4 DEF q, x

\* A line has a piece at least, and one that fits has no more.
LEMMA LineSplit ==
  ASSUME NoteOK, NEW i \in 1..Len(note)
  PROVE  /\ SplitLine(i) \in Seq(Piece) /\ Len(SplitLine(i)) \in Nat \ {0}
         /\ \A k \in 1..Len(SplitLine(i)) : SplitLine(i)[k].line = i
         /\ Fits(i) => Len(SplitLine(i)) = 1
<1>1. note[i] \in Nat /\ ChunkChars \in Nat \ {0} /\ i \in Nat
  BY ChunkerConfig DEF NoteOK
<1> DEFINE count == IF note[i] = 0 THEN 1 ELSE (note[i] + ChunkChars - 1) \div ChunkChars
           start(k) == (k - 1) * ChunkChars
           piece(k) == [line |-> i, at |-> start(k),
                        len |-> IF note[i] - start(k) > ChunkChars THEN ChunkChars
                                ELSE note[i] - start(k)]
<1>2. count \in Nat \ {0} /\ (Fits(i) => count = 1)
  <2>1. CASE note[i] = 0
    BY <2>1
  <2>2. CASE note[i] # 0
    <3>1. Fits(i) => count = 1
      BY <1>1, <2>2, OneChunk DEF Fits
    <3>2. PICK x : x = note[i] + ChunkChars - 1
      OBVIOUS
    <3>3. x \in Nat /\ x >= ChunkChars
      BY <1>1, <2>2, <3>2
    <3>4. x \div ChunkChars \in Int /\ x < ChunkChars * (x \div ChunkChars + 1)
      BY <1>1, <3>3
    <3>5. ~ (x \div ChunkChars <= 0)
      BY <1>1, <3>3, <3>4
    <3> QED BY <2>2, <3>1, <3>2, <3>4, <3>5
  <2> QED BY <2>1, <2>2
<1>3. SplitLine(i) = [k \in 1..count |-> piece(k)]
  BY DEF SplitLine
<1> HIDE DEF count
<1>4. ASSUME NEW k \in 1..count PROVE piece(k) \in Piece /\ piece(k).line = i
  <2>1. k - 1 \in Nat
    BY <1>2
  <2>2. start(k) \in Nat
    BY <1>1, <2>1
  <2> HIDE DEF start
  <2> QED BY <1>1, <2>2 DEF Piece
<1> HIDE DEF piece
<1>5. SplitLine(i) \in [1..count -> Piece]
  BY <1>3, <1>4
<1>6. SplitLine(i) \in Seq(Piece) /\ Len(SplitLine(i)) = count
  BY <1>2, <1>3, <1>5
<1>7. \A k \in 1..count : SplitLine(i)[k].line = i
  BY <1>3, <1>4
<1> QED BY <1>2, <1>6, <1>7

\* The pieces of the first k lines: line by line, a line that fits in one piece.
Lined(s, k) ==
  /\ s \in Seq(Piece) /\ \A i \in 1..Len(s) : s[i].line \in 1..k
  /\ \A i, j \in 1..Len(s) : i <= j => s[i].line <= s[j].line
  /\ \A i, j \in 1..Len(s) : s[i].line = s[j].line /\ Fits(s[i].line) => i = j

LEMMA PiecesLined ==
  ASSUME NoteOK
  PROVE  Lined(Pieces, Len(note)) /\ Len(Pieces) \in Nat \ {0}
<1> DEFINE First(k) == [i \in 1..k |-> SplitLine(i)]
           N == {k \in Nat : k <= Len(note) =>
                   /\ First(k) \in Seq(Seq(Piece)) /\ Lined(FlattenSeq(First(k)), k)
                   /\ k > 0 => Len(FlattenSeq(First(k))) > 0}
<1>0. Len(note) \in Nat \ {0}
  BY EmptySeq, LenProperties DEF NoteOK
<1>1. 0 \in N
  <2>1. First(0) = <<>>
    OBVIOUS
  <2>2. Lined(<<>>, 0)
    BY DEF Lined
  <2> QED BY <2>1, <2>2, FlattenEmpty
<1>2. ASSUME NEW k \in Nat, k \in N PROVE k + 1 \in N
  <2> SUFFICES ASSUME k + 1 <= Len(note)
               PROVE  /\ First(k + 1) \in Seq(Seq(Piece))
                      /\ Lined(FlattenSeq(First(k + 1)), k + 1)
                      /\ Len(FlattenSeq(First(k + 1))) > 0
    OBVIOUS
  <2>1. First(k) \in Seq(Seq(Piece)) /\ Lined(FlattenSeq(First(k)), k) /\ k + 1 \in 1..Len(note)
    BY <1>0, <1>2
  <2> DEFINE s == FlattenSeq(First(k))
             t == SplitLine(k + 1)
  <2>2. /\ t \in Seq(Piece) /\ Len(t) \in Nat \ {0} /\ \A i \in 1..Len(t) : t[i].line = k + 1
        /\ Fits(k + 1) => Len(t) = 1
    BY <2>1, LineSplit
  <2>3. First(k + 1) = Append(First(k), t) /\ First(k + 1) \in Seq(Seq(Piece))
    <3>1. DOMAIN First(k) = 1..k /\ Len(First(k)) = k
      OBVIOUS
    <3>2. First(k + 1) = [i \in 1..(k + 1) |-> IF i = k + 1 THEN t ELSE First(k)[i]]
      OBVIOUS
    <3>3. Append(First(k), t) \in Seq(Seq(Piece)) /\ Len(Append(First(k), t)) = k + 1
          /\ Append(First(k), t)[k + 1] = t /\ \A i \in 1..k : Append(First(k), t)[i] = First(k)[i]
      <4> HIDE DEF First, t
      <4> QED BY <2>1, <2>2, <3>1, AppendProperties
    <3>4. First(k + 1) \in Seq(Seq(Piece)) /\ Len(First(k + 1)) = k + 1
      <4>1. \A i \in 1..(k + 1) : SplitLine(i) \in Seq(Piece)
        BY <2>1, LineSplit
      <4> QED BY <4>1
    <3>5. \A i \in 1..(k + 1) : First(k + 1)[i] = Append(First(k), t)[i]
      <4> SUFFICES ASSUME NEW i \in 1..(k + 1) PROVE First(k + 1)[i] = Append(First(k), t)[i]
        OBVIOUS
      <4>1. First(k + 1)[i] = SplitLine(i)
        OBVIOUS
      <4>2. CASE i = k + 1
        BY <3>3, <4>1, <4>2
      <4>3. CASE i # k + 1
        <5>1. i \in 1..k /\ First(k)[i] = SplitLine(i)
          BY <4>3
        <5> QED BY <3>3, <4>1, <5>1
      <4> QED BY <4>2, <4>3
    <3> HIDE DEF First, t
    <3> QED BY <3>3, <3>4, <3>5, SeqEqual
  <2> HIDE DEF t, First
  <2>4. FlattenSeq(First(k + 1)) = s \o t
    BY <2>1, <2>2, <2>3, FlattenAppend
  <2>6. JoinIs(s, t, s \o t, Piece)
    BY <2>1, <2>2, Joined DEF Lined
  <2> DEFINE u == s \o t
  <2>7. /\ u \in Seq(Piece) /\ Len(u) = Len(s) + Len(t) /\ Len(s) \in Nat
        /\ \A i \in 1..Len(s) : u[i] = s[i] /\ u[i].line \in 1..k
        /\ \A i \in 1..Len(t) : u[Len(s) + i].line = k + 1
        /\ \A i \in 1..Len(u) : i \in 1..Len(s) \/ \E j \in 1..Len(t) : i = Len(s) + j
    BY <2>1, <2>2, <2>6 DEF JoinIs, Lined
  <2> HIDE DEF u
  <2>8. ASSUME NEW i \in 1..Len(u)
        PROVE  \/ i \in 1..Len(s) /\ u[i].line \in 1..k
               \/ i > Len(s) /\ u[i].line = k + 1
    <3>1. CASE i \in 1..Len(s)
      BY <2>7, <3>1
    <3>2. ASSUME NEW j \in 1..Len(t), i = Len(s) + j PROVE i > Len(s) /\ u[i].line = k + 1
      BY <2>2, <2>7, <3>2
    <3> QED BY <2>7, <3>1, <3>2
  <2>9. \A i \in 1..Len(u) : u[i].line \in 1..(k + 1)
    BY <2>8
  <2>10. ASSUME NEW i \in 1..Len(u), NEW j \in 1..Len(u), i <= j PROVE u[i].line <= u[j].line
    <3>1. CASE j \in 1..Len(s)
      <4>1. i \in 1..Len(s)
        BY <2>7, <2>10, <3>1
      <4> QED BY <2>1, <2>7, <2>10, <3>1, <4>1 DEF Lined
    <3>2. CASE u[j].line = k + 1
      BY <2>9, <3>2
    <3> QED BY <2>8, <3>1, <3>2
  <2>11. ASSUME NEW i \in 1..Len(u), NEW j \in 1..Len(u), u[i].line = u[j].line, Fits(u[i].line)
         PROVE  i = j
    <3>1. CASE i \in 1..Len(s) /\ u[i].line \in 1..k
      <4>1. j \in 1..Len(s)
        BY <2>8, <2>11, <3>1
      <4> QED BY <2>1, <2>7, <2>11, <3>1, <4>1 DEF Lined
    <3>2. CASE i > Len(s) /\ u[i].line = k + 1
      <4>1. j > Len(s)
        <5>1. ~ (u[j].line \in 1..k)
          BY <2>11, <3>2
        <5> QED BY <2>8, <5>1
      <4>2. Len(t) = 1
        BY <2>2, <2>11, <3>2
      <4> QED BY <2>7, <3>2, <4>1, <4>2
    <3> QED BY <2>8, <3>1, <3>2
  <2>12. Lined(u, k + 1)
    BY <2>7, <2>9, <2>10, <2>11 DEF Lined
  <2>13. FlattenSeq(First(k + 1)) = u /\ Len(u) > 0
    <3>1. Len(u) > 0
      BY <2>2, <2>7
    <3> QED BY <2>4, <3>1 DEF u
  <2> QED BY <2>3, <2>12, <2>13
<1>3. Nat \subseteq N
  <2> HIDE DEF N
  <2> QED BY <1>1, <1>2, SetInduction
<1>4. Pieces = FlattenSeq(First(Len(note)))
  BY DEF Pieces
<1> HIDE DEF First
<1>5. Lined(Pieces, Len(note)) /\ Len(Pieces) > 0
  BY <1>0, <1>3, <1>4
<1>6. Len(Pieces) \in Nat
  BY <1>5, LenProperties DEF Lined
<1> QED BY <1>5, <1>6
-----------------------------------------------------------------------------
\* The pieces from a to b.
IsPart(c, a, b) ==
  /\ c \in Seq(Piece) /\ Len(c) = b - a + 1
  /\ \A k \in 1..(b - a + 1) : c[k] = Pieces[a + k - 1]

\* A chunk is some pieces in a row.
InARow(c, n) == \E a, b \in 1..n : a <= b /\ IsPart(c, a, b)

\* The first n pieces, packed: all are in some chunk, the last in the current one.
PackInv(acc, n) ==
  /\ acc.done \in Seq(Seq(Piece)) /\ \A i \in 1..Len(acc.done) : InARow(acc.done[i], n)
  /\ IF n = 0 THEN acc.current = <<>> ELSE \E a \in 1..n : IsPart(acc.current, a, n)
  /\ \A i \in 1..n : \/ Pieces[i] \in ToSet(acc.current)
                     \/ \E d \in 1..Len(acc.done) : Pieces[i] \in ToSet(acc.done[d])

Packs == [done : Seq(Seq(Piece)), current : Seq(Piece)]

\* What an overlap leaves of a chunk is nothing or its end.
LEMMA CarriedIs ==
  ASSUME NEW c \in Seq(Piece)
  PROVE  \/ Carried(c) = <<>>
         \/ /\ Carried(c) \in Seq(Piece)
            /\ \E m \in 1..Len(c) : /\ Len(Carried(c)) = Len(c) - m + 1
                                    /\ \A k \in 1..(Len(c) - m + 1) : Carried(c)[k] = c[m + k - 1]
<1> DEFINE enough == {i \in 1..Len(c) : Size(SubSeq(c, i, Len(c))) >= overlap}
<1>0. Len(c) \in Nat
  BY LenProperties
<1>1. CASE overlap = 0
  BY <1>1 DEF Carried
<1>2. CASE overlap # 0 /\ enough = {}
  <2>1. Carried(c) = c
    BY <1>2 DEF Carried
  <2>2. CASE c = <<>>
    BY <2>1, <2>2
  <2>3. CASE c # <<>>
    <3>1. 1 \in 1..Len(c) /\ Len(c) - 1 + 1 = Len(c) /\ \A k \in 1..Len(c) : 1 + k - 1 = k
      BY <1>0, <2>3, EmptySeq
    <3> QED BY <2>1, <3>1
  <2> QED BY <2>2, <2>3
<1>3. CASE overlap # 0 /\ enough # {}
  <2> DEFINE m == Max(enough)
  <2>1. Carried(c) = SubSeq(c, m, Len(c))
    BY <1>3 DEF Carried
  <2>2. m \in 1..Len(c)
    <3>1. enough \subseteq 0..Len(c) /\ enough \subseteq 1..Len(c)
      BY <1>0
    <3> HIDE DEF enough
    <3> QED BY <1>0, <1>3, <3>1, MaxOfBounded
  <2> HIDE DEF m
  <2>3. \A k \in m..Len(c) : c[k] \in Piece
    BY <1>0, <2>2, ElementOfSeq
  <2>4. SubSeq(c, m, Len(c)) \in Seq(Piece) /\ Len(SubSeq(c, m, Len(c))) = Len(c) - m + 1
        /\ \A k \in 1..(Len(c) - m + 1) : SubSeq(c, m, Len(c))[k] = c[m + k - 1]
    BY <1>0, <2>2, <2>3, SubSeqProperties
  <2> QED BY <2>1, <2>2, <2>4
<1> QED BY <1>1, <1>2, <1>3

\* To add a piece keeps the types, and what is known of the pieces before it.
LEMMA AddTypes ==
  ASSUME NEW acc \in Packs, NEW p \in Piece
  PROVE  AddPiece(acc, p) \in Packs
<1>1. Carried(acc.current) \in Seq(Piece)
  BY CarriedIs, EmptySeq DEF Packs
<1>2. /\ Append(Carried(acc.current), p) \in Seq(Piece)
      /\ Append(acc.current, p) \in Seq(Piece)
      /\ Append(acc.done, acc.current) \in Seq(Seq(Piece))
  BY <1>1, AppendProperties DEF Packs
<1> QED BY <1>2 DEF AddPiece, Packs

\* With one more piece.
LEMMA RowGrows ==
  ASSUME NEW n \in Nat, NEW c, InARow(c, n)
  PROVE  InARow(c, n + 1)
  BY DEF InARow

LEMMA PartGrows ==
  ASSUME NEW n \in Nat, NEW a \in 1..(n + 1), NEW c, IsPart(c, a, n), Pieces[n + 1] \in Piece
  PROVE  IsPart(Append(c, Pieces[n + 1]), a, n + 1)
<1>1. /\ Append(c, Pieces[n + 1]) \in Seq(Piece) /\ Len(Append(c, Pieces[n + 1])) = Len(c) + 1
      /\ Append(c, Pieces[n + 1])[Len(c) + 1] = Pieces[n + 1]
      /\ \A k \in 1..Len(c) : Append(c, Pieces[n + 1])[k] = c[k]
  BY AppendProperties DEF IsPart
<1>2. Len(c) = n - a + 1
  BY DEF IsPart
<1>3. ASSUME NEW k \in 1..(n + 1 - a + 1)
      PROVE  Append(c, Pieces[n + 1])[k] = Pieces[a + k - 1]
  <2>1. CASE k = n + 1 - a + 1
    <3>1. k = Len(c) + 1 /\ a + k - 1 = n + 1
      BY <1>2, <2>1
    <3> QED BY <1>1, <3>1
  <2>2. CASE k # n + 1 - a + 1
    <3>1. k \in 1..Len(c) /\ k \in 1..(n - a + 1)
      BY <1>2, <2>2
    <3> QED BY <1>1, <3>1 DEF IsPart
  <2> QED BY <2>1, <2>2
<1>4. Len(c) + 1 = n + 1 - a + 1
  BY <1>2
<1> QED BY <1>1, <1>3, <1>4 DEF IsPart

\* What is in the pieces from a to b.
LEMMA PartHas ==
  ASSUME NEW a \in Nat, NEW b \in Nat, NEW c, IsPart(c, a, b)
  PROVE  /\ \A i \in a..b : Pieces[i] \in ToSet(c)
         /\ \A p \in ToSet(c) : \E i \in a..b : p = Pieces[i]
<1>1. DOMAIN c = 1..(b - a + 1)
  BY LenProperties DEF IsPart
<1>2. ASSUME NEW i \in a..b PROVE Pieces[i] \in ToSet(c)
  <2>1. PICK k : k = i - a + 1
    OBVIOUS
  <2>2. k \in 1..(b - a + 1) /\ a + k - 1 = i
    BY <2>1
  <2>3. c[k] = Pieces[i]
    BY <2>2 DEF IsPart
  <2> QED BY <1>1, <2>2, <2>3 DEF ToSet
<1>3. ASSUME NEW p \in ToSet(c) PROVE \E i \in a..b : p = Pieces[i]
  <2>1. PICK k \in 1..(b - a + 1) : p = c[k]
    BY <1>1 DEF ToSet
  <2>2. a + k - 1 \in a..b
    OBVIOUS
  <2> QED BY <2>1, <2>2 DEF IsPart
<1> QED BY <1>2, <1>3

\* One more piece.
LEMMA PieceKeeps ==
  ASSUME NEW n \in Nat, NEW acc \in Packs, PackInv(acc, n), n + 1 \in 1..Len(Pieces),
         Pieces \in Seq(Piece)
  PROVE  PackInv(AddPiece(acc, Pieces[n + 1]), n + 1)
<1> DEFINE p == Pieces[n + 1]
           new == AddPiece(acc, p)
<1>0. p \in Piece /\ acc.current \in Seq(Piece) /\ acc.done \in Seq(Seq(Piece))
      /\ Len(acc.done) \in Nat
  BY ElementOfSeq, LenProperties DEF Packs
<1>1. CASE acc.current # <<>> /\ new = [done |-> Append(acc.done, acc.current),
                                        current |-> Append(Carried(acc.current), p)]
  <2>1. PICK a \in 1..n : IsPart(acc.current, a, n) /\ n > 0
    BY <1>1 DEF PackInv
  <2> DEFINE done == Append(acc.done, acc.current)
  <2>2. /\ done \in Seq(Seq(Piece)) /\ Len(done) = Len(acc.done) + 1
        /\ done[Len(acc.done) + 1] = acc.current
        /\ \A d \in 1..Len(acc.done) : done[d] = acc.done[d]
    BY <1>0, AppendProperties
  <2>3. new.done = done /\ new.current = Append(Carried(acc.current), p)
    BY <1>1
  <2> HIDE DEF done
  <2>4. InARow(acc.current, n + 1)
    <3>1. InARow(acc.current, n)
      BY <2>1 DEF InARow
    <3> QED BY <3>1, RowGrows
  <2>5. \A d \in 1..Len(done) : InARow(done[d], n + 1)
    <3> SUFFICES ASSUME NEW d \in 1..Len(done) PROVE InARow(done[d], n + 1)
      OBVIOUS
    <3>1. CASE d = Len(acc.done) + 1
      BY <2>2, <2>4, <3>1
    <3>2. CASE d # Len(acc.done) + 1
      <4>1. d \in 1..Len(acc.done)
        BY <1>0, <2>2, <3>2
      <4>2. InARow(acc.done[d], n)
        BY <4>1 DEF PackInv
      <4> QED BY <2>2, <4>1, <4>2, RowGrows
    <3> QED BY <3>1, <3>2
  <2>6. \E b \in 1..(n + 1) : IsPart(new.current, b, n + 1)
    <3>1. CASE Carried(acc.current) = <<>>
      <4>1. PICK c : c = <<>>
        OBVIOUS
      <4>2. IsPart(c, n + 1, n) /\ n + 1 \in 1..(n + 1)
        BY <4>1 DEF IsPart
      <4>3. IsPart(Append(c, p), n + 1, n + 1)
        BY <1>0, <4>2, PartGrows
      <4> QED BY <2>3, <3>1, <4>1, <4>2, <4>3
    <3>2. CASE /\ Carried(acc.current) \in Seq(Piece)
               /\ \E m \in 1..Len(acc.current) :
                    /\ Len(Carried(acc.current)) = Len(acc.current) - m + 1
                    /\ \A k \in 1..(Len(acc.current) - m + 1) :
                         Carried(acc.current)[k] = acc.current[m + k - 1]
      <4> DEFINE c == Carried(acc.current)
      <4>1. PICK m \in 1..Len(acc.current) :
              /\ Len(c) = Len(acc.current) - m + 1
              /\ \A k \in 1..(Len(acc.current) - m + 1) : c[k] = acc.current[m + k - 1]
        BY <3>2
      <4> HIDE DEF c
      <4>2. PICK b : b = a + m - 1
        OBVIOUS
      <4>3. b \in 1..n /\ Len(c) = n - b + 1
        BY <2>1, <4>1, <4>2 DEF IsPart
      <4>4. ASSUME NEW k \in 1..(n - b + 1) PROVE c[k] = Pieces[b + k - 1]
        <5>1. PICK l : l = m + k - 1
          OBVIOUS
        <5>2. k \in 1..(Len(acc.current) - m + 1) /\ l \in 1..(n - a + 1) /\ a + l - 1 = b + k - 1
          BY <2>1, <4>2, <5>1 DEF IsPart
        <5>3. acc.current[l] = Pieces[a + l - 1]
          BY <2>1, <5>2 DEF IsPart
        <5> QED BY <4>1, <5>1, <5>2, <5>3
      <4>5. IsPart(c, b, n)
        BY <3>2, <4>3, <4>4 DEF IsPart, c
      <4>6. IsPart(Append(c, p), b, n + 1) /\ b \in 1..(n + 1)
        BY <1>0, <4>3, <4>5, PartGrows
      <4> QED BY <2>3, <4>6 DEF c
    <3> QED BY <1>0, <3>1, <3>2, CarriedIs
  <2>7. ASSUME NEW i \in 1..(n + 1)
        PROVE  \/ Pieces[i] \in ToSet(new.current)
               \/ \E d \in 1..Len(new.done) : Pieces[i] \in ToSet(new.done[d])
    <3>1. CASE i = n + 1
      <4>1. PICK b \in 1..(n + 1) : IsPart(new.current, b, n + 1)
        BY <2>6
      <4>2. n + 1 \in b..(n + 1) /\ b \in Nat /\ n + 1 \in Nat
        OBVIOUS
      <4> QED BY <3>1, <4>1, <4>2, PartHas
    <3>2. CASE i \in 1..n
      <4>1. ASSUME Pieces[i] \in ToSet(acc.current)
            PROVE  \E e \in 1..Len(new.done) : Pieces[i] \in ToSet(new.done[e])
        <5>0. Len(acc.done) \in Nat
          BY <1>0
        <5>1. Len(acc.done) + 1 \in 1..Len(done)
          BY ONLY <2>2, <5>0
        <5> QED BY <2>2, <2>3, <4>1, <5>1
      <4>2. ASSUME NEW d \in 1..Len(acc.done), Pieces[i] \in ToSet(acc.done[d])
            PROVE  \E e \in 1..Len(new.done) : Pieces[i] \in ToSet(new.done[e])
        <5>0. Len(acc.done) \in Nat
          BY <1>0
        <5>1. d \in 1..Len(done) /\ done[d] = acc.done[d]
          BY ONLY <2>2, <5>0, d \in 1..Len(acc.done)
        <5> QED BY <2>3, <4>2, <5>1
      <4> QED BY <3>2, <4>1, <4>2 DEF PackInv
    <3> QED BY <3>1, <3>2
  <2>8. n + 1 # 0
    OBVIOUS
  <2>9. new.done \in Seq(Seq(Piece)) /\ \A d \in 1..Len(new.done) : InARow(new.done[d], n + 1)
    BY <2>2, <2>3, <2>5
  <2> HIDE DEF new
  <2> QED BY ONLY <2>6, <2>7, <2>8, <2>9 DEF PackInv, p, new
<1>2. CASE new = [acc EXCEPT !.current = Append(@, p)]
  <2>1. new.done = acc.done /\ new.current = Append(acc.current, p)
    BY <1>2 DEF Packs
  <2>2. \E a \in 1..(n + 1) : IsPart(acc.current, a, n)
    <3>1. CASE n = 0
      <4>1. IsPart(<<>>, n + 1, n)
        BY DEF IsPart
      <4> QED BY <3>1, <4>1 DEF PackInv
    <3>2. CASE n # 0
      BY <3>2 DEF PackInv
    <3> QED BY <3>1, <3>2
  <2>3. PICK a \in 1..(n + 1) : IsPart(acc.current, a, n)
    BY <2>2
  <2>4. IsPart(new.current, a, n + 1)
    BY <1>0, <2>1, <2>3, PartGrows
  <2>5. \A d \in 1..Len(acc.done) : InARow(acc.done[d], n + 1)
    BY RowGrows DEF PackInv
  <2>6. ASSUME NEW i \in 1..(n + 1)
        PROVE  \/ Pieces[i] \in ToSet(new.current)
               \/ \E d \in 1..Len(acc.done) : Pieces[i] \in ToSet(acc.done[d])
    <3>1. CASE i \in a..(n + 1)
      BY <2>4, <3>1, PartHas
    <3>2. CASE i \in 1..n /\ ~ (i \in a..(n + 1))
      <4>1. Pieces[i] \in ToSet(acc.current) => Pieces[i] \in ToSet(new.current)
        <5> SUFFICES ASSUME Pieces[i] \in ToSet(acc.current)
                     PROVE  Pieces[i] \in ToSet(new.current)
          OBVIOUS
        <5>1. PICK j \in a..n : Pieces[i] = Pieces[j]
          BY <2>3, PartHas
        <5>2. j \in a..(n + 1)
          OBVIOUS
        <5>3. Pieces[j] \in ToSet(new.current)
          BY <2>4, <5>2, PartHas
        <5> QED BY <5>1, <5>3
      <4> QED BY <3>2, <4>1 DEF PackInv
    <3> QED BY <3>1, <3>2
  <2> QED BY <1>0, <2>1, <2>4, <2>5, <2>6 DEF PackInv
<1> QED BY <1>1, <1>2 DEF AddPiece

\* All of them.
LEMMA AllPacked ==
  ASSUME NoteOK
  PROVE  Packed[Len(Pieces)] \in Packs /\ PackInv(Packed[Len(Pieces)], Len(Pieces))
<1> DEFINE N == Len(Pieces)
           base == [done |-> <<>>, current |-> <<>>]
           next == [x \in Nat \X Packs |->
                      IF x[1] + 1 \in 1..N THEN AddPiece(x[2], Pieces[x[1] + 1]) ELSE x[2]]
<1>0. N \in Nat \ {0} /\ Pieces \in Seq(Piece)
  BY PiecesLined DEF Lined
<1>1. base \in Packs
  BY DEF Packs
<1>2. ASSUME NEW n \in Nat, NEW v \in Packs PROVE next[<<n, v>>] \in Packs
  <2>1. CASE n + 1 \in 1..N
    <3>1. Pieces[n + 1] \in Piece
      BY <1>0, <2>1, ElementOfSeq
    <3> QED BY <2>1, <3>1, AddTypes
  <2>2. CASE n + 1 \notin 1..N
    BY <2>2
  <2> QED BY <2>1, <2>2
<1> HIDE DEF base, next, N
<1>3. PICK g : Course(g, Packs, base, next, N)
  BY <1>0, <1>1, <1>2, CoursesExist
<1>4. g = [n \in 0..N |-> IF n = 0 THEN base ELSE AddPiece(g[n - 1], Pieces[n])]
  <2>1. ASSUME NEW n \in 0..N, n # 0 PROVE g[n] = AddPiece(g[n - 1], Pieces[n])
    <3>1. n \in 1..N /\ n - 1 \in Nat /\ n - 1 \in 0..N /\ n - 1 + 1 = n
      BY <1>0, <2>1
    <3>2. g[n] = next[<<n - 1, g[n - 1]>>] /\ g[n - 1] \in Packs
      BY <1>3, <3>1 DEF Course
    <3> QED BY <3>1, <3>2 DEF next
  <2>2. g[0] = base /\ g = [n \in 0..N |-> g[n]]
    BY <1>3 DEF Course
  <2>3. \A n \in 0..N : g[n] = IF n = 0 THEN base ELSE AddPiece(g[n - 1], Pieces[n])
    BY <2>1, <2>2
  <2> QED BY <2>2, <2>3, Zenon
<1>5. Packed = [n \in 0..N |-> IF n = 0 THEN base ELSE AddPiece(Packed[n - 1], Pieces[n])]
  <2> DEFINE Q(f) == f = [n \in 0..N |-> IF n = 0 THEN base ELSE AddPiece(f[n - 1], Pieces[n])]
  <2>1. Q(g)
    BY <1>4
  <2>2. Packed = CHOOSE f : Q(f)
    BY Zenon DEF Packed, N, base
  <2> HIDE DEF Q
  <2>3. Q(Packed)
    BY <2>1, <2>2
  <2> QED BY <2>3 DEF Q
<1>6. \A n \in 0..N : Packed[n] = IF n = 0 THEN base ELSE AddPiece(Packed[n - 1], Pieces[n])
  BY <1>5, Zenon
<1> DEFINE M == {n \in Nat : n \in 0..N => Packed[n] \in Packs /\ PackInv(Packed[n], n)}
<1>7. 0 \in M
  <2>1. Packed[0] = base /\ PackInv(base, 0)
    BY <1>0, <1>6 DEF PackInv, base
  <2> QED BY <1>1, <2>1
<1>8. ASSUME NEW n \in Nat, n \in M PROVE n + 1 \in M
  <2> SUFFICES ASSUME n + 1 \in 0..N
               PROVE  Packed[n + 1] \in Packs /\ PackInv(Packed[n + 1], n + 1)
    OBVIOUS
  <2>1. n \in 0..N /\ n + 1 \in 1..N /\ n + 1 # 0 /\ n + 1 - 1 = n
    BY <1>0
  <2>2. Packed[n] \in Packs /\ PackInv(Packed[n], n)
    BY <1>8, <2>1
  <2>3. Packed[n + 1] = AddPiece(Packed[n], Pieces[n + 1]) /\ Pieces[n + 1] \in Piece
    <3>1. Packed[n + 1] = AddPiece(Packed[n + 1 - 1], Pieces[n + 1])
      BY <1>6, <2>1
    <3> QED BY <1>0, <2>1, <3>1, ElementOfSeq DEF N
  <2> QED BY <1>0, <2>1, <2>2, <2>3, AddTypes, PieceKeeps DEF N
<1>9. Nat \subseteq M
  <2> HIDE DEF M
  <2> QED BY <1>7, <1>8, SetInduction
<1>10. N \in M /\ N \in 0..N
  BY <1>0, <1>9
<1> QED BY <1>10 DEF N

-----------------------------------------------------------------------------
\* The chunks, once they are made, are pieces in a row each, and all the pieces together.
ChunkInv ==
  /\ note \in UNION {[1..n -> 0..MaxLength] : n \in 1..MaxLines} /\ overlap \in Overlaps
  /\ \/ chunks = <<>>
     \/ /\ Len(chunks) \in Nat /\ DOMAIN chunks = 1..Len(chunks)
        /\ \A i \in 1..Len(chunks) : InARow(chunks[i], Len(Pieces))
        /\ \A i \in 1..Len(Pieces) : \E d \in 1..Len(chunks) : Pieces[i] \in ToSet(chunks[d])

LEMMA NoteIsOK == ChunkInv => NoteOK
<1> SUFFICES ASSUME ChunkInv PROVE NoteOK
  OBVIOUS
<1>1. PICK n \in 1..MaxLines : note \in [1..n -> 0..MaxLength]
  BY DEF ChunkInv
<1>2. n \in Nat \ {0} /\ \A l \in 0..MaxLength : l \in Nat
  BY ChunkerConfig
<1>3. note \in [1..n -> Nat]
  BY <1>1, <1>2
<1>4. note \in Seq(Nat) /\ DOMAIN note # {}
  BY <1>2, <1>3
<1> QED BY <1>4 DEF NoteOK

LEMMA ChunkBegins == ChunkerInit => ChunkInv
  BY DEF ChunkerInit, ChunkInv

LEMMA ChunkStep == ChunkInv /\ [ChunkMarkdown]_chunkerVars => ChunkInv'
<1>1. ASSUME ChunkInv, UNCHANGED chunkerVars PROVE ChunkInv'
  <2>1. UNCHANGED <<note, overlap, chunks>>
    BY <1>1 DEF chunkerVars
  <2>2. Pieces' = Pieces
    BY <2>1 DEF Pieces, SplitLine
  <2>3. (\A i \in 1..Len(chunks) : InARow(chunks[i], Len(Pieces)))' <=>
          \A i \in 1..Len(chunks) : InARow(chunks[i], Len(Pieces))
    BY <2>1, <2>2 DEF InARow, IsPart
  <2> QED BY <1>1, <2>1, <2>2, <2>3 DEF ChunkInv
<1>2. ASSUME ChunkInv, ChunkMarkdown PROVE ChunkInv'
  <2> DEFINE N == Len(Pieces)
             acc == Packed[N]
  <2>1. NoteOK
    BY <1>2, NoteIsOK
  <2>2. N \in Nat \ {0} /\ acc \in Packs /\ PackInv(acc, N)
    BY <2>1, PiecesLined, AllPacked
  <2>3. chunks' = Append(acc.done, acc.current) /\ note' = note /\ overlap' = overlap
    BY <1>2 DEF ChunkMarkdown
  <2>4. Pieces' = Pieces
    BY <2>3 DEF Pieces, SplitLine
  <2> HIDE DEF acc, N
  <2>5. /\ chunks' \in Seq(Seq(Piece)) /\ Len(chunks') = Len(acc.done) + 1
        /\ chunks'[Len(acc.done) + 1] = acc.current
        /\ \A d \in 1..Len(acc.done) : chunks'[d] = acc.done[d]
    BY <2>2, <2>3, AppendProperties DEF Packs
  <2>6. Len(acc.done) \in Nat
    BY <2>2, LenProperties DEF Packs
  <2>7. InARow(acc.current, N)
    <3>1. PICK a \in 1..N : IsPart(acc.current, a, N)
      BY <2>2 DEF PackInv
    <3>2. N \in 1..N /\ a <= N
      BY <2>2
    <3> QED BY <3>1, <3>2 DEF InARow
  <2>8. ASSUME NEW d \in 1..Len(chunks') PROVE InARow(chunks'[d], N)
    <3>1. CASE d = Len(acc.done) + 1
      BY <2>5, <2>7, <3>1
    <3>2. CASE d # Len(acc.done) + 1
      <4>1. d \in 1..Len(acc.done)
        BY <2>5, <2>6, <3>2
      <4> QED BY <2>2, <2>5, <4>1 DEF PackInv
    <3> QED BY <3>1, <3>2
  <2>9. ASSUME NEW i \in 1..N PROVE \E d \in 1..Len(chunks') : Pieces[i] \in ToSet(chunks'[d])
    <3>1. ASSUME NEW d \in 1..Len(acc.done), Pieces[i] \in ToSet(acc.done[d])
          PROVE  \E e \in 1..Len(chunks') : Pieces[i] \in ToSet(chunks'[e])
      <4>1. d \in 1..Len(chunks') /\ chunks'[d] = acc.done[d]
        BY <2>5, <2>6
      <4> QED BY <3>1, <4>1
    <3>2. ASSUME Pieces[i] \in ToSet(acc.current)
          PROVE  \E e \in 1..Len(chunks') : Pieces[i] \in ToSet(chunks'[e])
      <4>1. Len(acc.done) + 1 \in 1..Len(chunks')
        BY <2>5, <2>6
      <4> QED BY <2>5, <3>2, <4>1
    <3> QED BY <2>2, <3>1, <3>2 DEF PackInv
  <2>10. Len(chunks') \in Nat /\ DOMAIN chunks' = 1..Len(chunks')
    BY <2>5, LenProperties
  <2>11. \A i \in 1..Len(chunks') : InARow(chunks[i], Len(Pieces))'
    BY <2>4, <2>8 DEF InARow, IsPart, N
  <2> QED BY <1>2, <2>3, <2>4, <2>9, <2>10, <2>11 DEF ChunkInv, N
<1> QED BY <1>1, <1>2

LEMMA ChunksTyped == ChunkInv => ChunkerTypeOK
<1> SUFFICES ASSUME ChunkInv PROVE ChunkerTypeOK
  OBVIOUS
<1>0. ASSUME NEW i \in DOMAIN chunks
      PROVE  chunks[i] # <<>> /\ ToSet(chunks[i]) \subseteq ToSet(Pieces)
  <2>0. chunks # <<>>
    OBVIOUS
  <2>1. Len(Pieces) \in Nat /\ DOMAIN Pieces = 1..Len(Pieces)
    BY NoteIsOK, PiecesLined, LenProperties DEF Lined
  <2>2. PICK a, b \in 1..Len(Pieces) : a <= b /\ IsPart(chunks[i], a, b)
    BY <2>0 DEF ChunkInv, InARow
  <2>3. chunks[i] # <<>>
    <3>1. Len(chunks[i]) > 0
      BY <2>1, <2>2 DEF IsPart
    <3> QED BY <3>1, EmptySeq
  <2>4. ASSUME NEW p \in ToSet(chunks[i]) PROVE p \in ToSet(Pieces)
    <3>1. PICK j \in a..b : p = Pieces[j]
      BY <2>1, <2>2, PartHas
    <3>2. j \in DOMAIN Pieces
      BY <2>1
    <3> QED BY <3>1, <3>2 DEF ToSet
  <2> QED BY <2>3, <2>4
<1> QED BY <1>0 DEF ChunkInv, ChunkerTypeOK

\* The last chunk that a piece is in survives: a later one with the same lines would have it.
LEMMA ChunksSurvive == ChunkInv => ShortLinesSurvive
<1> SUFFICES ASSUME ChunkInv, chunks # <<>>, NEW p \in ToSet(Pieces), note[p.line] <= ChunkChars
             PROVE  \E i \in DOMAIN chunks : p \in ToSet(chunks[i]) /\ Survives(i)
  BY DEF ShortLinesSurvive
<1>1. /\ Len(Pieces) \in Nat /\ DOMAIN Pieces = 1..Len(Pieces) /\ Lined(Pieces, Len(note))
      /\ Len(chunks) \in Nat /\ DOMAIN chunks = 1..Len(chunks)
  BY NoteIsOK, PiecesLined, LenProperties DEF Lined, ChunkInv
<1>2. PICK at \in 1..Len(Pieces) : p = Pieces[at]
  BY <1>1 DEF ToSet
<1> DEFINE T == {i \in 1..Len(chunks) : p \in ToSet(chunks[i])}
<1>3. T # {} /\ T \subseteq 0..Len(chunks)
  BY <1>2 DEF ChunkInv
<1> DEFINE last == Max(T)
<1>4. last \in T /\ \A i \in T : i <= last
  <2> HIDE DEF T
  <2> QED BY <1>1, <1>3, MaxOfBounded
<1> HIDE DEF last
\* A chunk from a to b: the piece is in it, if it is not before or behind it.
<1>5. ASSUME NEW i \in 1..Len(chunks)
      PROVE  \E a, b \in 1..Len(Pieces) :
               /\ ChunkId(i) = <<Pieces[a].line, Pieces[b].line>>
               /\ p \in ToSet(chunks[i]) <=> at \in a..b
  <2>1. PICK a, b \in 1..Len(Pieces) : a <= b /\ IsPart(chunks[i], a, b)
    BY DEF ChunkInv, InARow
  <2>2. a \in Nat /\ b \in Nat /\ b - a + 1 \in 1..(b - a + 1) /\ 1 \in 1..(b - a + 1)
        /\ a + (b - a + 1) - 1 = b /\ a + 1 - 1 = a
    BY <1>1, <2>1
  <2>3. chunks[i][1] = Pieces[a] /\ Last(chunks[i]) = Pieces[b]
    BY <2>1, <2>2 DEF IsPart, Last
  <2>4. at \in a..b => p \in ToSet(chunks[i])
    BY <1>2, <2>1, <2>2, PartHas
  <2>5. ASSUME p \in ToSet(chunks[i]) PROVE at \in a..b
    <3>1. PICK j \in a..b : p = Pieces[j]
      BY <2>1, <2>2, <2>5, PartHas
    <3>2. j \in 1..Len(Pieces) /\ Pieces[j].line = Pieces[at].line /\ Fits(Pieces[at].line)
      BY <1>1, <1>2, <2>1, <3>1 DEF Fits
    <3>3. j = at
      BY <1>1, <3>2 DEF Lined
    <3> QED BY <3>1, <3>3
  <2> QED BY <2>3, <2>4, <2>5 DEF ChunkId
<1>6. ASSUME NEW j \in 1..Len(chunks), ChunkId(j) = ChunkId(last) PROVE j \in T
  <2>1. PICK a, b \in 1..Len(Pieces) : ChunkId(last) = <<Pieces[a].line, Pieces[b].line>>
                                         /\ (p \in ToSet(chunks[last]) <=> at \in a..b)
    BY <1>4, <1>5
  <2>2. PICK c, d \in 1..Len(Pieces) : ChunkId(j) = <<Pieces[c].line, Pieces[d].line>>
                                         /\ (p \in ToSet(chunks[j]) <=> at \in c..d)
    BY <1>5
  <2>3. at \in a..b /\ Pieces[a].line = Pieces[c].line /\ Pieces[b].line = Pieces[d].line
    BY <1>4, <1>6, <2>1, <2>2
  <2>4. Pieces[c].line <= Pieces[at].line /\ Pieces[at].line <= Pieces[d].line
    <3>1. a <= at /\ at <= b
      BY <1>1, <2>3
    <3> QED BY <1>1, <2>3, <3>1 DEF Lined
  <2>5. \A k \in 1..Len(Pieces) : Pieces[k].line = Pieces[at].line => k = at
    BY <1>1, <1>2 DEF Lined, Fits
  <2>6. \A k \in 1..Len(Pieces) : Pieces[k].line \in Nat
    BY <1>1 DEF Lined
  <2>7. c <= at
    <3> SUFFICES ASSUME ~ (c <= at) PROVE FALSE
      OBVIOUS
    <3>1. at <= c
      BY <1>1
    <3>2. Pieces[at].line <= Pieces[c].line
      BY <1>1, <3>1 DEF Lined
    <3>3. Pieces[c].line = Pieces[at].line
      BY <2>4, <2>6, <3>2
    <3> QED BY <1>1, <2>5, <3>3
  <2>8. at <= d
    <3> SUFFICES ASSUME ~ (at <= d) PROVE FALSE
      OBVIOUS
    <3>1. d <= at
      BY <1>1
    <3>2. Pieces[d].line <= Pieces[at].line
      BY <1>1, <3>1 DEF Lined
    <3>3. Pieces[d].line = Pieces[at].line
      BY <2>4, <2>6, <3>2
    <3> QED BY <1>1, <2>5, <3>3
  <2> QED BY <1>1, <2>2, <2>7, <2>8
<1>7. Survives(last)
  BY <1>1, <1>4, <1>6 DEF Survives
<1> QED BY <1>1, <1>4, <1>7

-----------------------------------------------------------------------------
(* The audit log *)

\* The entries the next append leaves readable.
Kept == {i \in Entries : tail = "open" => i < Len(logFile)}

NumbersInv ==
  /\ \A i \in Entries : logFile[i].hash <= events /\ logFile[i].seq <= events
  /\ \A p \in Opened : chain[p].seq <= events /\ chain[p].prev <= events
  /\ tail = "open" => Len(logFile) \in Entries

\* One process at a time: numbers and hashes grow, and it carries on from the last line
\* or, where that cannot be read, from no further back than any readable one.
GrowInv == ~shared =>
  /\ \A p, q \in Opened : p = q
  /\ \A i, j \in Entries :
       i < j => logFile[i].seq < logFile[j].seq /\ logFile[i].hash < logFile[j].hash

CarryInv == ~shared => \A p \in Opened :
  /\ \A i \in Kept : logFile[i].seq <= chain[p].seq /\ logFile[i].hash <= chain[p].prev
  /\ tail = "line" /\ logFile = <<>> => chain[p].prev = 0
  /\ tail = "line" /\ Len(logFile) \in Entries => chain[p].prev = logFile[Len(logFile)].hash

AuditInv == AuditTypeOK /\ NumbersInv /\ GrowInv /\ CarryInv /\ OneChain

LEMMA AuditStarts == AuditInit => AuditInv
<1> SUFFICES ASSUME AuditInit PROVE AuditInv
  OBVIOUS
<1>1. Entries = {} /\ Opened = {}
  BY DEF AuditInit, Entries, Opened, NotOpen
<1>2. AuditTypeOK
  <2>1. <<>> \in Seq({Garbage} \union LogEntry)
    OBVIOUS
  <2>2. 0 \in 0..MaxEvents
    BY AuditConfig
  <2> QED BY <2>1, <2>2 DEF AuditInit, AuditTypeOK
<1>3. NumbersInv
  BY <1>1 DEF AuditInit, NumbersInv
<1> QED BY <1>1, <1>2, <1>3 DEF AuditInv, GrowInv, CarryInv, OneChain

\* What the log's entries look like.
LEMMA EntriesTyped ==
  ASSUME AuditTypeOK
  PROVE  /\ \A i \in Entries : logFile[i] \in LogEntry /\ i \in 1..Len(logFile)
         /\ Len(logFile) \in Nat /\ events \in 0..MaxEvents /\ MaxEvents \in Nat
         /\ \A p \in Opened : p \in Processes /\ chain[p] \in ChainState
BY AuditConfig DEF AuditTypeOK, Entries, Opened, NotOpen

\* Among the earlier entries of a line the last one is one of them.
LEMMA LastEarlier ==
  ASSUME AuditTypeOK, NEW i \in Nat, {j \in Entries : j < i} # {}
  PROVE  /\ Max({j \in Entries : j < i}) \in Entries /\ Max({j \in Entries : j < i}) < i
         /\ \A y \in Entries : y < i => y <= Max({j \in Entries : j < i})
<1> DEFINE T == {j \in Entries : j < i}
<1>1. T \subseteq 0..Len(logFile) /\ Len(logFile) \in Nat /\ T # {}
  BY EntriesTyped
<1>2. Max(T) \in T /\ \A y \in T : y <= Max(T)
  <2> HIDE DEF T
  <2> QED BY <1>1, MaxOfBounded
<1>3. \A j \in Entries : j < i => j \in T
  OBVIOUS
<1>4. Max(T) \in Entries /\ Max(T) < i
  BY <1>2
<1> QED BY <1>2, <1>3, <1>4

\* The scan finds the highest number and, where the numbers grow, the last hash.
LEMMA ScanFinds ==
  ASSUME AuditTypeOK, NumbersInv
  PROVE  /\ ScanLastEntry \in ChainState
         /\ ScanLastEntry.seq <= events /\ ScanLastEntry.prev <= events
         /\ \A i \in Entries : logFile[i].seq <= ScanLastEntry.seq
         /\ Entries = {} => ScanLastEntry.prev = 0
         /\ (\A i, j \in Entries :
               i < j => logFile[i].seq < logFile[j].seq /\ logFile[i].hash < logFile[j].hash) =>
            /\ \A i \in Entries : logFile[i].hash <= ScanLastEntry.prev
            /\ Len(logFile) \in Entries => ScanLastEntry.prev = logFile[Len(logFile)].hash
<1> DEFINE T   == {0} \union {logFile[i].seq : i \in Entries}
           top == Max(T)
           F   == {i \in Entries : logFile[i].seq = top}
           first == Min(F)
<1>0. /\ \A i \in Entries : /\ i \in 1..Len(logFile)
                             /\ logFile[i].seq \in 1..MaxEvents /\ logFile[i].hash \in 1..MaxEvents
                             /\ logFile[i].seq <= events /\ logFile[i].hash <= events
      /\ Len(logFile) \in Nat /\ events \in Nat /\ events <= MaxEvents /\ MaxEvents \in Nat
  BY EntriesTyped DEF LogEntry, NumbersInv
<1>1. top \in T /\ \A y \in T : y <= top
  <2>1. T \subseteq 0..events /\ T # {}
    BY <1>0
  <2> HIDE DEF T
  <2> QED BY <1>0, <2>1, MaxOfBounded
<1>2. \A i \in Entries : logFile[i].seq <= top
  BY <1>1
<1>3. top \in Nat /\ top <= events
  BY <1>0, <1>1
<1>4. ScanLastEntry = [seq |-> top, prev |-> IF top = 0 THEN 0 ELSE logFile[first].hash]
  BY DEF ScanLastEntry
<1>5. CASE top = 0
  <2>1. Entries = {}
    BY <1>0, <1>2, <1>5
  <2> HIDE DEF top
  <2> QED BY <1>0, <1>4, <1>5, <2>1 DEF ChainState
<1>6. CASE top # 0
  <2>0. \E i \in Entries : logFile[i].seq = top
    BY <1>1, <1>6
  <2>1. F # {} /\ F \subseteq Nat
    <3> HIDE DEF top
    <3> QED BY <1>0, <2>0
  <2>2. first \in F
    <3>1. \E x \in F : \A y \in F : x <= y
      <4> HIDE DEF F
      <4> QED BY <2>1, LeastNumber
    <3> QED BY <3>1 DEF Min
  <2>3. first \in Entries /\ logFile[first].seq = top
    BY <2>2
  <2> HIDE DEF top, first
  <2>4. /\ ScanLastEntry.seq = top /\ ScanLastEntry.prev = logFile[first].hash
        /\ ScanLastEntry \in ChainState
    BY <1>0, <1>3, <1>4, <1>6, <2>3 DEF ChainState
  <2>5. ASSUME \A i, j \in Entries :
                 i < j => logFile[i].seq < logFile[j].seq /\ logFile[i].hash < logFile[j].hash
        PROVE  /\ \A i \in Entries : logFile[i].hash <= logFile[first].hash
               /\ Len(logFile) \in Entries => logFile[first].hash = logFile[Len(logFile)].hash
    <3>1. \A i \in Entries : ~ (first < i)
      <4> SUFFICES ASSUME NEW i \in Entries, first < i PROVE FALSE
        OBVIOUS
      <4>1. logFile[first].seq < logFile[i].seq
        BY <2>3, <2>5
      <4> QED BY <1>0, <1>2, <1>3, <2>3, <4>1
    <3>2. ASSUME NEW i \in Entries PROVE logFile[i].hash <= logFile[first].hash
      <4>1. i = first \/ i < first
        BY <1>0, <2>3, <3>1
      <4> QED BY <1>0, <2>3, <2>5, <4>1
    <3>3. ASSUME Len(logFile) \in Entries PROVE first = Len(logFile)
      BY <1>0, <2>3, <3>1, <3>3
    <3> QED BY <3>2, <3>3
  <2> QED BY <1>0, <1>2, <2>3, <2>4, <2>5
<1> QED BY <1>5, <1>6

\* A log that is cut behind a line, or extended by a line that cannot be read, says of
\* the entries that are left what it said before.
LogCut(n) ==
  /\ Entries' = {i \in Entries : i <= n}
  /\ \A i \in Entries' : logFile'[i] = logFile[i]
  /\ events <= events' /\ shared' = shared

LEMMA CutKeeps ==
  ASSUME AuditInv, NEW n \in Nat, LogCut(n), events' \in Nat
  PROVE  /\ \A i \in Entries' : logFile'[i].hash <= events' /\ logFile'[i].seq <= events'
         /\ ~shared' => \A i, j \in Entries' :
              i < j => logFile'[i].seq < logFile'[j].seq /\ logFile'[i].hash < logFile'[j].hash
         /\ OneChain'
<1>0. /\ AuditTypeOK /\ NumbersInv /\ GrowInv /\ OneChain
      /\ Entries' = {i \in Entries : i <= n} /\ \A i \in Entries' : logFile'[i] = logFile[i]
      /\ events <= events' /\ shared' = shared
  BY DEF AuditInv, LogCut
<1>1. /\ \A i \in Entries : /\ i \in Nat
                             /\ logFile[i].seq \in Nat /\ logFile[i].hash \in Nat
      /\ events \in Nat
  BY <1>0, EntriesTyped DEF LogEntry
<1>2. \A i \in Entries' : logFile'[i].hash <= events' /\ logFile'[i].seq <= events'
  BY <1>0, <1>1 DEF NumbersInv
<1>3. ~shared' => \A i, j \in Entries' :
        i < j => logFile'[i].seq < logFile'[j].seq /\ logFile'[i].hash < logFile'[j].hash
  BY <1>0 DEF GrowInv
<1>4. OneChain'
  <2> SUFFICES ASSUME ~shared', NEW i \in Entries'
               PROVE  LET earlier == {j \in Entries' : j < i}
                          last == Max(earlier) IN
                      IF earlier = {} THEN i > 1 \/ logFile'[i].prev = 0
                      ELSE /\ logFile'[i].seq > logFile'[last].seq
                           /\ logFile'[i].prev >= logFile'[last].hash
                           /\ last = i - 1 => logFile'[i].prev = logFile'[last].hash
    BY DEF OneChain
  <2>1. i \in Entries /\ ~shared /\ logFile'[i] = logFile[i] /\ i <= n
    BY <1>0
  <2> DEFINE earlier == {j \in Entries : j < i}
             last == Max(earlier)
  <2>2. {j \in Entries' : j < i} = earlier
    BY <1>0, <1>1, <2>1
  <2>3. IF earlier = {} THEN i > 1 \/ logFile[i].prev = 0
        ELSE /\ logFile[i].seq > logFile[last].seq
             /\ logFile[i].prev >= logFile[last].hash
             /\ last = i - 1 => logFile[i].prev = logFile[last].hash
    BY <1>0, <2>1 DEF OneChain
  <2>4. earlier # {} => logFile'[last] = logFile[last]
    <3> SUFFICES ASSUME earlier # {} PROVE last \in Entries'
      BY <1>0
    <3>1. last \in earlier
      BY <1>0, <1>1, <2>1, LastEarlier
    <3>2. earlier \subseteq Entries'
      BY <2>2
    <3> QED BY <3>1, <3>2
  <2> HIDE DEF earlier, last
  <2>5. last = Max({j \in Entries' : j < i})
    BY <2>2 DEF last
  <2> QED BY <2>1, <2>2, <2>3, <2>4, <2>5
<1> QED BY <1>2, <1>3, <1>4

\* An entry behind the last line: it carries on from there.
LEMMA EntryAdded ==
  ASSUME AuditInv, NEW p \in Opened, tail = "line", logFile' = Append(logFile, Entry(p)),
         events' = events + 1, shared' = shared
  PROVE  /\ Entries' = Entries \union {Len(logFile) + 1} /\ Len(logFile') = Len(logFile) + 1
         /\ \A i \in Entries : logFile'[i] = logFile[i]
         /\ logFile'[Len(logFile) + 1] = Entry(p)
         /\ \A i \in Entries' : logFile'[i].hash <= events' /\ logFile'[i].seq <= events'
         /\ ~shared' => \A i, j \in Entries' :
              i < j => logFile'[i].seq < logFile'[j].seq /\ logFile'[i].hash < logFile'[j].hash
         /\ OneChain'
<1> DEFINE N == Len(logFile)
           e == Entry(p)
<1>0. AuditTypeOK /\ NumbersInv /\ GrowInv /\ CarryInv /\ OneChain
  BY DEF AuditInv
<1>1. /\ \A i \in Entries : /\ i \in 1..N
                             /\ logFile[i].seq \in Nat /\ logFile[i].hash \in Nat
                             /\ logFile[i].seq <= events /\ logFile[i].hash <= events
      /\ events \in Nat /\ N \in Nat
      /\ chain[p].seq \in Nat /\ chain[p].prev \in Nat /\ chain[p].seq <= events
  <2>1. /\ \A i \in Entries : logFile[i] \in LogEntry /\ i \in 1..Len(logFile)
        /\ Len(logFile) \in Nat /\ events \in 0..MaxEvents /\ MaxEvents \in Nat
        /\ chain[p] \in ChainState
    BY <1>0, EntriesTyped
  <2>2. /\ \A i \in Entries : logFile[i].hash <= events /\ logFile[i].seq <= events
        /\ chain[p].seq <= events
    BY <1>0 DEF NumbersInv
  <2>3. \A x \in LogEntry : x.seq \in Nat /\ x.hash \in Nat
    BY <2>1 DEF LogEntry
  <2>4. \A x \in ChainState : x.seq \in Nat /\ x.prev \in Nat
    BY <2>1 DEF ChainState
  <2> QED BY <2>1, <2>2, <2>3, <2>4
<1>2. /\ e.hash = events + 1 /\ e.seq = chain[p].seq + 1 /\ e.prev = chain[p].prev
      /\ e # Garbage
  BY <1>1 DEF Entry, Garbage
<1> HIDE DEF e
<1>3. /\ Len(logFile') = N + 1 /\ logFile'[N + 1] = e
      /\ \A i \in 1..N : logFile'[i] = logFile[i]
  BY <1>0 DEF AuditTypeOK, e
<1>4. Entries' = Entries \union {N + 1}
  BY <1>1, <1>2, <1>3 DEF Entries
<1>5. \A i \in Entries : logFile'[i] = logFile[i]
  BY <1>1, <1>3
<1> HIDE DEF N
<1>6. \A i \in Entries' : logFile'[i].hash <= events' /\ logFile'[i].seq <= events'
  BY <1>1, <1>2, <1>3, <1>4, <1>5
<1>7. ASSUME ~shared
      PROVE  /\ \A i \in Entries : logFile[i].seq < e.seq /\ logFile[i].hash < e.hash
             /\ \A i \in Entries : logFile[i].hash <= e.prev
             /\ N = 0 => e.prev = 0
             /\ N \in Entries => e.prev = logFile[N].hash
  <2>1. /\ \A i \in Entries : logFile[i].seq <= chain[p].seq /\ logFile[i].hash <= chain[p].prev
        /\ logFile = <<>> => chain[p].prev = 0
        /\ N \in Entries => chain[p].prev = logFile[N].hash
    BY <1>0, <1>7 DEF CarryInv, Kept, N
  <2>2. N = 0 => logFile = <<>>
    BY <1>0 DEF AuditTypeOK, N
  <2> QED BY <1>1, <1>2, <2>1, <2>2
<1>8. ~shared' => \A i, j \in Entries' :
        i < j => logFile'[i].seq < logFile'[j].seq /\ logFile'[i].hash < logFile'[j].hash
  <2> SUFFICES ASSUME ~shared', NEW i \in Entries', NEW j \in Entries', i < j
               PROVE  logFile'[i].seq < logFile'[j].seq /\ logFile'[i].hash < logFile'[j].hash
    OBVIOUS
  <2>1. i \in Entries
    BY <1>1, <1>4
  <2>2. CASE j \in Entries
    BY <1>0, <1>5, <2>1, <2>2 DEF GrowInv
  <2>3. CASE j = N + 1
    BY <1>3, <1>5, <1>7, <2>1, <2>3
  <2> QED BY <1>4, <2>2, <2>3
<1>9. OneChain'
  <2> SUFFICES ASSUME ~shared', NEW i \in Entries'
               PROVE  LET earlier == {j \in Entries' : j < i}
                          last == Max(earlier) IN
                      IF earlier = {} THEN i > 1 \/ logFile'[i].prev = 0
                      ELSE /\ logFile'[i].seq > logFile'[last].seq
                           /\ logFile'[i].prev >= logFile'[last].hash
                           /\ last = i - 1 => logFile'[i].prev = logFile'[last].hash
    BY DEF OneChain
  <2> DEFINE earlier == {j \in Entries : j < i}
             last == Max(earlier)
  <2>1. {j \in Entries' : j < i} = earlier /\ i \in Nat
    BY <1>1, <1>4
  <2>2. earlier # {} => last \in Entries /\ last < i /\ logFile'[last] = logFile[last]
    BY <1>0, <1>5, <2>1, LastEarlier
  <2>3. IF earlier = {} THEN i > 1 \/ logFile'[i].prev = 0
        ELSE /\ logFile'[i].seq > logFile'[last].seq
             /\ logFile'[i].prev >= logFile'[last].hash
             /\ last = i - 1 => logFile'[i].prev = logFile'[last].hash
    <3>1. CASE i \in Entries
      <4>1. IF earlier = {} THEN i > 1 \/ logFile[i].prev = 0
            ELSE /\ logFile[i].seq > logFile[last].seq
                 /\ logFile[i].prev >= logFile[last].hash
                 /\ last = i - 1 => logFile[i].prev = logFile[last].hash
        BY <1>0, <3>1 DEF OneChain
      <4> HIDE DEF earlier, last
      <4> QED BY <1>5, <2>2, <3>1, <4>1
    <3>2. CASE i = N + 1
      <4> HIDE DEF earlier, last
      <4>1. N = 0 => logFile'[i].prev = 0
        BY <1>3, <1>7, <3>2
      <4>2. N # 0 => i > 1
        BY <1>1, <3>2
      <4>3. ASSUME earlier # {}
            PROVE  /\ e.seq > logFile[last].seq /\ e.prev >= logFile[last].hash
                   /\ last = i - 1 => e.prev = logFile[last].hash
        <5>1. last = i - 1 => last = N
          BY <1>1, <3>2
        <5>2. last \in Entries
          BY <2>2, <4>3
        <5>3. e.seq > logFile[last].seq /\ e.prev >= logFile[last].hash
          BY <1>1, <1>2, <1>7, <5>2
        <5> QED BY <1>7, <5>1, <5>2, <5>3
      <4> QED BY <1>3, <2>2, <3>2, <4>1, <4>2, <4>3
    <3> QED BY <1>4, <3>1, <3>2
  <2> HIDE DEF earlier, last
  <2>4. last = Max({j \in Entries' : j < i})
    BY <2>1 DEF last
  <2> QED BY <2>1, <2>3, <2>4
<1> QED BY <1>3, <1>4, <1>5, <1>6, <1>8, <1>9 DEF N, e

\* Behind a line that was not ended, nothing but the entries before it stays readable.
CutAt == IF tail = "open" THEN Len(logFile) - 1 ELSE Len(logFile)

LEMMA FrontOf ==
  ASSUME NEW S, NEW s \in Seq(S), Len(s) # 0
  PROVE  /\ Front(s) \in Seq(S) /\ Len(Front(s)) = Len(s) - 1
         /\ \A i \in 1..(Len(s) - 1) : Front(s)[i] = s[i]
<1>1. /\ Len(s) \in Nat \ {0} /\ 1 \in Int /\ Len(s) - 1 \in Int
      /\ \A i \in 1..(Len(s) - 1) : s[i] \in S
  OBVIOUS
<1>2. /\ SubSeq(s, 1, Len(s) - 1) \in Seq(S)
      /\ Len(SubSeq(s, 1, Len(s) - 1)) = IF 1 <= Len(s) - 1 THEN Len(s) - 1 - 1 + 1 ELSE 0
      /\ \A i \in 1 .. Len(s) - 1 - 1 + 1 : SubSeq(s, 1, Len(s) - 1)[i] = s[1 + i - 1]
  BY <1>1, SubSeqProperties
<1> DEFINE t == SubSeq(s, 1, Len(s) - 1)
<1> HIDE DEF t
<1>3. /\ t \in Seq(S) /\ Len(t) = IF 1 <= Len(s) - 1 THEN Len(s) - 1 - 1 + 1 ELSE 0
      /\ \A i \in 1 .. Len(s) - 1 - 1 + 1 : t[i] = s[1 + i - 1]
  BY <1>2 DEF t
<1>4. PICK n \in Nat \ {0} : n = Len(s)
  BY <1>1
<1>5. Len(t) = n - 1
  <2>1. Len(t) = IF 1 <= n - 1 THEN n - 1 - 1 + 1 ELSE 0
    BY <1>3, <1>4
  <2> QED BY <2>1
<1>6. ASSUME NEW i \in 1..(n - 1) PROVE t[i] = s[i]
  <2>1. n - 1 - 1 + 1 = n - 1 /\ 1 + i - 1 = i
    OBVIOUS
  <2> QED BY <1>3, <1>4, <2>1
<1> QED BY <1>3, <1>4, <1>5, <1>6 DEF Front, t

LEMMA GarbageAdded ==
  ASSUME AuditTypeOK, NumbersInv, tail # "line", NEW l, logFile' = Appended(l)
  PROVE  /\ logFile' \in Seq({Garbage} \union LogEntry)
         /\ Entries' = Kept /\ \A i \in Kept : logFile'[i] = logFile[i]
         /\ Len(logFile') \notin Entries' /\ logFile' # <<>>
<1>0. logFile \in Seq({Garbage} \union LogEntry) /\ Len(logFile) \in Nat
  BY DEF AuditTypeOK
<1>1. CASE tail = "torn"
  <2>1. logFile' = Append(logFile, Garbage) /\ Kept = Entries
    BY <1>1 DEF Appended, Kept
  <2>2. /\ logFile' \in Seq({Garbage} \union LogEntry) /\ Len(logFile') = Len(logFile) + 1
        /\ logFile'[Len(logFile) + 1] = Garbage
        /\ \A i \in 1..Len(logFile) : logFile'[i] = logFile[i]
    BY <1>0, <2>1
  <2>3. Entries' = Entries
    BY <1>0, <2>2 DEF Entries
  <2> QED BY <1>0, <2>1, <2>2, <2>3 DEF Entries
<1>2. CASE tail = "open"
  <2> DEFINE s == Front(logFile)
  <2>0. Len(logFile) # 0
    BY <1>2 DEF NumbersInv, Entries
  <2>1. /\ s \in Seq({Garbage} \union LogEntry) /\ Len(s) = Len(logFile) - 1
        /\ \A i \in 1..(Len(logFile) - 1) : s[i] = logFile[i]
    BY <1>0, <2>0, FrontOf
  <2>2. logFile' = Append(s, Garbage)
    BY <1>2 DEF Appended
  <2> HIDE DEF s
  <2>3. /\ logFile' \in Seq({Garbage} \union LogEntry) /\ Len(logFile') = Len(logFile)
        /\ logFile'[Len(logFile)] = Garbage
        /\ \A i \in 1..(Len(logFile) - 1) : logFile'[i] = logFile[i]
    BY <1>0, <2>0, <2>1, <2>2
  <2>4. Entries' = {i \in 1..Len(logFile) : i < Len(logFile) /\ logFile[i] # Garbage}
    BY <1>0, <2>0, <2>3 DEF Entries
  <2>5. Entries' = Kept
    BY <1>2, <2>4 DEF Kept, Entries
  <2>6. \A i \in Kept : i \in 1..(Len(logFile) - 1)
    BY <1>0, <1>2 DEF Kept, Entries
  <2> QED BY <1>0, <2>0, <2>3, <2>4, <2>5, <2>6
<1> QED BY <1>1, <1>2 DEF AuditTypeOK

LEMMA LineCutOff ==
  ASSUME AuditTypeOK, NumbersInv, tail = "open", logFile' = Front(logFile)
  PROVE  /\ logFile' \in Seq({Garbage} \union LogEntry)
         /\ Entries' = Kept /\ \A i \in Kept : logFile'[i] = logFile[i]
<1>0. logFile \in Seq({Garbage} \union LogEntry) /\ Len(logFile) \in Nat
  BY DEF AuditTypeOK
<1>1. Len(logFile) # 0
  BY DEF NumbersInv, Entries
<1>2. /\ logFile' \in Seq({Garbage} \union LogEntry) /\ Len(logFile') = Len(logFile) - 1
      /\ \A i \in 1..(Len(logFile) - 1) : logFile'[i] = logFile[i]
  BY <1>0, <1>1, FrontOf
<1>3. Entries' = Kept
  BY <1>0, <1>1, <1>2 DEF Entries, Kept
<1>4. \A i \in Kept : i \in 1..(Len(logFile) - 1)
  BY <1>0 DEF Kept, Entries
<1> QED BY <1>2, <1>3, <1>4

LEMMA KeptAreCut ==
  ASSUME AuditTypeOK, NumbersInv
  PROVE  CutAt \in Nat /\ Kept = {i \in Entries : i <= CutAt}
         /\ Entries = {i \in Entries : i <= Len(logFile)}
<1>1. Len(logFile) \in Nat /\ \A i \in Entries : i \in 1..Len(logFile)
  BY EntriesTyped
<1>2. tail = "open" => Len(logFile) # 0
  BY <1>1 DEF NumbersInv
<1> QED BY <1>1, <1>2 DEF CutAt, Kept

LEMMA LogUntouched ==
  ASSUME AuditInv, UNCHANGED logFile, shared' = shared, events' \in Nat, events <= events'
  PROVE  /\ \A i \in Entries' : logFile'[i].hash <= events' /\ logFile'[i].seq <= events'
         /\ ~shared' => \A i, j \in Entries' :
              i < j => logFile'[i].seq < logFile'[j].seq /\ logFile'[i].hash < logFile'[j].hash
         /\ OneChain'
<1>1. Entries' = Entries
  BY DEF Entries
<1>2. LogCut(Len(logFile)) /\ Len(logFile) \in Nat
  BY <1>1, KeptAreCut, EntriesTyped DEF LogCut, AuditInv
<1> QED BY <1>2, CutKeeps

LEMMA AuditFields ==
  /\ \A x \in ChainState :
       /\ x.seq \in Nat /\ x.prev \in Nat
       /\ \A n \in Nat : [x EXCEPT !.seq = n] = [seq |-> n, prev |-> x.prev]
       /\ x # NotOpen
  /\ \A e \in LogEntry : e.seq \in Nat /\ e.hash \in Nat
<1>1. ASSUME NEW x \in ChainState PROVE x.seq \in Nat /\ x.prev \in Nat
  BY AuditConfig DEF ChainState
<1>2. ASSUME NEW x \in ChainState, NEW n \in Nat
      PROVE  [x EXCEPT !.seq = n] = [seq |-> n, prev |-> x.prev]
  BY DEF ChainState
<1>3. ASSUME NEW x \in ChainState PROVE x # NotOpen
  <2>1. DOMAIN x = {"seq", "prev"} /\ DOMAIN NotOpen = {"open"}
    BY DEF ChainState, NotOpen
  <2> QED BY <2>1
<1>4. \A e \in LogEntry : e.seq \in Nat /\ e.hash \in Nat
  BY AuditConfig DEF LogEntry
<1> QED BY <1>1, <1>2, <1>3, <1>4

\* A process opens the log, and carries on from what it finds.
LEMMA OpenStep ==
  ASSUME AuditInv, NEW p \in Processes, OpenLog(p)
  PROVE  AuditInv'
<1>0. AuditTypeOK /\ NumbersInv /\ GrowInv /\ CarryInv /\ OneChain
  BY DEF AuditInv
<1>1. /\ chain' = [chain EXCEPT ![p] = ScanLastEntry] /\ UNCHANGED <<logFile, tail, events>>
      /\ shared' = (shared \/ Opened # {})
  BY DEF OpenLog
<1>2. Entries' = Entries /\ Kept' = Kept /\ Kept \subseteq Entries
  BY <1>1 DEF Entries, Kept
<1>3. /\ ScanLastEntry \in ChainState
      /\ ScanLastEntry.seq <= events /\ ScanLastEntry.prev <= events
      /\ \A i \in Entries : logFile[i].seq <= ScanLastEntry.seq
      /\ Entries = {} => ScanLastEntry.prev = 0
  BY <1>0, ScanFinds
<1>4. /\ chain'[p] = ScanLastEntry /\ chain' \in [Processes -> {NotOpen} \union ChainState]
      /\ \A q \in Processes : q # p => chain'[q] = chain[q]
      /\ Opened' = Opened \union {p}
  BY <1>0, <1>1, <1>3, AuditFields DEF AuditTypeOK, Opened
<1>5. AuditTypeOK'
  BY <1>0, <1>1, <1>4 DEF AuditTypeOK
<1>6. NumbersInv'
  <2>1. ASSUME NEW q \in Opened' PROVE chain'[q].seq <= events /\ chain'[q].prev <= events
    <3>1. CASE q = p
      BY <1>3, <1>4, <3>1
    <3>2. CASE q # p
      BY <1>0, <1>4, <3>2, EntriesTyped DEF NumbersInv
    <3> QED BY <3>1, <3>2
  <2> QED BY <1>0, <1>1, <1>2, <2>1 DEF NumbersInv
<1>7. ASSUME ~shared' PROVE ~shared /\ Opened' = {p}
  BY <1>1, <1>4, <1>7
<1>8. GrowInv' /\ OneChain'
  BY <1>0, <1>1, <1>2, <1>7 DEF GrowInv, OneChain
<1>9. CarryInv'
  <2> SUFFICES ASSUME ~shared'
               PROVE  /\ \A i \in Entries : logFile[i].seq <= ScanLastEntry.seq
                                            /\ logFile[i].hash <= ScanLastEntry.prev
                      /\ logFile = <<>> => ScanLastEntry.prev = 0
                      /\ Len(logFile) \in Entries => ScanLastEntry.prev = logFile[Len(logFile)].hash
    BY <1>1, <1>2, <1>4, <1>7 DEF CarryInv
  <2>1. \A i, j \in Entries :
          i < j => logFile[i].seq < logFile[j].seq /\ logFile[i].hash < logFile[j].hash
    BY <1>0, <1>7 DEF GrowInv
  <2>2. logFile = <<>> => Entries = {}
    BY DEF Entries
  <2>3. /\ \A i \in Entries : logFile[i].hash <= ScanLastEntry.prev
        /\ Len(logFile) \in Entries => ScanLastEntry.prev = logFile[Len(logFile)].hash
    BY <1>0, <2>1, ScanFinds
  <2> QED BY <1>3, <2>2, <2>3
<1> QED BY <1>5, <1>6, <1>8, <1>9 DEF AuditInv

\* The chain of a process is given up, or moves on.
ChainMoves(p, c) ==
  /\ chain' = [chain EXCEPT ![p] = c]
  /\ c = NotOpen \/ (c \in ChainState /\ c.seq = chain[p].seq + 1)
  /\ shared' = shared

LEMMA OneMoves ==
  ASSUME AuditTypeOK, NumbersInv, NEW p \in Opened, NEW c, ChainMoves(p, c),
         c # NotOpen => events' = events + 1 /\ c.prev <= events',
         events <= events', events' \in Nat
  PROVE  /\ chain' \in [Processes -> {NotOpen} \union ChainState]
         /\ Opened' = IF c = NotOpen THEN Opened \ {p} ELSE Opened
         /\ chain'[p] = c /\ \A q \in Processes : q # p => chain'[q] = chain[q]
         /\ \A q \in Opened' : chain'[q].seq <= events' /\ chain'[q].prev <= events'
<1>1. p \in Processes
  BY DEF Opened
<1>2. /\ chain' \in [Processes -> {NotOpen} \union ChainState]
      /\ chain'[p] = c /\ \A q \in Processes : q # p => chain'[q] = chain[q]
  BY <1>1 DEF AuditTypeOK, ChainMoves
<1>4. Opened' = IF c = NotOpen THEN Opened \ {p} ELSE Opened
  BY <1>1, <1>2 DEF Opened
<1>5. \A q \in Opened : /\ chain[q].seq \in Nat /\ chain[q].prev \in Nat
                        /\ chain[q].seq <= events /\ chain[q].prev <= events
      /\ events \in Nat
  <2>1. /\ \A q \in Opened : q \in Processes /\ chain[q] \in ChainState
        /\ events \in 0..MaxEvents /\ MaxEvents \in Nat
    BY EntriesTyped
  <2>2. \A x \in ChainState : x.seq \in Nat /\ x.prev \in Nat
    BY <2>1 DEF ChainState
  <2> QED BY <2>1, <2>2 DEF NumbersInv
<1>6. ASSUME NEW q \in Opened' PROVE chain'[q].seq <= events' /\ chain'[q].prev <= events'
  <2>1. CASE q = p
    <3>1. c # NotOpen
      BY <1>4, <2>1
    <3>2. c.seq = chain[p].seq + 1
      BY <3>1 DEF ChainMoves
    <3> QED BY <1>2, <1>5, <2>1, <3>1, <3>2
  <2>2. CASE q # p
    <3>1. q \in Opened /\ q \in Processes
      BY <1>4 DEF Opened
    <3> QED BY <1>2, <1>5, <2>2, <3>1
  <2> QED BY <2>1, <2>2
<1> QED BY <1>2, <1>4, <1>6

LEMMA CloseStep ==
  ASSUME AuditInv, NEW p \in Processes, CloseLog(p)
  PROVE  AuditInv'
<1>0. AuditTypeOK /\ NumbersInv /\ GrowInv /\ CarryInv /\ OneChain
  BY DEF AuditInv
<1>1. /\ chain' = [chain EXCEPT ![p] = NotOpen] /\ UNCHANGED <<logFile, tail, events, shared>>
      /\ p \in Opened
  BY DEF CloseLog, Opened
<1>2. Entries' = Entries /\ Kept' = Kept
  BY <1>1 DEF Entries, Kept
<1>3. ChainMoves(p, NotOpen) /\ events \in Nat
  BY <1>0, <1>1, EntriesTyped DEF ChainMoves
<1>4. /\ chain' \in [Processes -> {NotOpen} \union ChainState] /\ Opened' = Opened \ {p}
      /\ \A q \in Processes : q # p => chain'[q] = chain[q]
      /\ \A q \in Opened' : chain'[q].seq <= events' /\ chain'[q].prev <= events'
  BY <1>0, <1>1, <1>3, OneMoves
<1>5. \A q \in Opened' : q \in Opened /\ chain'[q] = chain[q]
  BY <1>4 DEF Opened
<1>6. AuditTypeOK' /\ NumbersInv' /\ GrowInv' /\ OneChain'
  BY <1>0, <1>1, <1>2, <1>4 DEF AuditTypeOK, NumbersInv, GrowInv, OneChain
<1>7. CarryInv'
  BY <1>0, <1>1, <1>2, <1>5 DEF CarryInv
<1> QED BY <1>6, <1>7 DEF AuditInv

\* What a process appends.
LEMMA EntryTyped ==
  ASSUME AuditInv, NEW p \in Opened, events < MaxEvents
  PROVE  /\ Entry(p) \in LogEntry /\ Entry(p) # Garbage
         /\ Entry(p).hash = events + 1 /\ Entry(p).seq = chain[p].seq + 1
         /\ Entry(p).prev = chain[p].prev
         /\ events \in Nat /\ events + 1 \in 0..MaxEvents
         /\ chain[p].seq + 1 \in 0..MaxEvents /\ chain[p].prev \in 0..MaxEvents
         /\ chain[p].prev <= events
<1>1. events \in 0..MaxEvents /\ MaxEvents \in Nat /\ chain[p] \in ChainState
  BY EntriesTyped DEF AuditInv
<1>2. chain[p].seq <= events /\ chain[p].prev <= events
  BY DEF AuditInv, NumbersInv
<1>3. chain[p].seq \in Nat /\ chain[p].prev \in Nat
  BY <1>1, AuditFields
<1> QED BY <1>1, <1>2, <1>3 DEF Entry, LogEntry, Garbage

\* An entry is written, at the end of a line or behind one that was not ended.
LEMMA WriteStep ==
  ASSUME AuditInv, NEW p \in Processes, WriteEntry(p)
  PROVE  AuditInv'
<1>0. AuditTypeOK /\ NumbersInv /\ GrowInv /\ CarryInv /\ OneChain
  BY DEF AuditInv
<1>1. /\ p \in Opened /\ events < MaxEvents /\ events' = events + 1 /\ shared' = shared
      /\ logFile' = Appended(Entry(p)) /\ tail' = "line"
  BY DEF WriteEntry, Opened
<1>2. /\ Entry(p) \in LogEntry /\ Entry(p).hash = events + 1 /\ Entry(p).seq = chain[p].seq + 1
      /\ events \in Nat /\ events + 1 \in 0..MaxEvents
      /\ chain[p].seq + 1 \in 0..MaxEvents
  BY <1>0, <1>1, EntryTyped DEF AuditInv
<1> DEFINE c == [seq |-> chain[p].seq + 1, prev |-> events + 1]
<1>3. ChainMoves(p, c)
  <2>1. p \in Processes /\ chain[p] \in ChainState
    BY <1>0, <1>1, EntriesTyped
  <2>2. chain' = [chain EXCEPT ![p] = c]
    BY <1>2 DEF WriteEntry
  <2>4. c \in ChainState
    BY <1>2 DEF ChainState
  <2> HIDE DEF c
  <2>5. c.seq = chain[p].seq + 1
    BY DEF c
  <2> QED BY <1>1, <2>2, <2>4, <2>5 DEF ChainMoves
<1>4. c # NotOpen /\ c.seq = chain[p].seq + 1 /\ c.prev = events + 1
  BY DEF NotOpen
<1> HIDE DEF c
<1>5. /\ chain' \in [Processes -> {NotOpen} \union ChainState] /\ Opened' = Opened
      /\ chain'[p] = c /\ \A q \in Processes : q # p => chain'[q] = chain[q]
      /\ \A q \in Opened' : chain'[q].seq <= events' /\ chain'[q].prev <= events'
  <2>1. events' = events + 1 /\ c.prev <= events' /\ events <= events' /\ events' \in Nat
    BY <1>1, <1>2, <1>4
  <2> QED BY <1>0, <1>1, <1>3, <1>4, <2>1, OneMoves
<1>6. /\ logFile' \in Seq({Garbage} \union LogEntry) /\ logFile' # <<>>
      /\ \A i \in Entries' : logFile'[i].hash <= events' /\ logFile'[i].seq <= events'
      /\ ~shared' => \A i, j \in Entries' :
           i < j => logFile'[i].seq < logFile'[j].seq /\ logFile'[i].hash < logFile'[j].hash
      /\ OneChain'
      /\ \A i \in Entries' : logFile'[i] = Entry(p) \/ (i \in Kept /\ logFile'[i] = logFile[i])
      /\ Len(logFile') \in Entries' => logFile'[Len(logFile')] = Entry(p)
  <2>1. CASE tail = "line"
    <3>1. logFile' = Append(logFile, Entry(p))
      BY <1>1, <2>1 DEF Appended
    <3>2. logFile' \in Seq({Garbage} \union LogEntry) /\ logFile' # <<>>
      BY <1>0, <1>2, <3>1 DEF AuditTypeOK
    <3>3. Kept = Entries
      BY <2>1 DEF Kept
    <3>4. /\ Entries' = Entries \union {Len(logFile) + 1} /\ Len(logFile') = Len(logFile) + 1
          /\ \A i \in Entries : logFile'[i] = logFile[i]
          /\ logFile'[Len(logFile) + 1] = Entry(p)
          /\ \A i \in Entries' : logFile'[i].hash <= events' /\ logFile'[i].seq <= events'
          /\ ~shared' => \A i, j \in Entries' :
               i < j => logFile'[i].seq < logFile'[j].seq /\ logFile'[i].hash < logFile'[j].hash
          /\ OneChain'
      BY <1>1, <2>1, <3>1, EntryAdded
    <3> QED BY <3>2, <3>3, <3>4
  <2>2. CASE tail # "line"
    <3>1. /\ logFile' \in Seq({Garbage} \union LogEntry)
          /\ Entries' = Kept /\ \A i \in Kept : logFile'[i] = logFile[i]
          /\ Len(logFile') \notin Entries' /\ logFile' # <<>>
      BY <1>0, <1>1, <2>2, GarbageAdded
    <3>2. LogCut(CutAt) /\ CutAt \in Nat
      BY <1>0, <1>1, <1>2, <3>1, KeptAreCut DEF LogCut
    <3>3. events' \in Nat
      BY <1>1, <1>2
    <3> QED BY <3>1, <3>2, <3>3, CutKeeps
  <2> QED BY <2>1, <2>2
<1>7. AuditTypeOK'
  BY <1>0, <1>1, <1>2, <1>5, <1>6 DEF AuditTypeOK
<1>8. NumbersInv' /\ GrowInv'
  BY <1>0, <1>1, <1>5, <1>6 DEF NumbersInv, GrowInv
<1>9. CarryInv'
  <2> SUFFICES ASSUME ~shared', NEW q \in Opened'
               PROVE  /\ \A i \in Entries' : logFile'[i].seq <= chain'[q].seq
                                             /\ logFile'[i].hash <= chain'[q].prev
                      /\ Len(logFile') \in Entries' => chain'[q].prev = logFile'[Len(logFile')].hash
    BY <1>6 DEF CarryInv, Kept
  <2>1. q = p /\ chain'[q] = c
    BY <1>0, <1>1, <1>5 DEF GrowInv
  <2>2. ASSUME NEW i \in Kept PROVE logFile[i].seq <= c.seq /\ logFile[i].hash <= c.prev
    <3>1. /\ i \in Entries /\ logFile[i].seq <= chain[p].seq
          /\ logFile[i].seq \in Nat /\ chain[p].seq \in Nat
      <4>1. i \in Entries /\ logFile[i].seq <= chain[p].seq
        BY <1>0, <1>1 DEF CarryInv, Kept
      <4>2. logFile[i] \in LogEntry /\ chain[p] \in ChainState /\ MaxEvents \in Nat
        BY <1>0, <1>1, <4>1, EntriesTyped
      <4> QED BY <4>1, <4>2, AuditFields
    <3>2. logFile[i].hash <= events /\ logFile[i].hash \in Nat
      <4>1. logFile[i] \in LogEntry /\ MaxEvents \in Nat
        BY <1>0, <3>1, EntriesTyped
      <4>2. logFile[i].hash \in Nat
        BY <4>1 DEF LogEntry
      <4> QED BY <1>0, <3>1, <4>2 DEF NumbersInv
    <3> QED BY <1>2, <1>4, <3>1, <3>2
  <2>3. Entry(p).seq <= c.seq /\ Entry(p).hash <= c.prev /\ c.prev = Entry(p).hash
    BY <1>2, <1>4
  <2> QED BY <1>6, <2>1, <2>2, <2>3
<1> QED BY <1>6, <1>7, <1>8, <1>9 DEF AuditInv

\* A number is used up and nothing is written, or the line is torn off.
LEMMA FailStep ==
  ASSUME AuditInv, NEW p \in Processes, WriteFails(p) \/ WriteTorn(p)
  PROVE  AuditInv'
<1>0. AuditTypeOK /\ NumbersInv /\ GrowInv /\ CarryInv /\ OneChain
  BY DEF AuditInv
<1>1. p \in Opened /\ events < MaxEvents /\ events' = events + 1 /\ shared' = shared
  BY DEF WriteFails, WriteTorn, Opened
<1>2. /\ Entry(p) \in LogEntry /\ Entry(p) # Garbage
      /\ Entry(p).seq = chain[p].seq + 1 /\ Entry(p).prev = chain[p].prev
      /\ events \in Nat /\ events + 1 \in 0..MaxEvents
      /\ chain[p].seq + 1 \in 0..MaxEvents /\ chain[p].prev \in 0..MaxEvents
      /\ chain[p].prev <= events
  BY <1>0, <1>1, EntryTyped DEF AuditInv
<1>3. chain[p] \in ChainState /\ MaxEvents \in Nat
  BY <1>0, <1>1, EntriesTyped
<1>4. PICK c : /\ ChainMoves(p, c)
               /\ c = NotOpen \/ (c # NotOpen /\ c.prev = chain[p].prev /\ c.seq = chain[p].seq + 1)
  <2> DEFINE d == [seq |-> chain[p].seq + 1, prev |-> chain[p].prev]
  <2>1. d \in ChainState /\ d # NotOpen /\ d.prev = chain[p].prev /\ d.seq = chain[p].seq + 1
    BY <1>2 DEF ChainState, NotOpen
  <2>2. [chain[p] EXCEPT !.seq = chain[p].seq + 1] = d
    BY <1>2, <1>3, AuditFields
  <2>3. \/ chain' = [chain EXCEPT ![p] = NotOpen]
        \/ chain' = [chain EXCEPT ![p] = [chain[p] EXCEPT !.seq = chain[p].seq + 1]]
    <3>1. CASE WriteFails(p)
      BY <3>1 DEF WriteFails
    <3>2. CASE WriteTorn(p)
      BY <3>2 DEF WriteTorn
    <3> QED BY <3>1, <3>2
  <2> HIDE DEF d
  <2> QED BY <1>1, <2>1, <2>2, <2>3 DEF ChainMoves
<1>5. /\ chain' \in [Processes -> {NotOpen} \union ChainState]
      /\ Opened' = IF c = NotOpen THEN Opened \ {p} ELSE Opened
      /\ chain'[p] = c /\ \A q \in Processes : q # p => chain'[q] = chain[q]
      /\ \A q \in Opened' : chain'[q].seq <= events' /\ chain'[q].prev <= events'
  <2>1. /\ c # NotOpen => events' = events + 1 /\ c.prev <= events'
        /\ events <= events' /\ events' \in Nat
    BY <1>1, <1>2, <1>4
  <2> QED BY <1>0, <1>1, <1>4, <2>1, OneMoves
<1>6. /\ logFile' \in Seq({Garbage} \union LogEntry) /\ tail' \in {"line", "torn", "open"}
      /\ \A i \in Entries' : logFile'[i].hash <= events' /\ logFile'[i].seq <= events'
      /\ ~shared' => \A i, j \in Entries' :
           i < j => logFile'[i].seq < logFile'[j].seq /\ logFile'[i].hash < logFile'[j].hash
      /\ OneChain'
      /\ Kept' \subseteq Kept /\ \A i \in Kept' : logFile'[i] = logFile[i]
      /\ tail' = "open" => Len(logFile') \in Entries'
      /\ tail' = "line" => tail = "line" /\ logFile' = logFile
  <2>0. events' \in Nat /\ events <= events'
    BY <1>1, <1>2
  <2>1. CASE logFile' = logFile /\ (tail' = tail \/ (tail' = "torn" /\ tail # "open"))
    <3>1. Entries' = Entries /\ Kept' \subseteq Kept /\ \A i \in Kept' : i \in Entries
      BY <2>1 DEF Entries, Kept
    <3> QED BY <1>0, <1>1, <2>0, <2>1, <3>1, LogUntouched
            DEF AuditTypeOK, NumbersInv, AuditInv
  <2>2. CASE tail = "line" /\ logFile' = Append(logFile, Entry(p)) /\ tail' = "open"
    <3>1. /\ Entries' = Entries \union {Len(logFile) + 1} /\ Len(logFile') = Len(logFile) + 1
          /\ \A i \in Entries : logFile'[i] = logFile[i]
          /\ \A i \in Entries' : logFile'[i].hash <= events' /\ logFile'[i].seq <= events'
          /\ ~shared' => \A i, j \in Entries' :
               i < j => logFile'[i].seq < logFile'[j].seq /\ logFile'[i].hash < logFile'[j].hash
          /\ OneChain'
      BY <1>1, <2>2, EntryAdded
    <3>2. logFile' \in Seq({Garbage} \union LogEntry)
      BY <1>0, <1>2, <2>2 DEF AuditTypeOK
    <3>3. Kept' \subseteq Kept /\ \A i \in Kept' : i \in Entries
      <4>1. Kept = Entries
        BY <2>2 DEF Kept
      <4> QED BY <2>2, <3>1, <4>1 DEF Kept
    <3> QED BY <2>2, <3>1, <3>2, <3>3
  <2>3. CASE tail = "open" /\ logFile' = Front(logFile) /\ tail' = "torn"
    <3>1. /\ logFile' \in Seq({Garbage} \union LogEntry)
          /\ Entries' = Kept /\ \A i \in Kept : logFile'[i] = logFile[i]
      BY <1>0, <2>3, LineCutOff
    <3>2. LogCut(CutAt) /\ CutAt \in Nat
      BY <1>0, <1>1, <2>0, <3>1, KeptAreCut DEF LogCut
    <3>3. Kept' = Kept
      BY <2>3, <3>1 DEF Kept
    <3> QED BY <2>0, <2>3, <3>1, <3>2, <3>3, CutKeeps
  <2> QED BY <2>1, <2>2, <2>3 DEF WriteFails, WriteTorn
<1>7. AuditTypeOK'
  BY <1>0, <1>1, <1>2, <1>5, <1>6 DEF AuditTypeOK
<1>8. NumbersInv' /\ GrowInv'
  BY <1>0, <1>1, <1>5, <1>6 DEF NumbersInv, GrowInv
<1>9. CarryInv'
  <2> SUFFICES ASSUME ~shared', NEW q \in Opened'
               PROVE  /\ \A i \in Kept' : logFile'[i].seq <= chain'[q].seq
                                          /\ logFile'[i].hash <= chain'[q].prev
                      /\ tail' = "line" /\ logFile' = <<>> => chain'[q].prev = 0
                      /\ tail' = "line" /\ Len(logFile') \in Entries' =>
                           chain'[q].prev = logFile'[Len(logFile')].hash
    BY DEF CarryInv
  <2>1. q = p /\ chain'[q] = c /\ c # NotOpen
    BY <1>0, <1>1, <1>5 DEF GrowInv
  <2>2. c.prev = chain[p].prev /\ c.seq = chain[p].seq + 1 /\ chain[p].seq \in Nat
    BY <1>3, <1>4, <2>1, AuditFields
  <2>3. /\ \A i \in Kept : logFile[i].seq <= chain[p].seq /\ logFile[i].hash <= chain[p].prev
        /\ tail = "line" /\ logFile = <<>> => chain[p].prev = 0
        /\ tail = "line" /\ Len(logFile) \in Entries => chain[p].prev = logFile[Len(logFile)].hash
    BY <1>0, <1>1 DEF CarryInv
  <2>4. \A i \in Kept : logFile[i].seq \in Nat
    BY <1>0, EntriesTyped, AuditFields DEF Kept
  <2>5. logFile' = logFile => Entries' = Entries
    BY DEF Entries
  <2> QED BY <1>6, <2>1, <2>2, <2>3, <2>4, <2>5
<1> QED BY <1>6, <1>7, <1>8, <1>9 DEF AuditInv

LEMMA AuditStep == AuditInv /\ [AuditNext]_auditVars => AuditInv'
<1> SUFFICES ASSUME AuditInv, [AuditNext]_auditVars PROVE AuditInv'
  OBVIOUS
<1>1. ASSUME NEW p \in Processes, OpenLog(p) PROVE AuditInv'
  BY <1>1, OpenStep
<1>2. ASSUME NEW p \in Processes, CloseLog(p) PROVE AuditInv'
  BY <1>2, CloseStep
<1>3. ASSUME NEW p \in Processes, WriteEntry(p) PROVE AuditInv'
  BY <1>3, WriteStep
<1>4. ASSUME NEW p \in Processes, WriteFails(p) \/ WriteTorn(p) PROVE AuditInv'
  BY <1>4, FailStep
<1>5. CASE UNCHANGED auditVars
  BY <1>5 DEF auditVars, AuditInv, AuditTypeOK, NumbersInv, GrowInv, CarryInv, OneChain, Kept,
              Entries, Opened
<1> QED BY <1>1, <1>2, <1>3, <1>4, <1>5 DEF AuditNext

-----------------------------------------------------------------------------
(* The verifier of the log *)

Violation == [line : Nat, reason : {"parse error", "sequence gap", "tampered"}]

VerifierState ==
  [violations : SUBSET Violation, expected : Nat, prev : Nat, valid : Nat]

LEMMA VerifyLineType ==
  ASSUME AuditTypeOK, NEW v \in VerifierState, NEW i \in Nat \ {0}
  PROVE  VerifyLine(v, i) \in VerifierState
<1> DEFINE e == logFile[i]
           gap  == IF e.seq = v.expected + 1 THEN {} ELSE {[line |-> i, reason |-> "sequence gap"]}
           fork == IF e.prev = v.prev THEN {} ELSE {[line |-> i, reason |-> "tampered"]}
<1>1. CASE i > Len(logFile) \/ logFile[i] = Garbage
  <2>1. PICK vs : vs = v.violations \union {[line |-> i, reason |-> "parse error"]}
    OBVIOUS
  <2>2. VerifyLine(v, i) = [v EXCEPT !.violations = vs]
    BY <1>1, <2>1 DEF VerifyLine
  <2>3. [line |-> i, reason |-> "parse error"] \in Violation
    BY DEF Violation
  <2>4. vs \in SUBSET Violation
    BY <2>1, <2>3 DEF VerifierState
  <2> QED BY <2>2, <2>4 DEF VerifierState
<1>2. CASE ~ (i > Len(logFile) \/ logFile[i] = Garbage)
  <2>1. i \in Entries
    BY <1>2, EntriesTyped DEF Entries
  <2>2. e \in LogEntry /\ MaxEvents \in Nat
    BY <2>1, EntriesTyped
  <2>3. e.seq \in Nat /\ e.hash \in Nat
    BY <2>2 DEF LogEntry
  <2> HIDE DEF e
  <2>4. gap \in SUBSET Violation
    BY DEF Violation
  <2>5. fork \in SUBSET Violation
    BY DEF Violation
  <2>6. VerifyLine(v, i) = [violations |-> v.violations \union gap \union fork,
                            expected |-> e.seq, prev |-> e.hash,
                            valid |-> v.valid + (IF fork = {} THEN 1 ELSE 0)]
    BY <1>2 DEF VerifyLine, e
  <2>7. v.violations \in SUBSET Violation
        /\ v.valid \in Nat
    BY DEF VerifierState
  <2> HIDE DEF gap, fork
  <2>8. PICK b \in {0, 1} : b = (IF fork = {} THEN 1 ELSE 0)
    OBVIOUS
  <2>9. v.valid + b \in Nat
    BY <2>7
  <2> QED BY <2>3, <2>4, <2>5, <2>6, <2>7, <2>8, <2>9 DEF VerifierState
<1> QED BY <1>1, <1>2

\* The verdict on a line is computed from the one on the lines before it.
LEMMA VerdictSteps ==
  ASSUME AuditTypeOK
  PROVE  /\ Verdict[0] = Unverified
         /\ \A n \in Nat : /\ Verdict[n] \in VerifierState
                           /\ Verdict[n + 1] = VerifyLine(Verdict[n], n + 1)
<1> DEFINE step == [x \in Nat \X VerifierState |-> VerifyLine(x[2], x[1] + 1)]
<1>1. Unverified \in VerifierState
  BY DEF Unverified, VerifierState
<1>2. ASSUME NEW n \in Nat, NEW v \in VerifierState
      PROVE  step[<<n, v>>] = VerifyLine(v, n + 1) /\ step[<<n, v>>] \in VerifierState
  <2>1. <<n, v>> \in Nat \X VerifierState /\ n + 1 \in Nat \ {0}
    OBVIOUS
  <2>2. step[<<n, v>>] = VerifyLine(v, n + 1)
    BY <2>1
  <2> QED BY <2>1, <2>2, VerifyLineType
<1> HIDE DEF step
<1>3. \A n \in Nat, v \in VerifierState : step[<<n, v>>] \in VerifierState
  BY <1>2
<1>4. PICK f : Recursion(f, VerifierState, Unverified, step)
  BY <1>1, <1>3, RecursionExists
<1>5. ASSUME NEW n \in Nat
      PROVE  f[n] = IF n = 0 THEN Unverified ELSE VerifyLine(f[n - 1], n)
  <2>1. CASE n = 0
    BY <1>4, <2>1 DEF Recursion
  <2>2. CASE n # 0
    <3>1. n - 1 \in Nat /\ n - 1 + 1 = n
      BY <2>2
    <3>2. f[n] = step[<<n - 1, f[n - 1]>>] /\ f[n - 1] \in VerifierState
      BY <1>4, <3>1 DEF Recursion
    <3> QED BY <1>2, <2>2, <3>1, <3>2
  <2> QED BY <2>1, <2>2
<1>6. f = [n \in Nat |-> IF n = 0 THEN Unverified ELSE VerifyLine(f[n - 1], n)]
  BY <1>4, <1>5 DEF Recursion
<1>7. Verdict = [n \in Nat |-> IF n = 0 THEN Unverified ELSE VerifyLine(Verdict[n - 1], n)]
  BY <1>6 DEF Verdict
<1>8. Verdict[0] = Unverified
  BY <1>7
<1>9. ASSUME NEW n \in Nat PROVE Verdict[n + 1] = VerifyLine(Verdict[n], n + 1)
  <2>1. n + 1 \in Nat /\ n + 1 # 0 /\ n + 1 - 1 = n
    OBVIOUS
  <2> QED BY <1>7, <2>1
<1> DEFINE S == {n \in Nat : Verdict[n] \in VerifierState}
<1>10. 0 \in S
  BY <1>1, <1>8
<1>11. ASSUME NEW n \in Nat, n \in S PROVE n + 1 \in S
  <2>1. n + 1 \in Nat \ {0}
    OBVIOUS
  <2> QED BY <1>9, <1>11, <2>1, VerifyLineType
<1>12. Nat \subseteq S
  <2> HIDE DEF S
  <2> QED BY <1>10, <1>11, SetInduction
<1> QED BY <1>8, <1>9, <1>12

EntriesTo(n) == {j \in Entries : j <= n}

TamperedIn(v) == {x \in v.violations : x.reason = "tampered"}

\* The hash the verifier carries on from line n: of the last entry it has met.
CarriesHash(n) ==
  \/ EntriesTo(n) = {} /\ Verdict[n].prev = 0
  \/ \E j \in EntriesTo(n) : Verdict[n].prev = logFile[j].hash
                             /\ \A k \in EntriesTo(n) : k <= j

\* With no violation so far, the lines so far are a chain, and the verifier expects the next.
ChainTo(n) == Verdict[n].violations = {} =>
  /\ Verdict[n].expected = n
  /\ \A i \in 1..n :
       i \in Entries /\ logFile[i].seq = i
       /\ logFile[i].prev = IF i = 1 THEN 0 ELSE logFile[i - 1].hash

\* Violations are of lines met, and one that is no forgery of a lone writer is named as such.
ViolationsTo(n) == \A x \in Verdict[n].violations :
  /\ x.line <= n
  /\ ~shared /\ x.reason = "tampered" => x.line > 1 /\ logFile[x.line - 1] = Garbage

CountsTo(n) ==
  /\ IsFiniteSet(EntriesTo(n)) /\ IsFiniteSet(TamperedIn(Verdict[n]))
  /\ Verdict[n].valid = Cardinality(EntriesTo(n)) - Cardinality(TamperedIn(Verdict[n]))

VerdictInv(n) == CarriesHash(n) /\ ChainTo(n) /\ ViolationsTo(n) /\ CountsTo(n)

LEMMA VerdictBegins == AuditTypeOK => VerdictInv(0)
<1> SUFFICES ASSUME AuditTypeOK PROVE VerdictInv(0)
  OBVIOUS
<1>1. EntriesTo(0) = {}
  BY EntriesTyped DEF EntriesTo
<1>2. Verdict[0] = Unverified
  BY VerdictSteps
<1>3. TamperedIn(Verdict[0]) = {}
  BY <1>2 DEF TamperedIn, Unverified
<1>4. Cardinality({}) = 0 /\ IsFiniteSet({})
  BY FS_EmptySet
<1> QED BY <1>1, <1>2, <1>3, <1>4
        DEF VerdictInv, CarriesHash, ChainTo, ViolationsTo, CountsTo, Unverified

\* A line that is no entry adds a violation and nothing else.
LEMMA UnreadLine ==
  ASSUME AuditTypeOK, NEW n \in Nat, VerdictInv(n), n + 1 \notin Entries
  PROVE  VerdictInv(n + 1) /\ Verdict[n + 1].violations # {}
<1> DEFINE x == [line |-> n + 1, reason |-> "parse error"]
           v == Verdict[n]
           w == Verdict[n + 1]
<1>1. v \in VerifierState /\ w = VerifyLine(v, n + 1)
  BY VerdictSteps
<1>2. n + 1 > Len(logFile) \/ logFile[n + 1] = Garbage
  BY EntriesTyped DEF Entries
<1>3. PICK vs : vs = v.violations \union {x}
  OBVIOUS
<1>4. w = [v EXCEPT !.violations = vs]
  BY <1>1, <1>2, <1>3 DEF VerifyLine
<1>5. w.violations = vs /\ w.prev = v.prev /\ w.valid = v.valid
  BY <1>1, <1>4 DEF VerifierState
<1>6. EntriesTo(n + 1) = EntriesTo(n)
  BY EntriesTyped DEF EntriesTo
<1>7. x.line = n + 1 /\ x.reason = "parse error"
  OBVIOUS
<1> HIDE DEF x
<1>8. TamperedIn(w) = TamperedIn(v)
  BY <1>3, <1>5, <1>7 DEF TamperedIn
<1>9. CarriesHash(n + 1) /\ CountsTo(n + 1)
  BY <1>5, <1>6, <1>8 DEF VerdictInv, CarriesHash, CountsTo
<1>10. ViolationsTo(n + 1)
  <2> SUFFICES ASSUME NEW y \in w.violations
               PROVE  /\ y.line <= n + 1
                      /\ ~shared /\ y.reason = "tampered" =>
                           y.line > 1 /\ logFile[y.line - 1] = Garbage
    BY DEF ViolationsTo
  <2>1. CASE y = x
    <3>1. y.line = n + 1 /\ y.reason = "parse error"
      BY <1>7, <2>1
    <3>2. n + 1 <= n + 1 /\ "parse error" # "tampered"
      OBVIOUS
    <3> QED BY <3>1, <3>2
  <2>2. CASE y \in v.violations
    <3>1. y.line \in Nat
      BY <1>1, <2>2 DEF VerifierState, Violation
    <3>2. /\ y.line <= n
          /\ ~shared /\ y.reason = "tampered" => y.line > 1 /\ logFile[y.line - 1] = Garbage
      BY <2>2 DEF VerdictInv, ViolationsTo
    <3>3. y.line <= n + 1
      BY <3>1, <3>2
    <3> QED BY <3>2, <3>3
  <2> QED BY <1>3, <1>5, <2>1, <2>2
<1>11. w.violations # {}
  BY <1>3, <1>5
<1> QED BY <1>9, <1>10, <1>11 DEF VerdictInv, ChainTo

\* An entry that names another predecessor than the last entry stands, in a log of one process
\* at a time, behind a line that cannot be read.
LEMMA ForkBehindGarbage ==
  ASSUME AuditTypeOK, OneChain, NEW n \in Nat, CarriesHash(n), n + 1 \in Entries, ~shared,
         logFile[n + 1].prev # Verdict[n].prev
  PROVE  n + 1 > 1 /\ logFile[n] = Garbage
<1> DEFINE earlier == {j \in Entries : j < n + 1}
<1>1. EntriesTo(n) = earlier
  BY EntriesTyped DEF EntriesTo
<1>2. Len(logFile) \in Nat /\ n + 1 \in 1..Len(logFile)
  BY EntriesTyped
<1>3. CASE earlier = {}
  <2>1. Verdict[n].prev = 0
    BY <1>1, <1>3 DEF CarriesHash
  <2>2. n + 1 > 1
    BY <1>3, <2>1 DEF OneChain
  <2>3. n \in 1..Len(logFile) /\ n \notin Entries
    BY <1>2, <1>3, <2>2
  <2> QED BY <2>2, <2>3 DEF Entries
<1>4. CASE earlier # {}
  <2>1. PICK j \in earlier : Verdict[n].prev = logFile[j].hash /\ \A k \in earlier : k <= j
    BY <1>1, <1>4 DEF CarriesHash
  <2>2. n + 1 \in Nat
    OBVIOUS
  <2>3. /\ Max(earlier) \in Entries /\ Max(earlier) < n + 1
        /\ \A y \in Entries : y < n + 1 => y <= Max(earlier)
    BY <1>4, <2>2, LastEarlier
  <2>4. Max(earlier) = n + 1 - 1 => logFile[n + 1].prev = logFile[Max(earlier)].hash
    <3> HIDE DEF earlier
    <3> QED BY <1>4 DEF OneChain, earlier
  <2> HIDE DEF earlier
  <2>5. PICK m : m = Max(earlier)
    OBVIOUS
  <2>6. j \in 1..Len(logFile) /\ j \in Entries /\ j < n + 1
    BY <1>2, EntriesTyped DEF earlier
  <2>7. m = j
    <3>1. m \in Entries /\ m < n + 1 /\ j <= m
      BY <2>3, <2>5, <2>6
    <3>2. m \in earlier /\ m \in 1..Len(logFile)
      BY <3>1, EntriesTyped DEF earlier
    <3>3. m <= j
      BY <2>1, <3>2
    <3> QED BY <1>2, <2>6, <3>1, <3>2, <3>3
  <2>8. n # j
    BY <2>1, <2>4, <2>5, <2>7
  <2>9. n \in 1..Len(logFile)
    BY <1>2, <2>6
  <2>10. n \notin Entries
    BY <2>1, <2>6, <2>8, <2>9 DEF earlier
  <2> QED BY <2>6, <2>9, <2>10 DEF Entries
<1> QED BY <1>3, <1>4

\* What a readable line makes of the verifier's state.
LEMMA ReadLine ==
  ASSUME AuditTypeOK, NEW n \in Nat, n + 1 \in Entries
  PROVE  LET v == Verdict[n]
             w == Verdict[n + 1]
             e == logFile[n + 1] IN
         /\ w.expected = e.seq /\ w.prev = e.hash
         /\ w.violations = {} => v.violations = {} /\ e.seq = v.expected + 1 /\ e.prev = v.prev
         /\ \A x \in w.violations : \/ x \in v.violations
                                    \/ x.line = n + 1 /\ (x.reason = "tampered" => e.prev # v.prev)
         /\ \/ e.prev = v.prev /\ w.valid = v.valid + 1 /\ TamperedIn(w) = TamperedIn(v)
            \/ e.prev # v.prev /\ w.valid = v.valid
               /\ TamperedIn(w) = TamperedIn(v) \union {[line |-> n + 1, reason |-> "tampered"]}
<1> DEFINE v == Verdict[n]
           w == Verdict[n + 1]
           e == logFile[n + 1]
           a == [line |-> n + 1, reason |-> "sequence gap"]
           b == [line |-> n + 1, reason |-> "tampered"]
           gap == IF e.seq = v.expected + 1 THEN {} ELSE {a}
           fork == IF e.prev = v.prev THEN {} ELSE {b}
<1>1. v \in VerifierState /\ w = VerifyLine(v, n + 1)
  BY VerdictSteps
<1>2. ~ (n + 1 > Len(logFile) \/ logFile[n + 1] = Garbage)
  BY EntriesTyped DEF Entries
<1>3. w = [violations |-> v.violations \union gap \union fork, expected |-> e.seq,
           prev |-> e.hash, valid |-> v.valid + (IF fork = {} THEN 1 ELSE 0)]
  BY <1>1, <1>2 DEF VerifyLine
<1>4. a.line = n + 1 /\ a.reason = "sequence gap" /\ b.line = n + 1 /\ b.reason = "tampered"
  OBVIOUS
<1>5. v.valid \in Nat
  BY <1>1 DEF VerifierState
<1> HIDE DEF v, w, e, a, b
<1>6. w.violations = v.violations \union gap \union fork /\ w.expected = e.seq /\ w.prev = e.hash
      /\ w.valid = v.valid + (IF fork = {} THEN 1 ELSE 0)
  BY <1>3
<1>7. TamperedIn(w) = TamperedIn(v) \union fork
  BY <1>4, <1>6 DEF TamperedIn
<1>8. w.violations = {} => v.violations = {} /\ e.seq = v.expected + 1 /\ e.prev = v.prev
  BY <1>6
<1>9. \A x \in w.violations : \/ x \in v.violations
                              \/ x.line = n + 1 /\ (x.reason = "tampered" => e.prev # v.prev)
  BY <1>4, <1>6
<1>10. CASE e.prev = v.prev
  <2>1. fork = {} /\ w.valid = v.valid + 1
    BY <1>6, <1>10
  <2>2. TamperedIn(w) = TamperedIn(v)
    BY <1>7, <2>1
  <2> QED BY <1>6, <1>8, <1>9, <1>10, <2>1, <2>2 DEF v, w, e, b
<1>11. CASE e.prev # v.prev
  <2>1. fork = {b}
    BY <1>11
  <2>2. w.valid = v.valid
    BY <1>5, <1>6, <2>1
  <2>3. TamperedIn(w) = TamperedIn(v) \union {b}
    BY <1>7, <2>1
  <2> QED BY <1>6, <1>8, <1>9, <1>11, <2>2, <2>3 DEF v, w, e, b
<1> QED BY <1>10, <1>11

LEMMA EntryLine ==
  ASSUME AuditTypeOK, OneChain, NEW n \in Nat, VerdictInv(n), n + 1 \in Entries
  PROVE  VerdictInv(n + 1)
<1> DEFINE v == Verdict[n]
           w == Verdict[n + 1]
           e == logFile[n + 1]
           b == [line |-> n + 1, reason |-> "tampered"]
<1>1. v \in VerifierState /\ w \in VerifierState
  BY VerdictSteps
<1>2. EntriesTo(n + 1) = EntriesTo(n) \union {n + 1} /\ n + 1 \notin EntriesTo(n)
  BY EntriesTyped DEF EntriesTo
<1>3. CarriesHash(n + 1)
  <2>1. n + 1 \in EntriesTo(n + 1) /\ w.prev = e.hash
    BY <1>2, ReadLine
  <2>2. \A k \in EntriesTo(n + 1) : k <= n + 1
    BY DEF EntriesTo
  <2> QED BY <2>1, <2>2 DEF CarriesHash
<1>4. ViolationsTo(n + 1)
  <2> SUFFICES ASSUME NEW x \in w.violations
               PROVE  /\ x.line <= n + 1
                      /\ ~shared /\ x.reason = "tampered" =>
                           x.line > 1 /\ logFile[x.line - 1] = Garbage
    BY DEF ViolationsTo
  <2>1. CASE x \in v.violations
    <3>1. x.line \in Nat
      BY <1>1, <2>1 DEF VerifierState, Violation
    <3> QED BY <2>1, <3>1 DEF VerdictInv, ViolationsTo
  <2>2. CASE x.line = n + 1 /\ (x.reason = "tampered" => e.prev # v.prev)
    <3>1. ~shared /\ x.reason = "tampered" => n + 1 > 1 /\ logFile[n] = Garbage
      BY <2>2, ForkBehindGarbage DEF VerdictInv
    <3>2. n + 1 - 1 = n /\ n + 1 <= n + 1
      OBVIOUS
    <3> QED BY <2>2, <3>1, <3>2
  <2> QED BY <2>1, <2>2, ReadLine
<1>5. ChainTo(n + 1)
  <2> SUFFICES ASSUME w.violations = {}
               PROVE  /\ w.expected = n + 1
                      /\ \A i \in 1..(n + 1) :
                           i \in Entries /\ logFile[i].seq = i
                           /\ logFile[i].prev = IF i = 1 THEN 0 ELSE logFile[i - 1].hash
    BY DEF ChainTo
  <2>1. v.violations = {} /\ e.seq = v.expected + 1 /\ e.prev = v.prev /\ w.expected = e.seq
    BY ReadLine
  <2>2. /\ v.expected = n
        /\ \A i \in 1..n : i \in Entries /\ logFile[i].seq = i
             /\ logFile[i].prev = IF i = 1 THEN 0 ELSE logFile[i - 1].hash
    BY <2>1 DEF VerdictInv, ChainTo
  <2>3. w.expected = n + 1 /\ e.seq = n + 1
    BY <2>1, <2>2
  <2>4. e.prev = IF n + 1 = 1 THEN 0 ELSE logFile[n + 1 - 1].hash
    <3>1. CASE n = 0
      <4>1. EntriesTo(n) = {}
        BY <3>1, EntriesTyped DEF EntriesTo
      <4> QED BY <2>1, <3>1, <4>1 DEF VerdictInv, CarriesHash
    <3>2. CASE n # 0
      <4>1. n \in 1..n /\ n + 1 # 1 /\ n + 1 - 1 = n
        BY <3>2
      <4>2. n \in EntriesTo(n)
        BY <2>2, <4>1 DEF EntriesTo
      <4>3. PICK j \in EntriesTo(n) : v.prev = logFile[j].hash /\ \A k \in EntriesTo(n) : k <= j
        BY <4>2 DEF VerdictInv, CarriesHash
      <4>4. j = n
        BY <4>2, <4>3, EntriesTyped DEF EntriesTo
      <4> QED BY <2>1, <4>1, <4>3, <4>4
    <3> QED BY <3>1, <3>2
  <2> QED
    <3> SUFFICES ASSUME NEW i \in 1..(n + 1)
                 PROVE  i \in Entries /\ logFile[i].seq = i
                        /\ logFile[i].prev = IF i = 1 THEN 0 ELSE logFile[i - 1].hash
      BY <2>3
    <3>1. CASE i = n + 1
      BY <2>3, <2>4, <3>1
    <3>2. CASE i # n + 1
      <4>1. i \in 1..n
        BY <3>2
      <4> QED BY <2>2, <4>1
    <3> QED BY <3>1, <3>2
<1>6. CountsTo(n + 1)
  <2> DEFINE E == EntriesTo(n)
             T == TamperedIn(v)
  <2>1. IsFiniteSet(E) /\ IsFiniteSet(T) /\ v.valid = Cardinality(E) - Cardinality(T)
    BY DEF VerdictInv, CountsTo
  <2>2. IsFiniteSet(E \union {n + 1}) /\ Cardinality(E \union {n + 1}) = Cardinality(E) + 1
    BY <1>2, <2>1, FS_AddElement
  <2>3. b \notin T
    <3>1. \A x \in T : x.line <= n
      BY DEF VerdictInv, ViolationsTo, TamperedIn
    <3>2. b.line = n + 1 /\ ~ (n + 1 <= n)
      OBVIOUS
    <3> HIDE DEF b, T
    <3> QED BY <3>1, <3>2
  <2>4. IsFiniteSet(T \union {b}) /\ Cardinality(T \union {b}) = Cardinality(T) + 1
    BY <2>1, <2>3, FS_AddElement
  <2>5. Cardinality(E) \in Nat /\ Cardinality(T) \in Nat
    BY <2>1, FS_CardinalityType
  <2>6. \/ w.valid = v.valid + 1 /\ TamperedIn(w) = T
        \/ w.valid = v.valid /\ TamperedIn(w) = T \union {b}
    BY ReadLine
  <2> HIDE DEF E, T, b
  <2>7. IsFiniteSet(TamperedIn(w))
        /\ w.valid = Cardinality(E \union {n + 1}) - Cardinality(TamperedIn(w))
    <3>1. CASE w.valid = v.valid + 1 /\ TamperedIn(w) = T
      BY <2>1, <2>2, <2>5, <3>1
    <3>2. CASE w.valid = v.valid /\ TamperedIn(w) = T \union {b}
      BY <2>1, <2>2, <2>4, <2>5, <3>2
    <3> QED BY <2>6, <3>1, <3>2
  <2>8. IsFiniteSet(E \union {n + 1}) /\ EntriesTo(n + 1) = E \union {n + 1}
    BY <1>2, <2>2 DEF E
  <2> QED BY <2>7, <2>8 DEF CountsTo
<1> QED BY <1>3, <1>4, <1>5, <1>6 DEF VerdictInv

\* The verdict is right in every state of the audit log.
LEMMA VerdictHolds == AuditInv => AuditChain
<1> SUFFICES ASSUME AuditInv PROVE AuditChain
  OBVIOUS
<1>1. AuditTypeOK /\ OneChain
  BY DEF AuditInv
<1> DEFINE N == Len(logFile) + (IF tail = "torn" THEN 1 ELSE 0)
           S == {n \in Nat : VerdictInv(n)}
<1>2. 0 \in S
  BY <1>1, VerdictBegins
<1>3. ASSUME NEW n \in Nat, n \in S PROVE n + 1 \in S
  <2>1. VerdictInv(n) /\ n + 1 \in Nat
    BY <1>3
  <2>2. CASE n + 1 \in Entries
    BY <1>1, <2>1, <2>2, EntryLine
  <2>3. CASE n + 1 \notin Entries
    BY <1>1, <2>1, <2>3, UnreadLine
  <2> QED BY <2>2, <2>3
<1>4. Nat \subseteq S
  <2> HIDE DEF S
  <2> QED BY <1>2, <1>3, SetInduction
<1>5. Len(logFile) \in Nat /\ N \in Nat /\ (tail = "torn" => N = Len(logFile) + 1)
      /\ (tail # "torn" => N = Len(logFile))
  BY <1>1, EntriesTyped
<1>6. VerdictInv(N) /\ VerifyLog = Verdict[N]
  BY <1>4, <1>5 DEF VerifyLog
<1>7. \A i \in Entries : i <= N /\ i \in 1..Len(logFile)
  BY <1>1, <1>5, EntriesTyped
<1> HIDE DEF N
<1>8. ASSUME VerifyLog.violations = {}
      PROVE  tail # "torn" /\ \A i \in DOMAIN logFile :
               /\ logFile[i].seq = i
               /\ logFile[i].prev = IF i = 1 THEN 0 ELSE logFile[i - 1].hash
  <2>1. \A i \in 1..N : i \in Entries /\ logFile[i].seq = i
          /\ logFile[i].prev = IF i = 1 THEN 0 ELSE logFile[i - 1].hash
    BY <1>6, <1>8 DEF VerdictInv, ChainTo
  <2>2. tail # "torn"
    <3> SUFFICES ASSUME tail = "torn" PROVE FALSE
      OBVIOUS
    <3>1. N \in 1..N /\ ~ (N \in 1..Len(logFile))
      BY <1>5
    <3> QED BY <1>7, <2>1, <3>1
  <2>3. DOMAIN logFile = 1..N
    BY <1>1, <1>5, <2>2 DEF AuditTypeOK
  <2> QED BY <2>1, <2>2, <2>3
<1>9. EntriesTo(N) = Entries
  BY <1>7 DEF EntriesTo
<1>10. VerifyLog.valid = Cardinality(Entries)
         - Cardinality({x \in VerifyLog.violations : x.reason = "tampered"})
  BY <1>6, <1>9 DEF VerdictInv, CountsTo, TamperedIn
<1>11. ~shared => \A x \in VerifyLog.violations :
         x.reason = "tampered" => x.line > 1 /\ logFile[x.line - 1] = Garbage
  BY <1>6 DEF VerdictInv, ViolationsTo
<1> QED BY <1>1, <1>8, <1>10, <1>11 DEF AuditChain, VerdictIsRight

\* With one process at a time the log is a chain through failed and torn writes, crashes and
\* restarts; and whatever the processes do, the verifier finds no violation in nothing but a
\* chain from the first line to the last, and says "tampered" of a lone process's log only
\* behind a line that cannot be read.
THEOREM LogIsJudged == AuditSpec => []AuditChain
  BY AuditStarts, AuditStep, VerdictHolds, PTL DEF AuditSpec

-----------------------------------------------------------------------------
(* The background processes *)

ToolPlaces == {"idle", "start", "spawn", "add", "stop", "kill", "unlist"}

ToolCall == [pc : ToolPlaces, name : ProcNames \cup {""}, pid : Pids \cup {0}]

ProcessTypes ==
  /\ procs \in [ProcNames -> Pids \cup {0}]
  /\ tool \in [Toolers -> ToolCall]
  /\ live \subseteq spawned /\ spawned \subseteq Pids /\ untracked \subseteq spawned

\* The table and the calls name processes that were started; a call that is to
\* strike a process off has killed it.
CallsInv ==
  /\ \A n \in ProcNames : procs[n] \in spawned \cup {0}
  /\ \A c \in Toolers :
       /\ tool[c].pc # "idle" => tool[c].name \in ProcNames
       /\ tool[c].pc \in {"add", "kill", "unlist"} => tool[c].pid \in spawned
       /\ tool[c].pc = "unlist" => tool[c].pid \notin live

ProcessInv == ProcessTypes /\ CallsInv /\ ProcessesTracked

\* The call's process has started.
SpawnOf(c, pid) ==
  /\ live' = live \cup {pid} /\ spawned' = spawned \cup {pid}
  /\ tool' = [tool EXCEPT ![c] = [pc |-> "add", name |-> @.name, pid |-> pid]]

LEMMA ProcessesBegin == ProcessInit => ProcessInv
<1> SUFFICES ASSUME ProcessInit PROVE ProcessInv
  OBVIOUS
<1>1. NoTool \in ToolCall
  BY DEF NoTool, ToolCall, ToolPlaces
<1>2. ProcessTypes
  BY <1>1 DEF ProcessInit, ProcessTypes
<1>3. CallsInv
  BY DEF ProcessInit, NoTool, CallsInv
<1>4. ProcessesTracked
  BY DEF ProcessInit, ProcessesTracked
<1> QED BY <1>2, <1>3, <1>4 DEF ProcessInv

LEMMA ProcessTypeStep == ProcessTypes /\ CallsInv /\ ProcessNext => ProcessTypes'
<1> SUFFICES ASSUME ProcessTypes, CallsInv, ProcessNext PROVE ProcessTypes'
  OBVIOUS
<1> USE DEF ProcessTypes, ToolCall, ToolPlaces, NoTool
<1>1. ASSUME NEW c \in Toolers, NEW op \in {"start", "stop"}, NEW n \in ProcNames,
             CallTool(c, op, n)
      PROVE  ProcessTypes'
  BY <1>1 DEF CallTool
<1>2. ASSUME NEW c \in Toolers, StartLooks(c) PROVE ProcessTypes'
  BY <1>2 DEF StartLooks, Probe
<1>3. ASSUME NEW c \in Toolers, Spawn(c) PROVE ProcessTypes'
  <2>1. CASE tool' = [tool EXCEPT ![c] = NoTool] /\ UNCHANGED <<live, spawned>>
    BY <1>3, <2>1 DEF Spawn
  <2>2. ASSUME NEW pid \in Pids \ spawned, SpawnOf(c, pid) PROVE ProcessTypes'
    BY <1>3, <2>2 DEF Spawn, SpawnOf
  <2> QED BY <1>3, <2>1, <2>2 DEF Spawn, SpawnOf
<1>4. ASSUME NEW c \in Toolers, Add(c) PROVE ProcessTypes'
  BY <1>4 DEF Add, CallsInv
<1>5. ASSUME NEW c \in Toolers, StopLooks(c) PROVE ProcessTypes'
  BY <1>5 DEF StopLooks, CallsInv
<1>6. ASSUME NEW c \in Toolers, Kill(c) PROVE ProcessTypes'
  BY <1>6 DEF Kill
<1>7. ASSUME NEW c \in Toolers, Unlist(c) PROVE ProcessTypes'
  BY <1>7 DEF Unlist, CallsInv
<1>8. ASSUME NEW pid \in Pids, ProcessEnds(pid) PROVE ProcessTypes'
  BY <1>8 DEF ProcessEnds
<1>9. CASE DaemonRestarts
  BY <1>9 DEF DaemonRestarts, Probe
<1> HIDE DEF ProcessTypes
<1> QED BY <1>1, <1>2, <1>3, <1>4, <1>5, <1>6, <1>7, <1>8, <1>9 DEF ProcessNext

LEMMA CallsStep == ProcessTypes /\ CallsInv /\ ProcessNext => CallsInv'
<1> SUFFICES ASSUME ProcessTypes, CallsInv, ProcessNext PROVE CallsInv'
  OBVIOUS
<1> USE ProcessConfig DEF ProcessTypes, ToolCall, ToolPlaces, NoTool, CallsInv
<1>1. ASSUME NEW c \in Toolers, NEW op \in {"start", "stop"}, NEW n \in ProcNames,
             CallTool(c, op, n)
      PROVE  CallsInv'
  BY <1>1 DEF CallTool
<1>2. ASSUME NEW c \in Toolers, StartLooks(c) PROVE CallsInv'
  BY <1>2 DEF StartLooks, Probe
<1>3. ASSUME NEW c \in Toolers, Spawn(c) PROVE CallsInv'
  <2>1. CASE tool' = [tool EXCEPT ![c] = NoTool] /\ UNCHANGED <<live, spawned>>
    BY <1>3, <2>1 DEF Spawn
  <2>2. ASSUME NEW pid \in Pids \ spawned, SpawnOf(c, pid) PROVE CallsInv'
    BY <1>3, <2>2 DEF Spawn, SpawnOf
  <2> QED BY <1>3, <2>1, <2>2 DEF Spawn, SpawnOf
<1>4. ASSUME NEW c \in Toolers, Add(c) PROVE CallsInv'
  BY <1>4 DEF Add
<1>5. ASSUME NEW c \in Toolers, StopLooks(c) PROVE CallsInv'
  BY <1>5 DEF StopLooks
<1>6. ASSUME NEW c \in Toolers, Kill(c) PROVE CallsInv'
  BY <1>6 DEF Kill
<1>7. ASSUME NEW c \in Toolers, Unlist(c) PROVE CallsInv'
  BY <1>7 DEF Unlist
<1>8. ASSUME NEW pid \in Pids, ProcessEnds(pid) PROVE CallsInv'
  BY <1>8 DEF ProcessEnds
<1>9. CASE DaemonRestarts
  BY <1>9 DEF DaemonRestarts, Probe
<1> HIDE DEF CallsInv
<1> QED BY <1>1, <1>2, <1>3, <1>4, <1>5, <1>6, <1>7, <1>8, <1>9 DEF ProcessNext

\* A call that is nowhere near the registration of a process goes on.
LEMMA CallGoesOn ==
  ASSUME ProcessInv, NEW c \in Toolers, tool[c].pc # "add", NEW v,
         tool' = [tool EXCEPT ![c] = v], UNCHANGED <<procs, untracked>>, live' \subseteq live
  PROVE  ProcessesTracked'
<1>1. \A d \in Toolers : tool[d].pc = "add" => tool'[d] = tool[d]
  BY DEF ProcessInv, ProcessTypes
<1> QED BY <1>1 DEF ProcessInv, ProcessesTracked, Tracked

LEMMA TrackedStep == ProcessInv /\ ProcessNext => ProcessesTracked'
<1> SUFFICES ASSUME ProcessInv, ProcessNext PROVE ProcessesTracked'
  OBVIOUS
<1>0. 0 \notin live /\ tool \in [Toolers -> ToolCall] /\ procs \in [ProcNames -> Pids \cup {0}]
  BY ProcessConfig DEF ProcessInv, ProcessTypes
<1>1. ASSUME NEW c \in Toolers, NEW op \in {"start", "stop"}, NEW n \in ProcNames,
             CallTool(c, op, n)
      PROVE  ProcessesTracked'
  BY <1>1, CallGoesOn DEF CallTool
<1>2. ASSUME NEW c \in Toolers, StartLooks(c) PROVE ProcessesTracked'
  BY <1>2, CallGoesOn DEF StartLooks
<1>3. ASSUME NEW c \in Toolers, Spawn(c) PROVE ProcessesTracked'
  <2>1. CASE tool' = [tool EXCEPT ![c] = NoTool] /\ UNCHANGED <<live, spawned>>
    BY <1>3, <2>1, CallGoesOn DEF Spawn
  <2>2. ASSUME NEW pid \in Pids \ spawned, SpawnOf(c, pid) PROVE ProcessesTracked'
    <3>1. tool[c].pc = "spawn" /\ procs' = procs /\ untracked' = untracked
      BY <1>3 DEF Spawn
    <3>2. tool'[c] = [pc |-> "add", name |-> tool[c].name, pid |-> pid]
      BY <1>0, <2>2 DEF SpawnOf
    <3>3. \A d \in Toolers : tool[d].pc = "add" => tool'[d] = tool[d]
      BY <1>0, <2>2, <3>1 DEF SpawnOf
    <3>4. Tracked(pid)'
      BY <3>2 DEF Tracked
    <3>5. \A q \in live \ untracked : Tracked(q)'
      BY <3>1, <3>3 DEF Tracked, ProcessInv, ProcessesTracked
    <3> QED BY <2>2, <3>1, <3>4, <3>5 DEF SpawnOf, ProcessesTracked
  <2> QED BY <1>3, <2>1, <2>2 DEF Spawn, SpawnOf
<1>4. ASSUME NEW c \in Toolers, Add(c) PROVE ProcessesTracked'
  <2>1. tool[c].name \in ProcNames
    BY <1>4 DEF Add, ProcessInv, CallsInv
  <2>2. procs'[tool[c].name] = tool[c].pid
    BY <1>0, <1>4, <2>1 DEF Add
  <2>3. \A m \in ProcNames \ {tool[c].name} : procs'[m] = procs[m]
    BY <1>0, <1>4 DEF Add
  <2>4. \A d \in Toolers \ {c} : tool'[d] = tool[d]
    BY <1>0, <1>4 DEF Add
  <2>5. /\ live' = live
        /\ untracked' = untracked \cup ({procs[tool[c].name]} \ {0})
    BY <1>4 DEF Add
  <2>6. \A q \in live \ untracked : q # procs[tool[c].name] => Tracked(q)'
    BY <2>1, <2>2, <2>3, <2>4 DEF Tracked, ProcessInv, ProcessesTracked
  <2> QED BY <1>0, <2>5, <2>6 DEF ProcessesTracked
<1>5. ASSUME NEW c \in Toolers, StopLooks(c) PROVE ProcessesTracked'
  BY <1>5, CallGoesOn DEF StopLooks
<1>6. ASSUME NEW c \in Toolers, Kill(c) PROVE ProcessesTracked'
  <2>1. tool' = [tool EXCEPT ![c] = [tool[c] EXCEPT !.pc = "unlist"]]
    BY <1>0, <1>6 DEF Kill
  <2> QED BY <1>6, <2>1, CallGoesOn DEF Kill
<1>7. ASSUME NEW c \in Toolers, Unlist(c) PROVE ProcessesTracked'
  <2>1. tool[c].pid \notin live /\ tool[c].pc # "add"
    BY <1>7 DEF Unlist, ProcessInv, CallsInv
  <2>2. \A m \in ProcNames \ {tool[c].name} : procs'[m] = procs[m]
    BY <1>0, <1>7 DEF Unlist
  <2>3. \A d \in Toolers \ {c} : tool'[d] = tool[d]
    BY <1>0, <1>7 DEF Unlist
  <2>4. /\ live' = live
        /\ untracked' = untracked \cup ({procs[tool[c].name]} \ {0, tool[c].pid})
    BY <1>7 DEF Unlist
  <2>5. \A q \in live \ untracked : q # procs[tool[c].name] => Tracked(q)'
    BY <2>1, <2>2, <2>3 DEF Tracked, ProcessInv, ProcessesTracked
  <2> QED BY <1>0, <2>1, <2>4, <2>5 DEF ProcessesTracked
<1>8. ASSUME NEW pid \in Pids, ProcessEnds(pid) PROVE ProcessesTracked'
  BY <1>8 DEF ProcessEnds, ProcessInv, ProcessesTracked, Tracked
<1>9. CASE DaemonRestarts
  BY <1>9 DEF DaemonRestarts, ProcessesTracked
<1> QED BY <1>1, <1>2, <1>3, <1>4, <1>5, <1>6, <1>7, <1>8, <1>9 DEF ProcessNext

LEMMA ProcessStep == ProcessInv /\ [ProcessNext]_processVars => ProcessInv'
<1>1. ProcessInv /\ ProcessNext => ProcessInv'
  BY ProcessTypeStep, CallsStep, TrackedStep DEF ProcessInv
<1>2. ProcessInv /\ UNCHANGED processVars => ProcessInv'
  BY DEF ProcessInv, ProcessTypes, CallsInv, ProcessesTracked, Tracked, processVars
<1> QED BY <1>1, <1>2

-----------------------------------------------------------------------------
(* The sub-agents *)

ChangePlaces == {"idle", "create", "register", "deregister", "delete"}

Change == [pc : ChangePlaces, id : AgentIds \cup {""}, base : SUBSET AgentIds]

AgentTypes ==
  /\ change \in [Programs -> Change]
  /\ created \subseteq AgentIds
  /\ registry.agents \subseteq created /\ known \subseteq created /\ lost \subseteq created
  /\ working \subseteq created /\ workspaces \subseteq created /\ pulled \subseteq created

\* What p is still to register, q does not know of.
StrangerTo(q, p) ==
  change[q].pc = "idle" \/ change[p].id \notin change[q].base \cup {change[q].id}

\* A sub-agent that is being created has its workspace, and is of nobody's concern yet; one
\* whose workspace is to be deleted is out of the registry.
ChangesInv ==
  \A p \in Programs :
    /\ change[p].base \subseteq created
    /\ change[p].pc # "idle" => change[p].id \in created
    /\ change[p].pc \in {"create", "register"} =>
         /\ change[p].id \in workspaces \ (registry.agents \cup known \cup working)
         /\ \A q \in Programs \ {p} : StrangerTo(q, p)
    /\ change[p].pc = "delete" => change[p].id \notin registry.agents \ lost

\* AgentsKept, of a registry that cannot be read, too.
KeptInv ==
  /\ registry.agents \ lost = known \ lost
  /\ (registry.agents \ lost) \cup (working \ (pulled \cup lost)) \subseteq workspaces

AgentsInv == AgentTypes /\ ChangesInv /\ KeptInv

LEMMA AgentsBegin == AgentsInit => AgentsInv
<1> SUFFICES ASSUME AgentsInit PROVE AgentsInv
  OBVIOUS
<1>1. NoChange \in Change
  BY DEF NoChange, Change, ChangePlaces
<1>2. AgentTypes
  BY <1>1 DEF AgentsInit, AgentTypes
<1>3. ChangesInv
  BY DEF AgentsInit, NoChange, ChangesInv
<1>4. KeptInv
  BY DEF AgentsInit, KeptInv
<1> QED BY <1>2, <1>3, <1>4 DEF AgentsInv

LEMMA AgentTypesStep == AgentTypes /\ ChangesInv /\ AgentsNext => AgentTypes'
<1> SUFFICES ASSUME AgentTypes, ChangesInv, AgentsNext PROVE AgentTypes'
  OBVIOUS
<1> USE DEF AgentTypes
<1>0. NoChange \in Change
  BY DEF NoChange, Change, ChangePlaces
<1>1. ASSUME NEW p \in Programs, CreateMakesWorkspace(p) PROVE AgentTypes'
  <2>1. PICK id \in AgentIds \ created :
          /\ created' = created \cup {id}
          /\ \/ /\ workspaces' = workspaces \cup {id}
                /\ change' = [change EXCEPT ![p] = [pc |-> "create", id |-> id, base |-> {}]]
             \/ UNCHANGED <<workspaces, change>>
    BY <1>1 DEF CreateMakesWorkspace
  <2>2. [pc |-> "create", id |-> id, base |-> {}] \in Change
    BY DEF Change, ChangePlaces
  <2> QED BY <1>1, <2>1, <2>2 DEF CreateMakesWorkspace
<1>2. ASSUME NEW p \in Programs, CreateLoads(p) PROVE AgentTypes'
  <2>1. [pc |-> "register", id |-> change[p].id,
         base |-> IF registry.readable THEN registry.agents ELSE {}] \in Change
    BY DEF Change, ChangePlaces
  <2> QED BY <1>2, <2>1 DEF CreateLoads
<1>3. ASSUME NEW p \in Programs, RemoveLoads(p) PROVE AgentTypes'
  <2>1. \A id \in registry.agents :
          [pc |-> "deregister", id |-> id, base |-> registry.agents] \in Change
    BY DEF Change, ChangePlaces
  <2> QED BY <1>3, <2>1 DEF RemoveLoads
<1>4. ASSUME NEW p \in Programs, Register(p) PROVE AgentTypes'
  <2>1. [change[p] EXCEPT !.pc = "delete"] \in Change
    BY DEF Change, ChangePlaces
  <2>2. change' \in [Programs -> Change]
    BY <1>0, <1>4, <2>1 DEF Register
  <2>3. change[p].base \subseteq created /\ change[p].id \in created
    BY <1>4 DEF Register, Goes, ChangesInv
  <2>4. registry'.agents \subseteq created /\ known' \subseteq created /\ lost' \subseteq created
    BY <1>4, <2>3 DEF Register, Readable
  <2> QED BY <1>4, <2>2, <2>4 DEF Register
<1>5. ASSUME NEW p \in Programs, RegisterFails(p) PROVE AgentTypes'
  BY <1>0, <1>5 DEF RegisterFails
<1>6. ASSUME NEW p \in Programs, DeleteWorkspace(p) PROVE AgentTypes'
  BY <1>0, <1>6 DEF DeleteWorkspace
<1>7. ASSUME NEW p \in Programs, ProgramEnds(p) PROVE AgentTypes'
  BY <1>0, <1>7 DEF ProgramEnds
<1>8. ASSUME NEW id \in AgentIds, TaskBegins(id) \/ TaskEnds(id) PROVE AgentTypes'
  BY <1>8 DEF TaskBegins, TaskEnds
<1> HIDE DEF AgentTypes
<1> QED BY <1>1, <1>2, <1>3, <1>4, <1>5, <1>6, <1>7, <1>8 DEF AgentsNext

\* A step of p that ends its change, takes it on with the same sub-agent, or starts one with
\* a sub-agent of the registry.
LEMMA ChangeGoesOn ==
  ASSUME AgentTypes, ChangesInv, NEW p \in Programs, NEW v, change' = [change EXCEPT ![p] = v],
         v.base \subseteq created, created' = created,
         \/ v.pc = "idle"
         \/ v.pc # "idle" /\ change[p].pc # "idle" /\ v.id = change[p].id
         \/ v.pc # "idle" /\ v.id \in registry.agents,
         v.pc \in {"create", "register"} =>
           /\ change[p].pc \in {"create", "register"} /\ v.id = change[p].id
           /\ v.id \in workspaces' \ (registry'.agents \cup known' \cup working'),
         v.pc = "delete" => v.id \notin registry'.agents \ lost',
         \/ v.pc = "idle" \/ v.base = registry.agents \/ v.base = {}
         \/ change[p].pc # "idle" /\ v.base = change[p].base,
         \A q \in Programs \ {p} :
           /\ change[q].pc \in {"create", "register"} =>
                change[q].id \in workspaces' \ (registry'.agents \cup known' \cup working')
           /\ change[q].pc = "delete" => change[q].id \notin registry'.agents \ lost'
  PROVE  ChangesInv'
<1>1. change'[p] = v /\ \A q \in Programs \ {p} : change'[q] = change[q]
  BY DEF AgentTypes
<1>2. ASSUME NEW q \in Programs, NEW r \in Programs \ {q},
             change'[q].pc \in {"create", "register"}
      PROVE  StrangerTo(r, q)'
  <2>1. StrangerTo(r, q)
    BY <1>1, <1>2 DEF ChangesInv
  <2>2. change[q].pc \in {"create", "register"}
    BY <1>1, <1>2
  <2>3. change[q].id \notin registry.agents
    BY <2>2 DEF ChangesInv
  <2>4. change'[q].id = change[q].id
    BY <1>1, <1>2
  <2>5. CASE r = p
    BY <1>1, <2>1, <2>3, <2>4, <2>5 DEF StrangerTo
  <2>6. CASE r # p
    BY <1>1, <2>1, <2>4, <2>6 DEF StrangerTo
  <2> QED BY <2>5, <2>6
<1>3. v.pc # "idle" => v.id \in created
  BY DEF ChangesInv, AgentTypes
<1>4. ASSUME NEW q \in Programs
      PROVE  /\ change'[q].base \subseteq created'
             /\ change'[q].pc # "idle" => change'[q].id \in created'
             /\ change'[q].pc = "delete" => change'[q].id \notin registry'.agents \ lost'
             /\ change'[q].pc \in {"create", "register"} =>
                  change'[q].id \in workspaces' \ (registry'.agents \cup known' \cup working')
  BY <1>1, <1>3 DEF ChangesInv
<1> QED BY <1>2, <1>4 DEF ChangesInv

LEMMA ChangesStep == AgentTypes /\ ChangesInv /\ AgentsNext => ChangesInv'
<1> SUFFICES ASSUME AgentTypes, ChangesInv, AgentsNext PROVE ChangesInv'
  OBVIOUS
<1>0. /\ NoChange.pc = "idle" /\ NoChange.base = {}
      /\ \A p \in Programs : change[p] \in Change /\ change[p].base \subseteq created
      /\ registry.agents \subseteq created
  BY DEF NoChange, AgentTypes, ChangesInv
<1>1. ASSUME NEW p \in Programs, CreateMakesWorkspace(p) PROVE ChangesInv'
  <2>1. PICK id \in AgentIds \ created :
          /\ created' = created \cup {id}
          /\ \/ /\ workspaces' = workspaces \cup {id}
                /\ change' = [change EXCEPT ![p] = [pc |-> "create", id |-> id, base |-> {}]]
             \/ UNCHANGED <<workspaces, change>>
    BY <1>1 DEF CreateMakesWorkspace
  <2>2. UNCHANGED <<registry, working, pulled, known, lost>>
    BY <1>1 DEF CreateMakesWorkspace
  <2>3. CASE UNCHANGED <<workspaces, change>>
    BY <2>1, <2>2, <2>3 DEF ChangesInv, StrangerTo
  <2>4. CASE /\ workspaces' = workspaces \cup {id}
             /\ change' = [change EXCEPT ![p] = [pc |-> "create", id |-> id, base |-> {}]]
    <3>1. /\ change'[p] = [pc |-> "create", id |-> id, base |-> {}]
          /\ \A q \in Programs \ {p} : change'[q] = change[q]
      BY <2>4 DEF AgentTypes
    <3>2. id \notin registry.agents \cup known \cup working
      BY DEF AgentTypes
    <3>3. ASSUME NEW q \in Programs, NEW r \in Programs \ {q},
                 change'[q].pc \in {"create", "register"}
          PROVE  StrangerTo(r, q)'
      BY <3>1, <3>3 DEF StrangerTo, ChangesInv
    <3>4. ASSUME NEW q \in Programs
          PROVE  /\ change'[q].base \subseteq created'
                 /\ change'[q].pc # "idle" => change'[q].id \in created'
                 /\ change'[q].pc = "delete" => change'[q].id \notin registry'.agents \ lost'
                 /\ change'[q].pc \in {"create", "register"} =>
                      change'[q].id \in workspaces' \ (registry'.agents \cup known' \cup working')
      BY <2>1, <2>2, <2>4, <3>1, <3>2 DEF ChangesInv
    <3> QED BY <3>3, <3>4 DEF ChangesInv
  <2> QED BY <2>1, <2>3, <2>4
<1>2. ASSUME NEW p \in Programs, CreateLoads(p) PROVE ChangesInv'
  <2> DEFINE v == [pc |-> "register", id |-> change[p].id,
                   base |-> IF registry.readable THEN registry.agents ELSE {}]
  <2>1. change' = [change EXCEPT ![p] = v] /\ change[p].pc = "create"
    BY <1>2 DEF CreateLoads, Goes
  <2>2. v.pc = "register" /\ v.id = change[p].id /\ v.base \in {registry.agents, {}}
    OBVIOUS
  <2>3. UNCHANGED <<registry, workspaces, working, pulled, created, known, lost>>
    BY <1>2 DEF CreateLoads
  <2> HIDE DEF v
  <2> QED BY <1>0, <2>1, <2>2, <2>3, ChangeGoesOn DEF ChangesInv
<1>3. ASSUME NEW p \in Programs, RemoveLoads(p) PROVE ChangesInv'
  <2>1. PICK id \in registry.agents :
          change' = [change EXCEPT
                       ![p] = [pc |-> "deregister", id |-> id, base |-> registry.agents]]
    BY <1>3 DEF RemoveLoads
  <2> DEFINE v == [pc |-> "deregister", id |-> id, base |-> registry.agents]
  <2>2. v.pc = "deregister" /\ v.id = id /\ v.base = registry.agents
    OBVIOUS
  <2>3. UNCHANGED <<registry, workspaces, working, pulled, created, known, lost>>
    BY <1>3 DEF RemoveLoads
  <2>4. change' = [change EXCEPT ![p] = v]
    BY <2>1
  <2> HIDE DEF v
  <2> QED BY <1>0, <2>2, <2>3, <2>4, ChangeGoesOn DEF ChangesInv
<1>4. ASSUME NEW p \in Programs, Register(p) PROVE ChangesInv'
  <2> DEFINE base == change[p].base  id == change[p].id
  <2>1. /\ change[p].pc \in {"register", "deregister"}
        /\ registry'.agents = IF change[p].pc = "register" THEN base \cup {id} ELSE base \ {id}
        /\ lost' = lost \cup (base \ registry.agents) \cup (registry.agents \ base)
        /\ known' = IF change[p].pc = "register" THEN known \cup {id} ELSE known \ {id}
        /\ UNCHANGED <<workspaces, working, pulled, created>>
    BY <1>4 DEF Register, Goes, Readable
  <2>2. ASSUME NEW q \in Programs \ {p}
        PROVE  /\ change[q].pc \in {"create", "register"} =>
                    change[q].id \in workspaces' \ (registry'.agents \cup known' \cup working')
               /\ change[q].pc = "delete" => change[q].id \notin registry'.agents \ lost'
    BY <2>1 DEF ChangesInv, StrangerTo
  <2>3. CASE change' = [change EXCEPT ![p] = NoChange]
    BY <1>0, <2>1, <2>2, <2>3, ChangeGoesOn
  <2>4. CASE /\ change[p].pc = "deregister"
             /\ change' = [change EXCEPT ![p].pc = "delete"]
    <3> DEFINE v == [change[p] EXCEPT !.pc = "delete"]
    <3>1. v.pc = "delete" /\ v.id = id /\ v.base = base
      BY <1>0 DEF Change
    <3>2. change' = [change EXCEPT ![p] = v]
      BY <2>4
    <3>3. v.id \notin registry'.agents
      BY <2>1, <2>4, <3>1
    <3> HIDE DEF v
    <3> QED BY <1>0, <2>1, <2>2, <2>4, <3>1, <3>2, <3>3, ChangeGoesOn
  <2> QED BY <1>4, <2>3, <2>4 DEF Register, Goes
<1>5. ASSUME NEW p \in Programs, RegisterFails(p) PROVE ChangesInv'
  <2>1. /\ UNCHANGED <<workspaces, working, pulled, created, known>>
        /\ change' = [change EXCEPT ![p] = NoChange]
        /\ \/ UNCHANGED <<registry, lost>>
           \/ registry'.agents = {}
    BY <1>5 DEF RegisterFails
  <2> QED BY <1>0, <2>1, ChangeGoesOn DEF ChangesInv
<1>6. ASSUME NEW p \in Programs, DeleteWorkspace(p) PROVE ChangesInv'
  <2>1. /\ UNCHANGED <<registry, working, created, known, lost>>
        /\ change' = [change EXCEPT ![p] = NoChange] /\ change[p].pc = "delete"
        /\ workspaces' = workspaces \ {change[p].id}
    BY <1>6 DEF DeleteWorkspace, Goes
  <2>2. ASSUME NEW q \in Programs \ {p}, change[q].pc \in {"create", "register"}
        PROVE  change[q].id # change[p].id
    BY <2>1, <2>2 DEF ChangesInv, StrangerTo
  <2>3. ASSUME NEW q \in Programs \ {p}
        PROVE  /\ change[q].pc \in {"create", "register"} =>
                    change[q].id \in workspaces' \ (registry'.agents \cup known' \cup working')
               /\ change[q].pc = "delete" => change[q].id \notin registry'.agents \ lost'
    BY <2>1, <2>2 DEF ChangesInv
  <2> QED BY <1>0, <2>1, <2>3, ChangeGoesOn
<1>7. ASSUME NEW p \in Programs, ProgramEnds(p) PROVE ChangesInv'
  <2>1. /\ UNCHANGED <<registry, workspaces, working, pulled, created, known, lost>>
        /\ change' = [change EXCEPT ![p] = NoChange]
    BY <1>7 DEF ProgramEnds
  <2> QED BY <1>0, <2>1, ChangeGoesOn DEF ChangesInv
<1>8. ASSUME NEW id \in AgentIds, TaskBegins(id) \/ TaskEnds(id) PROVE ChangesInv'
  <2>1. /\ UNCHANGED <<registry, workspaces, change, created, known, lost>>
        /\ working' \subseteq working \cup registry.agents
    BY <1>8 DEF TaskBegins, TaskEnds
  <2> QED BY <2>1 DEF ChangesInv, StrangerTo
<1> QED BY <1>1, <1>2, <1>3, <1>4, <1>5, <1>6, <1>7, <1>8 DEF AgentsNext

LEMMA KeptStep == AgentsInv /\ AgentsNext => KeptInv'
<1> SUFFICES ASSUME AgentsInv, AgentsNext PROVE KeptInv'
  OBVIOUS
<1> USE DEF AgentsInv
<1>1. ASSUME NEW p \in Programs, CreateMakesWorkspace(p) PROVE KeptInv'
  BY <1>1 DEF CreateMakesWorkspace, KeptInv
<1>2. ASSUME NEW p \in Programs, CreateLoads(p) PROVE KeptInv'
  BY <1>2 DEF CreateLoads, KeptInv
<1>3. ASSUME NEW p \in Programs, RemoveLoads(p) PROVE KeptInv'
  BY <1>3 DEF RemoveLoads, KeptInv
<1>4. ASSUME NEW p \in Programs, Register(p) PROVE KeptInv'
  <2> DEFINE base == change[p].base  id == change[p].id
  <2>1. /\ change[p].pc \in {"register", "deregister"}
        /\ registry'.agents = IF change[p].pc = "register" THEN base \cup {id} ELSE base \ {id}
        /\ lost' = lost \cup (base \ registry.agents) \cup (registry.agents \ base)
        /\ known' = IF change[p].pc = "register" THEN known \cup {id} ELSE known \ {id}
        /\ UNCHANGED <<workspaces, working, pulled, created>>
    BY <1>4 DEF Register, Goes, Readable
  <2>2. change[p].pc = "register" => id \in workspaces
    BY DEF ChangesInv
  <2> HIDE DEF base, id
  <2> QED BY <2>1, <2>2 DEF KeptInv
<1>5. ASSUME NEW p \in Programs, RegisterFails(p) PROVE KeptInv'
  <2>1. CASE registry' = [readable |-> FALSE, agents |-> {}] /\ lost' = created
    BY <1>5, <2>1 DEF RegisterFails, KeptInv, AgentTypes
  <2>2. CASE UNCHANGED <<registry, lost>>
    BY <1>5, <2>2 DEF RegisterFails, KeptInv
  <2> QED BY <1>5, <2>1, <2>2 DEF RegisterFails
<1>6. ASSUME NEW p \in Programs, DeleteWorkspace(p) PROVE KeptInv'
  BY <1>6 DEF DeleteWorkspace, Goes, KeptInv, ChangesInv
<1>7. ASSUME NEW p \in Programs, ProgramEnds(p) PROVE KeptInv'
  BY <1>7 DEF ProgramEnds, KeptInv
<1>8. ASSUME NEW id \in AgentIds, TaskBegins(id) \/ TaskEnds(id) PROVE KeptInv'
  BY <1>8 DEF TaskBegins, TaskEnds, KeptInv
<1> QED BY <1>1, <1>2, <1>3, <1>4, <1>5, <1>6, <1>7, <1>8 DEF AgentsNext

LEMMA AgentsStep == AgentsInv /\ [AgentsNext]_agentsVars => AgentsInv'
<1>1. AgentsInv /\ AgentsNext => AgentsInv'
  BY AgentTypesStep, ChangesStep, KeptStep DEF AgentsInv
<1>2. AgentsInv /\ UNCHANGED agentsVars => AgentsInv'
  BY DEF AgentsInv, AgentTypes, ChangesInv, StrangerTo, KeptInv, agentsVars
<1> QED BY <1>1, <1>2

-----------------------------------------------------------------------------
(* The daemon's life *)

Stacks == {<<>>, <<"app">>, <<"app", "engine">>, <<"app", "engine", "pid">>}

\* The deferred calls on the stack of runAgent.
HoldsPid(s)    == s.deferred = <<"app", "engine", "pid">>
HoldsEngine(s) == s.deferred = <<"app", "engine">> \/ HoldsPid(s)

Stages == {"new", "memory", "built", "wired", "checked", "serving", "stopping", "stopped",
           "waited", "leaving", "gone"}

DaemonState ==
  [stage : Stages, deferred : Stacks, services : SUBSET Origins, turns : SUBSET Origins,
   memory : BOOLEAN, signalled : BOOLEAN, err : {"nil", "failed", "killed"}]

LifeTypes ==
  /\ daemon \in [Daemons -> DaemonState]
  /\ pidFile \in Daemons \cup {NoPid} /\ port \in Daemons \cup {NoPid}
  /\ stopCmd \in Daemons \cup {NoPid} /\ hidden \subseteq Daemons

\* What is deferred goes with the place in the code; the memory is open until app.Close, and
\* no rule acts once the engine's Stop is over.
StackFits(s) ==
  /\ s.stage \in {"new", "memory", "gone"} => s.deferred = <<>>
  /\ s.stage = "built" => s.deferred = <<"app">>
  /\ s.stage \in {"wired", "checked"} => s.deferred = <<"app", "engine">>
  /\ s.stage \in {"serving", "stopping", "stopped", "waited"} => HoldsPid(s)
  /\ s.stage = "memory" \/ s.deferred # <<>> => s.memory = TRUE
  /\ "rule" \in s.services \cup s.turns => HoldsEngine(s)

StacksInv == \A d \in Daemons : StackFits(daemon[d])

\* Until its removal of the PID file a daemon that was not told to stop is in it; the file
\* names one that will remove it, or that was killed.
PidInv ==
  \A d \in Daemons :
    /\ HoldsPid(daemon[d]) /\ daemon[d].signalled = FALSE /\ d \notin hidden => pidFile = d
    /\ pidFile = d => \/ Up(d) /\ HoldsPid(daemon[d])
                      \/ daemon[d].stage = "gone" /\ daemon[d].err = "killed"

LifeInv == LifeTypes /\ StacksInv /\ PidInv

\* What the code defers, and in which order it is released.
LEMMA StackFacts ==
  /\ Append(<<"app">>, "engine") = <<"app", "engine">>
  /\ Append(<<"app", "engine">>, "pid") = <<"app", "engine", "pid">>
  /\ Last(<<"app">>) = "app" /\ Last(<<"app", "engine">>) = "engine"
  /\ Last(<<"app", "engine", "pid">>) = "pid"
  /\ Front(<<"app">>) = <<>> /\ Front(<<"app", "engine">>) = <<"app">>
  /\ Front(<<"app", "engine", "pid">>) = <<"app", "engine">>
<1> DEFINE S == {"app", "engine", "pid"}
<1>0. /\ <<>> \in Seq(S) /\ <<"app">> \in Seq(S) /\ <<"app", "engine">> \in Seq(S)
      /\ <<"app", "engine", "pid">> \in Seq(S)
  OBVIOUS
<1>1. Append(<<"app">>, "engine") = <<"app", "engine">>
  <2>1. /\ Append(<<"app">>, "engine") \in Seq(S)
        /\ Len(Append(<<"app">>, "engine")) = 2
        /\ Append(<<"app">>, "engine")[1] = "app" /\ Append(<<"app">>, "engine")[2] = "engine"
    BY <1>0, AppendProperties
  <2> DEFINE t == Append(<<"app">>, "engine")
  <2>2. Len(<<"app", "engine">>) = 2 /\ \A i \in 1..2 : i = 1 \/ i = 2
    OBVIOUS
  <2>3. \A i \in 1..Len(t) : t[i] = <<"app", "engine">>[i]
    BY <2>1, <2>2
  <2> HIDE DEF t, S
  <2> QED BY <1>0, <2>1, <2>2, <2>3, SeqEqual DEF t
<1>2. Append(<<"app", "engine">>, "pid") = <<"app", "engine", "pid">>
  <2>1. Append(<<"app", "engine">>, "pid") \in Seq(S) /\ Len(Append(<<"app", "engine">>, "pid")) = 3
    BY <1>0, AppendProperties
  <2>2. /\ Append(<<"app", "engine">>, "pid")[1] = "app"
        /\ Append(<<"app", "engine">>, "pid")[2] = "engine"
        /\ Append(<<"app", "engine">>, "pid")[3] = "pid"
    BY <1>0, AppendProperties
  <2>3. Len(<<"app", "engine", "pid">>) = 3 /\ \A i \in 1..3 : i = 1 \/ i = 2 \/ i = 3
    OBVIOUS
  <2> DEFINE t == Append(<<"app", "engine">>, "pid")
  <2>4. \A i \in 1..Len(t) : t[i] = <<"app", "engine", "pid">>[i]
    BY <2>1, <2>2, <2>3
  <2> HIDE DEF t, S
  <2> QED BY <1>0, <2>1, <2>3, <2>4, SeqEqual DEF t
<1>3. Last(<<"app">>) = "app"
  BY DEF Last
<1>4. Last(<<"app", "engine">>) = "engine"
  BY DEF Last
<1>5. Last(<<"app", "engine", "pid">>) = "pid"
  BY DEF Last
<1>6. Front(<<"app">>) = <<>>
  BY DEF Front
<1>7. Front(<<"app", "engine">>) = <<"app">>
  <2>1. Front(<<"app", "engine">>) = SubSeq(<<"app", "engine">>, 1, 1) BY DEF Front
  <2> QED BY <1>0, <2>1, SubSeqProperties, SeqEqual
<1>8. Front(<<"app", "engine", "pid">>) = <<"app", "engine">>
  <2>1. Front(<<"app", "engine", "pid">>) = SubSeq(<<"app", "engine", "pid">>, 1, 2) BY DEF Front
  <2> QED BY <1>0, <2>1, SubSeqProperties, SeqEqual
<1> QED BY <1>1, <1>2, <1>3, <1>4, <1>5, <1>6, <1>7, <1>8
LEMMA StacksDiffer ==
  /\ <<>> # <<"app">> /\ <<>> # <<"app", "engine">> /\ <<>> # <<"app", "engine", "pid">>
  /\ <<"app">> # <<"app", "engine">> /\ <<"app">> # <<"app", "engine", "pid">>
  /\ <<"app", "engine">> # <<"app", "engine", "pid">>
  OBVIOUS

LEMMA LifeBegins == LifeInit => LifeInv
<1> SUFFICES ASSUME LifeInit PROVE LifeInv
  OBVIOUS
<1>1. NotStarted \in DaemonState
  BY DEF NotStarted, DaemonState, Stages, Stacks
<1>2. StackFits(NotStarted) /\ ~HoldsPid(NotStarted)
  BY StacksDiffer DEF NotStarted, StackFits, HoldsPid
<1>3. LifeTypes
  BY <1>1 DEF LifeInit, LifeTypes
<1>4. StacksInv /\ PidInv
  BY <1>2, LifeConfig DEF LifeInit, StacksInv, PidInv
<1> QED BY <1>3, <1>4 DEF LifeInv

\* The state that a step leaves a daemon in.
State(stage, deferred, services, turns, memory, signalled, err) ==
  [stage |-> stage, deferred |-> deferred, services |-> services, turns |-> turns,
   memory |-> memory, signalled |-> signalled, err |-> err]

LEMMA StateType ==
  ASSUME NEW stage \in Stages, NEW deferred \in Stacks, NEW services, services \subseteq Origins,
         NEW turns, turns \subseteq Origins, NEW memory \in BOOLEAN, NEW signalled \in BOOLEAN,
         NEW err \in {"nil", "failed", "killed"}
  PROVE  State(stage, deferred, services, turns, memory, signalled, err) \in DaemonState
  BY DEF State, DaemonState

LEMMA StateFields ==
  \A q \in DaemonState :
    /\ q.stage \in Stages /\ q.deferred \in Stacks /\ q.services \subseteq Origins
    /\ q.turns \subseteq Origins /\ q.memory \in BOOLEAN /\ q.signalled \in BOOLEAN
    /\ q.err \in {"nil", "failed", "killed"}
  BY DEF DaemonState

\* A step of d that leaves the PID file alone.
LEMMA QuietStep ==
  ASSUME LifeInv, NEW d \in Daemons, NEW s \in DaemonState, daemon' = [daemon EXCEPT ![d] = s],
         UNCHANGED <<pidFile, stopCmd, hidden>>, port' \in {port, d, NoPid}, StackFits(s),
         HoldsPid(s) <=> HoldsPid(daemon[d]),
         \/ s.stage \notin {"new", "gone"} /\ daemon[d].stage # "gone"
         \/ s.stage = daemon[d].stage /\ s.err = daemon[d].err,
         s.signalled = daemon[d].signalled \/ s.signalled = TRUE
  PROVE  LifeInv'
<1>1. daemon'[d] = s /\ \A e \in Daemons \ {d} : daemon'[e] = daemon[e]
  BY DEF LifeInv, LifeTypes
<1>2. LifeTypes'
  BY DEF LifeInv, LifeTypes
<1>3. StacksInv'
  BY <1>1 DEF LifeInv, StacksInv
<1>4. ASSUME NEW e \in Daemons
      PROVE  /\ (/\ HoldsPid(daemon'[e]) /\ daemon'[e].signalled = FALSE
                 /\ e \notin hidden') => pidFile' = e
             /\ pidFile' = e => \/ Up(e)' /\ HoldsPid(daemon'[e])
                                \/ daemon'[e].stage = "gone" /\ daemon'[e].err = "killed"
  <2>1. CASE e = d
    BY <1>1, <2>1 DEF LifeInv, PidInv, Up
  <2>2. CASE e # d
    BY <1>1, <2>2 DEF LifeInv, PidInv, Up
  <2> QED BY <2>1, <2>2
<1> QED BY <1>2, <1>3, <1>4 DEF LifeInv, PidInv

\* The end of a process that is not in the PID file, or is killed.
LEMMA GoneStep ==
  ASSUME LifeInv, NEW d \in Daemons, NEW err \in {"nil", "failed", "killed"}, Gone(d, err),
         err = "killed" \/ pidFile # d
  PROVE  LifeInv'
<1> DEFINE s == State("gone", <<>>, {}, {}, FALSE, FALSE, err)
<1>1. daemon' = [daemon EXCEPT ![d] = s]
  <2>1. NotStarted = State("new", <<>>, {}, {}, FALSE, FALSE, "nil")
    BY DEF NotStarted, State
  <2>2. PICK r : r = [NotStarted EXCEPT !.stage = "gone", !.err = err]
    OBVIOUS
  <2>3. r = s
    BY <2>1, <2>2 DEF State
  <2> HIDE DEF s
  <2> QED BY <2>2, <2>3 DEF Gone
<1>2. s \in DaemonState
  BY StateType DEF Stages, Stacks
<1>3. StackFits(s) /\ ~HoldsPid(s) /\ s.stage = "gone" /\ s.err = err
  BY StacksDiffer DEF StackFits, HoldsPid, State
<1> HIDE DEF s
<1>4. daemon'[d] = s /\ \A e \in Daemons \ {d} : daemon'[e] = daemon[e]
  BY <1>1 DEF LifeInv, LifeTypes
<1>5. LifeTypes'
  BY <1>1, <1>2 DEF LifeInv, LifeTypes, Gone
<1>6. StacksInv'
  BY <1>3, <1>4 DEF LifeInv, StacksInv
<1>7. PidInv'
  BY <1>3, <1>4 DEF LifeInv, PidInv, Up, Gone
<1> QED BY <1>5, <1>6, <1>7 DEF LifeInv

\* What is left of a state when some of its fields are set.
LEMMA StateEdits ==
  ASSUME NEW q \in DaemonState, NEW x, NEW y, NEW z, NEW r
  PROVE
    /\ r = [q EXCEPT !.stage = x]
         => r = State(x, q.deferred, q.services, q.turns, q.memory, q.signalled, q.err)
    /\ r = [q EXCEPT !.services = x]
         => r = State(q.stage, q.deferred, x, q.turns, q.memory, q.signalled, q.err)
    /\ r = [q EXCEPT !.turns = x]
         => r = State(q.stage, q.deferred, q.services, x, q.memory, q.signalled, q.err)
    /\ r = [q EXCEPT !.deferred = x]
         => r = State(q.stage, x, q.services, q.turns, q.memory, q.signalled, q.err)
    /\ r = [q EXCEPT !.stage = x, !.deferred = y, !.services = z]
         => r = State(x, y, z, q.turns, q.memory, q.signalled, q.err)
    /\ r = [q EXCEPT !.stage = x, !.err = y]
         => r = State(x, q.deferred, q.services, q.turns, q.memory, q.signalled, y)
    /\ r = [q EXCEPT !.signalled = x, !.services = y]
         => r = State(q.stage, q.deferred, y, q.turns, q.memory, x, q.err)
    /\ r = [q EXCEPT !.stage = x, !.services = y]
         => r = State(x, q.deferred, y, q.turns, q.memory, q.signalled, q.err)
    /\ r = [q EXCEPT !.deferred = x, !.services = y, !.memory = z]
         => r = State(q.stage, x, y, q.turns, z, q.signalled, q.err)
    /\ r = [q EXCEPT !.stage = x, !.memory = y]
         => r = State(x, q.deferred, q.services, q.turns, y, q.signalled, q.err)
    /\ r = [q EXCEPT !.stage = x, !.deferred = y]
         => r = State(x, y, q.services, q.turns, q.memory, q.signalled, q.err)
<1>1. r = [q EXCEPT !.stage = x]
       => r = State(x, q.deferred, q.services, q.turns, q.memory, q.signalled, q.err)
  BY DEF DaemonState, State
<1>2. r = [q EXCEPT !.services = x]
       => r = State(q.stage, q.deferred, x, q.turns, q.memory, q.signalled, q.err)
  BY DEF DaemonState, State
<1>3. r = [q EXCEPT !.turns = x]
       => r = State(q.stage, q.deferred, q.services, x, q.memory, q.signalled, q.err)
  BY DEF DaemonState, State
<1>4. r = [q EXCEPT !.deferred = x]
       => r = State(q.stage, x, q.services, q.turns, q.memory, q.signalled, q.err)
  BY DEF DaemonState, State
<1>5. r = [q EXCEPT !.stage = x, !.deferred = y, !.services = z]
       => r = State(x, y, z, q.turns, q.memory, q.signalled, q.err)
  BY DEF DaemonState, State
<1>6. r = [q EXCEPT !.stage = x, !.err = y]
       => r = State(x, q.deferred, q.services, q.turns, q.memory, q.signalled, y)
  BY DEF DaemonState, State
<1>7. r = [q EXCEPT !.signalled = x, !.services = y]
       => r = State(q.stage, q.deferred, y, q.turns, q.memory, x, q.err)
  BY DEF DaemonState, State
<1>8. r = [q EXCEPT !.stage = x, !.services = y]
       => r = State(x, q.deferred, y, q.turns, q.memory, q.signalled, q.err)
  BY DEF DaemonState, State
<1>9. r = [q EXCEPT !.deferred = x, !.services = y, !.memory = z]
       => r = State(q.stage, x, y, q.turns, z, q.signalled, q.err)
  BY DEF DaemonState, State
<1>10. r = [q EXCEPT !.stage = x, !.memory = y]
       => r = State(x, q.deferred, q.services, q.turns, y, q.signalled, q.err)
  BY DEF DaemonState, State
<1>11. r = [q EXCEPT !.stage = x, !.deferred = y]
       => r = State(x, y, q.services, q.turns, q.memory, q.signalled, q.err)
  BY DEF DaemonState, State
<1> QED BY <1>1, <1>2, <1>3, <1>4, <1>5, <1>6, <1>7, <1>8, <1>9, <1>10, <1>11

\* The steps of d that leave the PID file alone.
LEMMA QuietActs ==
  ASSUME LifeInv, NEW d \in Daemons
  PROVE  \/ WireRunner(d) \/ EmailFails(d) \/ WireServices(d) \/ GatewayListens(d) \/ TurnEnds(d)
         \/ Signal(d) \/ StopChannels(d) \/ AwaitEngine(d) \/ WaitForInflight(d) \/ StopGateway(d)
         \/ CancelEngine(d) \/ EngineIsDown(d) \/ CloseApp(d) \/ MainPanics(d)
         => LifeInv'
<1>a. daemon \in [Daemons -> DaemonState]
  BY DEF LifeInv, LifeTypes
<1>0. PICK q \in DaemonState : q = daemon[d] /\ StackFits(q)
  BY DEF LifeInv, LifeTypes, StacksInv
<1>1. ASSUME WireRunner(d) PROVE LifeInv'
  <2> DEFINE s == State("built", <<"app">>,
                   {"cron"} \cap Origins,
                   q.turns, q.memory, q.signalled, q.err)
  <2>a. PICK r : r = [q EXCEPT !.stage = "built", !.deferred = <<"app">>,
                            !.services = {"cron"} \cap Origins]
    OBVIOUS
  <2>1. daemon' = [daemon EXCEPT ![d] = r]
    BY <1>a, <1>0, <1>1, <2>a DEF WireRunner
  <2>2. r = s
    BY <2>a DEF State, DaemonState
  <2>3. s \in DaemonState
    BY <1>0, <1>1, StackFacts, StacksDiffer, StateFields, StateType
    DEF Stages, Stacks, EndWithContext, WireRunner, Releasing, StackFits, HoldsPid
  <2>4. /\ StackFits(s) /\ (HoldsPid(s) <=> HoldsPid(q))
        /\ \/ s.stage \notin {"new", "gone"} /\ q.stage # "gone"
           \/ s.stage = q.stage /\ s.err = q.err
        /\ s.signalled = q.signalled \/ s.signalled = TRUE
    BY <1>0, <1>1, StackFacts, StacksDiffer, StateFields
    DEF WireRunner, State, StackFits, HoldsPid, HoldsEngine, Releasing, EndWithContext, Up, Stacks
  <2> HIDE DEF s
  <2>5. daemon' = [daemon EXCEPT ![d] = s]
    BY <2>1, <2>2
  <2>6. UNCHANGED <<pidFile, stopCmd, hidden>> /\ port' \in {port, d, NoPid}
    BY <1>1 DEF WireRunner
  <2> QED BY <2>3, <2>4, <2>5, <2>6, QuietStep, <1>0
<1>2. ASSUME EmailFails(d) PROVE LifeInv'
  <2> DEFINE s == State("leaving", q.deferred,
                   q.services,
                   q.turns, q.memory, q.signalled, "failed")
  <2>a. PICK r : r = [q EXCEPT !.stage = "leaving", !.err = "failed"]
    OBVIOUS
  <2>1. daemon' = [daemon EXCEPT ![d] = r]
    BY <1>a, <1>0, <1>2, <2>a DEF EmailFails
  <2>2. r = s
    BY <2>a DEF State, DaemonState
  <2>3. s \in DaemonState
    BY <1>0, <1>2, StackFacts, StacksDiffer, StateFields, StateType
    DEF Stages, Stacks, EndWithContext, EmailFails, Releasing, StackFits, HoldsPid
  <2>4. /\ StackFits(s) /\ (HoldsPid(s) <=> HoldsPid(q))
        /\ \/ s.stage \notin {"new", "gone"} /\ q.stage # "gone"
           \/ s.stage = q.stage /\ s.err = q.err
        /\ s.signalled = q.signalled \/ s.signalled = TRUE
    BY <1>0, <1>2, StackFacts, StacksDiffer, StateFields
    DEF EmailFails, State, StackFits, HoldsPid, HoldsEngine, Releasing, EndWithContext, Up, Stacks
  <2> HIDE DEF s
  <2>5. daemon' = [daemon EXCEPT ![d] = s]
    BY <2>1, <2>2
  <2>6. UNCHANGED <<pidFile, stopCmd, hidden>> /\ port' \in {port, d, NoPid}
    BY <1>2 DEF EmailFails
  <2> QED BY <2>3, <2>4, <2>5, <2>6, QuietStep, <1>0
<1>3. ASSUME WireServices(d) PROVE LifeInv'
  <2> DEFINE s == State("wired", Append(q.deferred, "engine"),
                   IF q.signalled THEN q.services
                                  ELSE q.services \cup (EndWithContext \cap Origins),
                   q.turns, q.memory, q.signalled, q.err)
  <2>a. PICK r : r = [q EXCEPT !.stage = "wired", !.deferred = Append(q.deferred, "engine"),
                            !.services =
                              IF q.signalled THEN q.services
                                             ELSE q.services \cup (EndWithContext \cap Origins)]
    OBVIOUS
  <2>1. daemon' = [daemon EXCEPT ![d] = r]
    BY <1>a, <1>0, <1>3, <2>a DEF WireServices
  <2>2. r = s
    BY <2>a DEF State, DaemonState
  <2>b. q.deferred = <<"app">> /\ Append(q.deferred, "engine") = <<"app", "engine">>
    BY <1>0, <1>3, StackFacts DEF WireServices, StackFits
  <2>3. s \in DaemonState
    <3>1. (IF q.signalled THEN q.services ELSE q.services \cup (EndWithContext \cap Origins))
             \subseteq Origins
      BY StateFields
    <3> QED BY <2>b, <3>1, StateFields, StateType DEF Stages, Stacks
  <2>4. /\ StackFits(s) /\ (HoldsPid(s) <=> HoldsPid(q))
        /\ \/ s.stage \notin {"new", "gone"} /\ q.stage # "gone"
           \/ s.stage = q.stage /\ s.err = q.err
        /\ s.signalled = q.signalled \/ s.signalled = TRUE
    BY <1>0, <1>3, <2>b, StackFacts, StacksDiffer, StateFields
    DEF WireServices, State, StackFits, HoldsPid, HoldsEngine, EndWithContext
  <2> HIDE DEF s
  <2>5. daemon' = [daemon EXCEPT ![d] = s]
    BY <2>1, <2>2
  <2>6. UNCHANGED <<pidFile, stopCmd, hidden>> /\ port' \in {port, d, NoPid}
    BY <1>3 DEF WireServices
  <2> QED BY <2>3, <2>4, <2>5, <2>6, QuietStep, <1>0
<1>4. ASSUME GatewayListens(d) PROVE LifeInv'
  <2> DEFINE s == State(q.stage, q.deferred,
                   q.services \cup ({"http"} \cap Origins),
                   q.turns, q.memory, q.signalled, q.err)
  <2>a. PICK r : r = [q EXCEPT !.services = q.services \cup ({"http"} \cap Origins)]
    OBVIOUS
  <2>1. daemon' = [daemon EXCEPT ![d] = r]
    BY <1>a, <1>0, <1>4, <2>a DEF GatewayListens
  <2>2. r = s
    BY <2>a DEF State, DaemonState
  <2>3. s \in DaemonState
    BY <1>0, <1>4, StackFacts, StacksDiffer, StateFields, StateType
    DEF Stages, Stacks, EndWithContext, GatewayListens, Releasing, StackFits, HoldsPid
  <2>4. /\ StackFits(s) /\ (HoldsPid(s) <=> HoldsPid(q))
        /\ \/ s.stage \notin {"new", "gone"} /\ q.stage # "gone"
           \/ s.stage = q.stage /\ s.err = q.err
        /\ s.signalled = q.signalled \/ s.signalled = TRUE
    BY <1>0, <1>4, StackFacts, StacksDiffer, StateFields
    DEF GatewayListens, State, StackFits, HoldsPid, HoldsEngine, Releasing, EndWithContext, Up,
        Stacks
  <2> HIDE DEF s
  <2>5. daemon' = [daemon EXCEPT ![d] = s]
    BY <2>1, <2>2
  <2>6. UNCHANGED <<pidFile, stopCmd, hidden>> /\ port' \in {port, d, NoPid}
    BY <1>4 DEF GatewayListens
  <2> QED BY <2>3, <2>4, <2>5, <2>6, QuietStep, <1>0
<1>5. ASSUME TurnEnds(d) PROVE LifeInv'
  <2> DEFINE s == State(q.stage, q.deferred, q.services, {}, q.memory, q.signalled, q.err)
  <2>a. PICK r : r = [q EXCEPT !.turns = {}]
    OBVIOUS
  <2>1. daemon' = [daemon EXCEPT ![d] = r]
    BY <1>a, <1>0, <1>5, <2>a DEF TurnEnds
  <2>2. r = s
    BY <2>a DEF State, DaemonState
  <2>3. s \in DaemonState
    BY <1>0, <1>5, StackFacts, StacksDiffer, StateFields, StateType
    DEF Stages, Stacks, EndWithContext, TurnEnds, Releasing, StackFits, HoldsPid
  <2>4. /\ StackFits(s) /\ (HoldsPid(s) <=> HoldsPid(q))
        /\ \/ s.stage \notin {"new", "gone"} /\ q.stage # "gone"
           \/ s.stage = q.stage /\ s.err = q.err
        /\ s.signalled = q.signalled \/ s.signalled = TRUE
    BY <1>0, <1>5, StackFacts, StacksDiffer, StateFields
    DEF TurnEnds, State, StackFits, HoldsPid, HoldsEngine, Releasing, EndWithContext, Up, Stacks
  <2> HIDE DEF s
  <2>5. daemon' = [daemon EXCEPT ![d] = s]
    BY <2>1, <2>2
  <2>6. UNCHANGED <<pidFile, stopCmd, hidden>> /\ port' \in {port, d, NoPid}
    BY <1>5 DEF TurnEnds
  <2> QED BY <2>3, <2>4, <2>5, <2>6, QuietStep, <1>0
<1>6. ASSUME Signal(d) PROVE LifeInv'
  <2> DEFINE s == State(q.stage, q.deferred,
                   q.services \ EndWithContext,
                   q.turns, q.memory, TRUE, q.err)
  <2>a. PICK r : r = [q EXCEPT !.signalled = TRUE, !.services = q.services \ EndWithContext]
    OBVIOUS
  <2>1. daemon' = [daemon EXCEPT ![d] = r]
    BY <1>a, <1>0, <1>6, <2>a DEF Signal
  <2>2. r = s
    BY <2>a DEF State, DaemonState
  <2>3. s \in DaemonState
    <3>1. q.services \ EndWithContext \subseteq Origins
      BY StateFields
    <3> QED BY <3>1, StateFields, StateType
  <2>4. /\ StackFits(s) /\ (HoldsPid(s) <=> HoldsPid(q))
        /\ \/ s.stage \notin {"new", "gone"} /\ q.stage # "gone"
           \/ s.stage = q.stage /\ s.err = q.err
        /\ s.signalled = q.signalled \/ s.signalled = TRUE
    BY <1>0, <1>6, StackFacts, StacksDiffer, StateFields
    DEF Signal, State, StackFits, HoldsPid, HoldsEngine, Releasing, EndWithContext, Up, Stacks
  <2> HIDE DEF s
  <2>5. daemon' = [daemon EXCEPT ![d] = s]
    BY <2>1, <2>2
  <2>6. UNCHANGED <<pidFile, stopCmd, hidden>> /\ port' \in {port, d, NoPid}
    BY <1>6 DEF Signal
  <2> QED BY <2>3, <2>4, <2>5, <2>6, QuietStep, <1>0
<1>7. ASSUME StopChannels(d) PROVE LifeInv'
  <2> DEFINE s == State("stopping", q.deferred,
                   q.services \ {"cron"},
                   q.turns, q.memory, q.signalled, q.err)
  <2>a. PICK r : r = [q EXCEPT !.stage = "stopping", !.services = q.services \ {"cron"}]
    OBVIOUS
  <2>1. daemon' = [daemon EXCEPT ![d] = r]
    BY <1>a, <1>0, <1>7, <2>a DEF StopChannels
  <2>2. r = s
    BY <2>a DEF State, DaemonState
  <2>3. s \in DaemonState
    BY <1>0, <1>7, StackFacts, StacksDiffer, StateFields, StateType
    DEF Stages, Stacks, EndWithContext, StopChannels, Releasing, StackFits, HoldsPid
  <2>4. /\ StackFits(s) /\ (HoldsPid(s) <=> HoldsPid(q))
        /\ \/ s.stage \notin {"new", "gone"} /\ q.stage # "gone"
           \/ s.stage = q.stage /\ s.err = q.err
        /\ s.signalled = q.signalled \/ s.signalled = TRUE
    BY <1>0, <1>7, StackFacts, StacksDiffer, StateFields
    DEF StopChannels, State, StackFits, HoldsPid, HoldsEngine, Releasing, EndWithContext, Up, Stacks
  <2> HIDE DEF s
  <2>5. daemon' = [daemon EXCEPT ![d] = s]
    BY <2>1, <2>2
  <2>6. UNCHANGED <<pidFile, stopCmd, hidden>> /\ port' \in {port, d, NoPid}
    BY <1>7 DEF StopChannels
  <2> QED BY <2>3, <2>4, <2>5, <2>6, QuietStep, <1>0
<1>8. ASSUME AwaitEngine(d) PROVE LifeInv'
  <2> DEFINE s == State("stopped", q.deferred, q.services, q.turns, q.memory, q.signalled, q.err)
  <2>a. PICK r : r = [q EXCEPT !.stage = "stopped"]
    OBVIOUS
  <2>1. daemon' = [daemon EXCEPT ![d] = r]
    BY <1>a, <1>0, <1>8, <2>a DEF AwaitEngine
  <2>2. r = s
    BY <2>a DEF State, DaemonState
  <2>3. s \in DaemonState
    BY <1>0, <1>8, StackFacts, StacksDiffer, StateFields, StateType
    DEF Stages, Stacks, EndWithContext, AwaitEngine, Releasing, StackFits, HoldsPid
  <2>4. /\ StackFits(s) /\ (HoldsPid(s) <=> HoldsPid(q))
        /\ \/ s.stage \notin {"new", "gone"} /\ q.stage # "gone"
           \/ s.stage = q.stage /\ s.err = q.err
        /\ s.signalled = q.signalled \/ s.signalled = TRUE
    BY <1>0, <1>8, StackFacts, StacksDiffer, StateFields
    DEF AwaitEngine, State, StackFits, HoldsPid, HoldsEngine, Releasing, EndWithContext, Up, Stacks
  <2> HIDE DEF s
  <2>5. daemon' = [daemon EXCEPT ![d] = s]
    BY <2>1, <2>2
  <2>6. UNCHANGED <<pidFile, stopCmd, hidden>> /\ port' \in {port, d, NoPid}
    BY <1>8 DEF AwaitEngine
  <2> QED BY <2>3, <2>4, <2>5, <2>6, QuietStep, <1>0
<1>9. ASSUME WaitForInflight(d) PROVE LifeInv'
  <2> DEFINE s == State("waited", q.deferred, q.services, q.turns, q.memory, q.signalled, q.err)
  <2>a. PICK r : r = [q EXCEPT !.stage = "waited"]
    OBVIOUS
  <2>1. daemon' = [daemon EXCEPT ![d] = r]
    BY <1>a, <1>0, <1>9, <2>a DEF WaitForInflight
  <2>2. r = s
    BY <2>a DEF State, DaemonState
  <2>3. s \in DaemonState
    BY <1>0, <1>9, StackFacts, StacksDiffer, StateFields, StateType
    DEF Stages, Stacks, EndWithContext, WaitForInflight, Releasing, StackFits, HoldsPid
  <2>4. /\ StackFits(s) /\ (HoldsPid(s) <=> HoldsPid(q))
        /\ \/ s.stage \notin {"new", "gone"} /\ q.stage # "gone"
           \/ s.stage = q.stage /\ s.err = q.err
        /\ s.signalled = q.signalled \/ s.signalled = TRUE
    BY <1>0, <1>9, StackFacts, StacksDiffer, StateFields
    DEF WaitForInflight, State, StackFits, HoldsPid, HoldsEngine, Releasing, EndWithContext, Up,
        Stacks
  <2> HIDE DEF s
  <2>5. daemon' = [daemon EXCEPT ![d] = s]
    BY <2>1, <2>2
  <2>6. UNCHANGED <<pidFile, stopCmd, hidden>> /\ port' \in {port, d, NoPid}
    BY <1>9 DEF WaitForInflight
  <2> QED BY <2>3, <2>4, <2>5, <2>6, QuietStep, <1>0
<1>10. ASSUME StopGateway(d) PROVE LifeInv'
  <2> DEFINE s == State("leaving", q.deferred,
                   q.services \ {"http"},
                   q.turns, q.memory, q.signalled, q.err)
  <2>a. PICK r : r = [q EXCEPT !.stage = "leaving", !.services = q.services \ {"http"}]
    OBVIOUS
  <2>1. daemon' = [daemon EXCEPT ![d] = r]
    BY <1>a, <1>0, <1>10, <2>a DEF StopGateway
  <2>2. r = s
    BY <2>a DEF State, DaemonState
  <2>3. s \in DaemonState
    BY <1>0, <1>10, StackFacts, StacksDiffer, StateFields, StateType
    DEF Stages, Stacks, EndWithContext, StopGateway, Releasing, StackFits, HoldsPid
  <2>4. /\ StackFits(s) /\ (HoldsPid(s) <=> HoldsPid(q))
        /\ \/ s.stage \notin {"new", "gone"} /\ q.stage # "gone"
           \/ s.stage = q.stage /\ s.err = q.err
        /\ s.signalled = q.signalled \/ s.signalled = TRUE
    BY <1>0, <1>10, StackFacts, StacksDiffer, StateFields
    DEF StopGateway, State, StackFits, HoldsPid, HoldsEngine, Releasing, EndWithContext, Up, Stacks
  <2> HIDE DEF s
  <2>5. daemon' = [daemon EXCEPT ![d] = s]
    BY <2>1, <2>2
  <2>6. UNCHANGED <<pidFile, stopCmd, hidden>> /\ port' \in {port, d, NoPid}
    BY <1>10 DEF StopGateway
  <2> QED BY <2>3, <2>4, <2>5, <2>6, QuietStep, <1>0
<1>11. ASSUME CancelEngine(d) PROVE LifeInv'
  <2> DEFINE s == State(q.stage, q.deferred,
                   q.services \ {"rule"},
                   q.turns, q.memory, q.signalled, q.err)
  <2>a. PICK r : r = [q EXCEPT !.services = q.services \ {"rule"}]
    OBVIOUS
  <2>1. daemon' = [daemon EXCEPT ![d] = r]
    BY <1>a, <1>0, <1>11, <2>a DEF CancelEngine
  <2>2. r = s
    BY <2>a DEF State, DaemonState
  <2>3. s \in DaemonState
    BY <1>0, <1>11, StackFacts, StacksDiffer, StateFields, StateType
    DEF Stages, Stacks, EndWithContext, CancelEngine, Releasing, StackFits, HoldsPid
  <2>4. /\ StackFits(s) /\ (HoldsPid(s) <=> HoldsPid(q))
        /\ \/ s.stage \notin {"new", "gone"} /\ q.stage # "gone"
           \/ s.stage = q.stage /\ s.err = q.err
        /\ s.signalled = q.signalled \/ s.signalled = TRUE
    BY <1>0, <1>11, StackFacts, StacksDiffer, StateFields
    DEF CancelEngine, State, StackFits, HoldsPid, HoldsEngine, Releasing, EndWithContext, Up, Stacks
  <2> HIDE DEF s
  <2>5. daemon' = [daemon EXCEPT ![d] = s]
    BY <2>1, <2>2
  <2>6. UNCHANGED <<pidFile, stopCmd, hidden>> /\ port' \in {port, d, NoPid}
    BY <1>11 DEF CancelEngine
  <2> QED BY <2>3, <2>4, <2>5, <2>6, QuietStep, <1>0
<1>12. ASSUME EngineIsDown(d) PROVE LifeInv'
  <2> DEFINE s == State(q.stage, Front(q.deferred),
                   q.services,
                   q.turns, q.memory, q.signalled, q.err)
  <2>a. PICK r : r = [q EXCEPT !.deferred = Front(q.deferred)]
    OBVIOUS
  <2>1. daemon' = [daemon EXCEPT ![d] = r]
    BY <1>a, <1>0, <1>12, <2>a DEF EngineIsDown
  <2>2. r = s
    BY <2>a DEF State, DaemonState
  <2>3. s \in DaemonState
    BY <1>0, <1>12, StackFacts, StacksDiffer, StateFields, StateType
    DEF Stages, Stacks, EndWithContext, EngineIsDown, Releasing, StackFits, HoldsPid
  <2>4. /\ StackFits(s) /\ (HoldsPid(s) <=> HoldsPid(q))
        /\ \/ s.stage \notin {"new", "gone"} /\ q.stage # "gone"
           \/ s.stage = q.stage /\ s.err = q.err
        /\ s.signalled = q.signalled \/ s.signalled = TRUE
    BY <1>0, <1>12, StackFacts, StacksDiffer, StateFields
    DEF EngineIsDown, State, StackFits, HoldsPid, HoldsEngine, Releasing, EndWithContext, Up, Stacks
  <2> HIDE DEF s
  <2>5. daemon' = [daemon EXCEPT ![d] = s]
    BY <2>1, <2>2
  <2>6. UNCHANGED <<pidFile, stopCmd, hidden>> /\ port' \in {port, d, NoPid}
    BY <1>12 DEF EngineIsDown
  <2> QED BY <2>3, <2>4, <2>5, <2>6, QuietStep, <1>0
<1>13. ASSUME CloseApp(d) PROVE LifeInv'
  <2> DEFINE s == State(q.stage, Front(q.deferred),
                   q.services \ {"cron"},
                   q.turns, FALSE, q.signalled, q.err)
  <2>a. PICK r : r = [q EXCEPT !.deferred = Front(q.deferred),
                            !.services = q.services \ {"cron"}, !.memory = FALSE]
    OBVIOUS
  <2>1. daemon' = [daemon EXCEPT ![d] = r]
    BY <1>a, <1>0, <1>13, <2>a DEF CloseApp
  <2>2. r = s
    BY <2>a DEF State, DaemonState
  <2>3. s \in DaemonState
    BY <1>0, <1>13, StackFacts, StacksDiffer, StateFields, StateType
    DEF Stages, Stacks, EndWithContext, CloseApp, Releasing, StackFits, HoldsPid
  <2>4. /\ StackFits(s) /\ (HoldsPid(s) <=> HoldsPid(q))
        /\ \/ s.stage \notin {"new", "gone"} /\ q.stage # "gone"
           \/ s.stage = q.stage /\ s.err = q.err
        /\ s.signalled = q.signalled \/ s.signalled = TRUE
    BY <1>0, <1>13, StackFacts, StacksDiffer, StateFields
    DEF CloseApp, State, StackFits, HoldsPid, HoldsEngine, Releasing, EndWithContext, Up, Stacks
  <2> HIDE DEF s
  <2>5. daemon' = [daemon EXCEPT ![d] = s]
    BY <2>1, <2>2
  <2>6. UNCHANGED <<pidFile, stopCmd, hidden>> /\ port' \in {port, d, NoPid}
    BY <1>13 DEF CloseApp
  <2> QED BY <2>3, <2>4, <2>5, <2>6, QuietStep, <1>0
<1>14. ASSUME MainPanics(d) PROVE LifeInv'
  <2> DEFINE s == State("leaving", q.deferred, q.services, q.turns, q.memory, q.signalled, q.err)
  <2>a. PICK r : r = [q EXCEPT !.stage = "leaving"]
    OBVIOUS
  <2>1. daemon' = [daemon EXCEPT ![d] = r]
    BY <1>a, <1>0, <1>14, <2>a DEF MainPanics
  <2>2. r = s
    BY <2>a DEF State, DaemonState
  <2>3. s \in DaemonState
    BY <1>0, <1>14, StackFacts, StacksDiffer, StateFields, StateType
    DEF Stages, Stacks, EndWithContext, MainPanics, Releasing, StackFits, HoldsPid
  <2>4. /\ StackFits(s) /\ (HoldsPid(s) <=> HoldsPid(q))
        /\ \/ s.stage \notin {"new", "gone"} /\ q.stage # "gone"
           \/ s.stage = q.stage /\ s.err = q.err
        /\ s.signalled = q.signalled \/ s.signalled = TRUE
    BY <1>0, <1>14, StackFacts, StacksDiffer, StateFields
    DEF MainPanics, State, StackFits, HoldsPid, HoldsEngine, Releasing, EndWithContext, Up, Stacks
  <2> HIDE DEF s
  <2>5. daemon' = [daemon EXCEPT ![d] = s]
    BY <2>1, <2>2
  <2>6. UNCHANGED <<pidFile, stopCmd, hidden>> /\ port' \in {port, d, NoPid}
    BY <1>14 DEF MainPanics
  <2> QED BY <2>3, <2>4, <2>5, <2>6, QuietStep, <1>0
<1> QED BY <1>1, <1>2, <1>3, <1>4, <1>5, <1>6, <1>7, <1>8, <1>9, <1>10, <1>11, <1>12, <1>13, <1>14

LEMMA MoreQuietActs ==
  ASSUME LifeInv, NEW d \in Daemons
  PROVE  OpenMemory(d) \/ CheckOther(d) \/ TurnBegins(d) => LifeInv'
<1>a. daemon \in [Daemons -> DaemonState]
  BY DEF LifeInv, LifeTypes
<1>0. PICK q \in DaemonState : q = daemon[d] /\ StackFits(q)
  BY DEF LifeInv, LifeTypes, StacksInv
<1>1. ASSUME OpenMemory(d) PROVE LifeInv'
  <2>1. CASE Gone(d, "failed")
    BY <1>0, <1>1, <2>1, StacksDiffer, GoneStep
    DEF OpenMemory, LifeInv, PidInv, StackFits, HoldsPid, Up
  <2>2. CASE ~Gone(d, "failed")
    <3> DEFINE s == State("memory", q.deferred, q.services, q.turns, TRUE, q.signalled, q.err)
    <3>1. PICK r : r = [q EXCEPT !.stage = "memory", !.memory = TRUE]
      OBVIOUS
    <3>2. daemon' = [daemon EXCEPT ![d] = r] /\ UNCHANGED <<pidFile, port, stopCmd, hidden>>
      BY <1>a, <1>0, <1>1, <2>2, <3>1 DEF OpenMemory
    <3>3. r = s
      BY <3>1 DEF State, DaemonState
    <3>4. s \in DaemonState
      BY StateFields, StateType DEF Stages
    <3>5. /\ q.stage = "new" /\ s.stage = "memory" /\ StackFits(s)
          /\ (HoldsPid(s) <=> HoldsPid(q)) /\ s.signalled = q.signalled
      BY <1>0, <1>1, StacksDiffer DEF OpenMemory, State, StackFits, HoldsPid, HoldsEngine
    <3> HIDE DEF s
    <3>6. daemon' = [daemon EXCEPT ![d] = s]
      BY <3>2, <3>3
    <3> QED BY <1>0, <3>2, <3>4, <3>5, <3>6, QuietStep
  <2> QED BY <2>1, <2>2
<1>2. ASSUME CheckOther(d) PROVE LifeInv'
  <2>1. PICK recycled \in BOOLEAN :
          daemon' = IF CheckPID(pidFile, recycled)
                    THEN [daemon EXCEPT ![d].stage = "leaving", ![d].err = "failed"]
                    ELSE [daemon EXCEPT ![d].stage = "checked"]
    BY <1>2 DEF CheckOther
  <2>2. q.stage = "wired" /\ UNCHANGED <<pidFile, port, stopCmd, hidden>>
    BY <1>0, <1>2 DEF CheckOther
  <2>3. \E s \in DaemonState :
          /\ daemon' = [daemon EXCEPT ![d] = s]
          /\ \/ s = State("leaving", q.deferred, q.services, q.turns, q.memory, q.signalled,
                          "failed")
             \/ s = State("checked", q.deferred, q.services, q.turns, q.memory, q.signalled, q.err)
    <3>1. CASE CheckPID(pidFile, recycled)
      <4>1. PICK r : r = [q EXCEPT !.stage = "leaving", !.err = "failed"]
        OBVIOUS
      <4>2. daemon' = [daemon EXCEPT ![d] = r]
        BY <1>a, <1>0, <2>1, <3>1, <4>1
      <4>3. r = State("leaving", q.deferred, q.services, q.turns, q.memory, q.signalled, "failed")
        BY <4>1 DEF State, DaemonState
      <4>4. r \in DaemonState
        BY <4>3, StateFields, StateType DEF Stages
      <4> QED BY <4>2, <4>3, <4>4
    <3>2. CASE ~CheckPID(pidFile, recycled)
      <4>1. PICK r : r = [q EXCEPT !.stage = "checked"]
        OBVIOUS
      <4>2. daemon' = [daemon EXCEPT ![d] = r]
        BY <1>a, <1>0, <2>1, <3>2, <4>1
      <4>3. r = State("checked", q.deferred, q.services, q.turns, q.memory, q.signalled, q.err)
        BY <4>1 DEF State, DaemonState
      <4>4. r \in DaemonState
        BY <4>3, StateFields, StateType DEF Stages
      <4> QED BY <4>2, <4>3, <4>4
    <3> QED BY <3>1, <3>2
  <2>4. PICK s \in DaemonState :
          /\ daemon' = [daemon EXCEPT ![d] = s]
          /\ \/ s = State("leaving", q.deferred, q.services, q.turns, q.memory, q.signalled,
                          "failed")
             \/ s = State("checked", q.deferred, q.services, q.turns, q.memory, q.signalled, q.err)
    BY <2>3
  <2>5. /\ s.stage \in {"leaving", "checked"} /\ StackFits(s) /\ (HoldsPid(s) <=> HoldsPid(q))
        /\ s.signalled = q.signalled
    BY <1>0, <2>2, <2>4, StacksDiffer DEF State, StackFits, HoldsPid, HoldsEngine
  <2> QED BY <1>0, <2>2, <2>4, <2>5, QuietStep
<1>3. ASSUME TurnBegins(d) PROVE LifeInv'
  <2>1. PICK origin \in q.services : daemon' = [daemon EXCEPT ![d].turns = {origin}]
    BY <1>0, <1>3 DEF TurnBegins
  <2> DEFINE s == State(q.stage, q.deferred, q.services, {origin}, q.memory, q.signalled, q.err)
  <2>2. PICK r : r = [q EXCEPT !.turns = {origin}]
    OBVIOUS
  <2>3. daemon' = [daemon EXCEPT ![d] = r] /\ UNCHANGED <<pidFile, port, stopCmd, hidden>>
    BY <1>a, <1>0, <1>3, <2>1, <2>2 DEF TurnBegins
  <2>4. r = s
    BY <2>2 DEF State, DaemonState
  <2>5. s \in DaemonState
    BY StateFields, StateType
  <2>6. /\ s.stage = q.stage /\ s.err = q.err /\ StackFits(s) /\ (HoldsPid(s) <=> HoldsPid(q))
        /\ s.signalled = q.signalled
    BY <1>0 DEF State, StackFits, HoldsPid, HoldsEngine
  <2> HIDE DEF s
  <2>7. daemon' = [daemon EXCEPT ![d] = s]
    BY <2>3, <2>4
  <2> QED BY <1>0, <2>3, <2>5, <2>6, <2>7, QuietStep
<1> QED BY <1>1, <1>2, <1>3

\* The ends of a process, and the way into the PID file and out of it.
LEMMA PidActs ==
  ASSUME LifeInv, NEW d \in Daemons
  PROVE  Crash(d) \/ BuildFails(d) \/ ReturnFromMain(d) \/ WritePID(d) \/ RemovePID(d) => LifeInv'
<1>a. daemon \in [Daemons -> DaemonState]
  BY DEF LifeInv, LifeTypes
<1>0. PICK q \in DaemonState : q = daemon[d] /\ StackFits(q)
  BY DEF LifeInv, LifeTypes, StacksInv
<1>1. ASSUME Crash(d) PROVE LifeInv'
  BY <1>1, GoneStep DEF Crash
<1>2. ASSUME BuildFails(d) PROVE LifeInv'
  BY <1>0, <1>2, StacksDiffer, GoneStep
  DEF BuildFails, LifeInv, PidInv, StackFits, HoldsPid
<1>3. ASSUME ReturnFromMain(d) PROVE LifeInv'
  BY <1>0, <1>3, StacksDiffer, StateFields, GoneStep
  DEF ReturnFromMain, LifeInv, PidInv, HoldsPid
<1>4. ASSUME WritePID(d) PROVE LifeInv'
  <2> DEFINE s == State("serving", <<"app", "engine", "pid">>, q.services, q.turns, q.memory,
                        q.signalled, q.err)
  <2>1. q.stage = "checked" /\ q.deferred = <<"app", "engine">>
    BY <1>0, <1>4 DEF WritePID, StackFits
  <2>2. PICK r : r = [q EXCEPT !.stage = "serving", !.deferred = <<"app", "engine", "pid">>]
    OBVIOUS
  <2>3. daemon' = [daemon EXCEPT ![d] = r] /\ UNCHANGED <<port, stopCmd>>
    BY <1>a, <1>0, <1>4, <2>1, <2>2, StackFacts DEF WritePID
  <2>4. r = s
    BY <2>2 DEF State, DaemonState
  <2>5. s \in DaemonState
    BY StateFields, StateType DEF Stages, Stacks
  <2>6. s.stage = "serving" /\ StackFits(s) /\ HoldsPid(s)
    BY <1>0, <2>1, StacksDiffer DEF State, StackFits, HoldsPid, HoldsEngine
  <2> HIDE DEF s
  <2>7. daemon'[d] = s /\ \A e \in Daemons \ {d} : daemon'[e] = daemon[e]
    BY <1>a, <2>3, <2>4
  <2>8. \/ pidFile' = d /\ hidden' = hidden \cup ({pidFile} \ {NoPid, d})
        \/ pidFile' \in {NoPid, pidFile} /\ hidden' = hidden \cup ({d, pidFile} \ {NoPid})
    BY <1>4 DEF WritePID
  <2>9. LifeTypes'
    BY <2>3, <2>4, <2>5, <2>8 DEF LifeInv, LifeTypes
  <2>10. StacksInv'
    BY <2>6, <2>7 DEF LifeInv, StacksInv
  <2>11. PidInv'
    BY <2>6, <2>7, <2>8, LifeConfig DEF LifeInv, PidInv, Up
  <2> QED BY <2>9, <2>10, <2>11 DEF LifeInv
<1>5. ASSUME RemovePID(d) PROVE LifeInv'
  <2> DEFINE s == State(q.stage, <<"app", "engine">>, q.services, q.turns, q.memory,
                        q.signalled, q.err)
  <2>1. q.stage = "leaving" /\ HoldsPid(q)
    BY <1>0, <1>5, StackFacts, StateFields DEF RemovePID, Releasing, HoldsPid, Stacks
  <2>2. PICK r : r = [q EXCEPT !.deferred = <<"app", "engine">>]
    OBVIOUS
  <2>3. daemon' = [daemon EXCEPT ![d] = r] /\ UNCHANGED <<port, stopCmd>>
    BY <1>a, <1>0, <1>5, <2>1, <2>2, StackFacts DEF RemovePID, HoldsPid
  <2>4. r = s
    BY <2>2 DEF State, DaemonState
  <2>5. s \in DaemonState
    BY StateFields, StateType DEF Stacks
  <2>6. s.stage = "leaving" /\ StackFits(s) /\ ~HoldsPid(s)
    BY <1>0, <2>1, StacksDiffer DEF State, StackFits, HoldsPid, HoldsEngine
  <2> HIDE DEF s
  <2>7. daemon'[d] = s /\ \A e \in Daemons \ {d} : daemon'[e] = daemon[e]
    BY <1>a, <2>3, <2>4
  <2>8. /\ pidFile' = NoPid
        /\ hidden' = hidden \cup (IF q.signalled \/ d \in hidden THEN {pidFile} \ {NoPid, d}
                                                               ELSE {})
    BY <1>0, <1>5 DEF RemovePID
  <2>9. LifeTypes'
    BY <2>3, <2>4, <2>5, <2>8 DEF LifeInv, LifeTypes
  <2>10. StacksInv'
    BY <2>6, <2>7 DEF LifeInv, StacksInv
  <2>11. q.signalled = FALSE /\ d \notin hidden => pidFile = d
    BY <1>0, <2>1 DEF LifeInv, PidInv
  <2>12. q.signalled \in BOOLEAN
    BY StateFields
  <2>13. \A e \in Daemons \ {d} :
           HoldsPid(daemon[e]) /\ daemon[e].signalled = FALSE => e \in hidden'
    BY <2>8, <2>11, <2>12, LifeConfig DEF LifeInv, PidInv
  <2>14. PidInv'
    BY <2>6, <2>7, <2>8, <2>13, LifeConfig DEF PidInv
  <2> QED BY <2>9, <2>10, <2>14 DEF LifeInv
<1> QED BY <1>1, <1>2, <1>3, <1>4, <1>5

LEMMA StopCommandActs == LifeInv /\ (StopReads \/ StopActs) => LifeInv'
<1> SUFFICES ASSUME LifeInv, StopReads \/ StopActs PROVE LifeInv'
  OBVIOUS
<1>1. CASE StopReads
  <2>1. UNCHANGED <<daemon, pidFile, port, hidden>> /\ stopCmd' = pidFile
    BY <1>1 DEF StopReads
  <2> QED BY <2>1 DEF LifeInv, LifeTypes, StacksInv, PidInv, Up
<1>2. CASE StopActs
  <2>a. daemon \in [Daemons -> DaemonState] /\ stopCmd \in Daemons
    BY <1>2 DEF LifeInv, LifeTypes, StopActs
  <2>0. PICK q \in DaemonState : q = daemon[stopCmd] /\ StackFits(q)
    BY <2>a DEF LifeInv, LifeTypes, StacksInv
  <2>1. /\ UNCHANGED port /\ stopCmd' = NoPid
        /\ \/ pidFile' = NoPid /\ hidden' = hidden \cup ({pidFile} \ {NoPid, stopCmd})
           \/ ~Up(stopCmd) /\ UNCHANGED <<pidFile, hidden>>
    BY <1>2 DEF StopActs
  <2>2. CASE Up(stopCmd)
    <3> DEFINE s == State(q.stage, q.deferred, q.services \ EndWithContext, q.turns, q.memory,
                          TRUE, q.err)
    <3>1. PICK r : r = [q EXCEPT !.signalled = TRUE, !.services = q.services \ EndWithContext]
      OBVIOUS
    <3>2. daemon' = [daemon EXCEPT ![stopCmd] = r]
      BY <1>2, <2>a, <2>0, <2>2, <3>1 DEF StopActs
    <3>3. r = s
      BY <3>1 DEF State, DaemonState
    <3>4. s \in DaemonState
      <4>1. q.services \ EndWithContext \subseteq Origins
        BY StateFields
      <4> QED BY <4>1, StateFields, StateType
    <3>5. s.signalled = TRUE /\ StackFits(s)
      BY <2>0 DEF State, StackFits, HoldsPid, HoldsEngine
    <3> HIDE DEF s
    <3>6. daemon'[stopCmd] = s /\ \A e \in Daemons \ {stopCmd} : daemon'[e] = daemon[e]
      BY <2>a, <3>2, <3>3
    <3>7. LifeTypes'
      BY <2>1, <3>2, <3>3, <3>4 DEF LifeInv, LifeTypes
    <3>8. StacksInv'
      BY <3>5, <3>6 DEF LifeInv, StacksInv
    <3>9. PidInv'
      BY <2>1, <2>2, <3>5, <3>6, LifeConfig DEF LifeInv, PidInv
    <3> QED BY <3>7, <3>8, <3>9 DEF LifeInv
  <2>3. CASE ~Up(stopCmd)
    <3>1. UNCHANGED daemon
      BY <1>2, <2>3 DEF StopActs
    <3>2. LifeTypes' /\ StacksInv'
      BY <2>1, <3>1 DEF LifeInv, LifeTypes, StacksInv
    <3>3. PidInv'
      <4>1. ~HoldsPid(q) /\ q = daemon[stopCmd]
        BY <2>0, <2>3, StacksDiffer DEF StackFits, HoldsPid, Up
      <4> QED BY <2>1, <3>1, <4>1, LifeConfig DEF LifeInv, PidInv, Up
    <3> QED BY <3>2, <3>3 DEF LifeInv
  <2> QED BY <2>2, <2>3
<1> QED BY <1>1, <1>2

LEMMA LifeStepKeeps == LifeInv /\ [LifeNext]_lifeVars => LifeInv'
<1>1. ASSUME LifeInv, NEW d \in Daemons, LifeStep(d) PROVE LifeInv'
  BY <1>1, QuietActs, MoreQuietActs, PidActs DEF LifeStep
<1>2. LifeInv /\ UNCHANGED lifeVars => LifeInv'
  BY DEF LifeInv, LifeTypes, StacksInv, PidInv, Up, lifeVars
<1> QED BY <1>1, <1>2, StopCommandActs DEF LifeNext

LEMMA LifeKeepsDaemon == LifeInv => DaemonKept
<1> SUFFICES ASSUME LifeInv, NEW d \in Daemons
             PROVE  /\ daemon[d].stage = "serving" /\ ~daemon[d].signalled /\ d \notin hidden
                         => pidFile = d
                    /\ pidFile = d => Up(d) \/ daemon[d].err = "killed"
                    /\ "rule" \in daemon[d].turns => daemon[d].memory
  BY DEF DaemonKept
<1>1. StackFits(daemon[d]) /\ daemon[d] \in DaemonState
  BY DEF LifeInv, LifeTypes, StacksInv
<1>2. daemon[d].signalled \in BOOLEAN /\ daemon[d].memory \in BOOLEAN
  BY <1>1, StateFields
<1>3. daemon[d].stage = "serving" /\ ~daemon[d].signalled /\ d \notin hidden => pidFile = d
  BY <1>1, <1>2 DEF LifeInv, PidInv, StackFits
<1>4. pidFile = d => Up(d) \/ daemon[d].err = "killed"
  BY DEF LifeInv, PidInv
<1>5. "rule" \in daemon[d].turns => daemon[d].memory = TRUE
  BY <1>1, StacksDiffer DEF StackFits, HoldsEngine, HoldsPid
<1> QED BY <1>2, <1>3, <1>4, <1>5

-----------------------------------------------------------------------------
(* The breaker of a trigger *)

\* The powers of two are what their recursion says.
LEMMA PowersOfTwo ==
  /\ PowerOfTwo \in [Nat -> Nat \ {0}]
  /\ \A n \in Nat : PowerOfTwo[n + 1] = 2 * PowerOfTwo[n]
<1> DEFINE V == Nat \ {0}
           step == [x \in Nat \X V |-> 2 * x[2]]
<1>1. ASSUME NEW n \in Nat, NEW v \in V PROVE step[<<n, v>>] = 2 * v /\ step[<<n, v>>] \in V
  <2>1. <<n, v>> \in Nat \X V
    OBVIOUS
  <2>2. step[<<n, v>>] = 2 * v
    BY <2>1
  <2> QED BY <2>2
<1>2. 1 \in V
  OBVIOUS
<1> HIDE DEF V, step
<1>3. \A n \in Nat, v \in V : step[<<n, v>>] \in V
  BY <1>1
<1>4. PICK f : Recursion(f, V, 1, step)
  BY <1>2, <1>3, RecursionExists
<1>5. f \in [Nat -> V] /\ f[0] = 1
  BY <1>4 DEF Recursion
<1>6. ASSUME NEW n \in Nat PROVE f[n + 1] = 2 * f[n] /\ f[n] \in V
  <2>1. f[n + 1] = step[<<n, f[n]>>] /\ f[n] \in V
    BY <1>4 DEF Recursion
  <2> QED BY <1>1, <2>1
<1>7. ASSUME NEW n \in Nat PROVE f[n] = IF n = 0 THEN 1 ELSE 2 * f[n - 1]
  <2>1. CASE n = 0
    BY <1>5, <2>1
  <2>2. CASE n # 0
    <3>1. n - 1 \in Nat /\ n - 1 + 1 = n
      BY <2>2
    <3>2. f[n] = 2 * f[n - 1]
      BY <1>6, <3>1
    <3> QED BY <2>2, <3>2
  <2> QED BY <2>1, <2>2
<1>8. f = [n \in Nat |-> IF n = 0 THEN 1 ELSE 2 * f[n - 1]]
  BY <1>5, <1>7
<1>9. PowerOfTwo = [n \in Nat |-> IF n = 0 THEN 1 ELSE 2 * PowerOfTwo[n - 1]]
  BY <1>8 DEF PowerOfTwo
<1>10. PowerOfTwo[0] = 1
  BY <1>9
<1>11. ASSUME NEW n \in Nat PROVE PowerOfTwo[n + 1] = 2 * PowerOfTwo[n]
  <2>1. n + 1 \in Nat /\ n + 1 # 0 /\ n + 1 - 1 = n
    OBVIOUS
  <2> QED BY <1>9, <2>1
<1> DEFINE S == {n \in Nat : PowerOfTwo[n] \in V}
<1>12. 0 \in S
  BY <1>2, <1>10
<1>13. ASSUME NEW n \in Nat, n \in S PROVE n + 1 \in S
  <2>1. PowerOfTwo[n + 1] = 2 * PowerOfTwo[n]
    BY <1>11
  <2> QED BY <1>13, <2>1 DEF V
<1>14. Nat \subseteq S
  <2> HIDE DEF S
  <2> QED BY <1>12, <1>13, SetInduction
<1>15. PowerOfTwo \in [Nat -> V]
  BY <1>9, <1>14
<1> QED BY <1>11, <1>15 DEF V

Half == PowerOfTwo[WordBits - 1]

\* A word holds a value that fits, and some value of its width in any case.
LEMMA WordHolds ==
  ASSUME NEW n \in Nat
  PROVE  /\ Half \in Nat \ {0}
         /\ Wrapped(n) \in -Half..(Half - 1)
         /\ n < Half => Wrapped(n) = n
<1>1. WordBits \in Nat \ {0} /\ WordBits - 1 \in Nat /\ WordBits - 1 + 1 = WordBits
  BY BreakerConfig
<1>2. Half \in Nat \ {0} /\ PowerOfTwo[WordBits] = 2 * Half
  BY <1>1, PowersOfTwo DEF Half
<1> DEFINE m == 2 * Half
           r == (n + Half) % m
<1>3. m \in Nat \ {0} /\ n + Half \in Nat
  BY <1>2
<1>4. Wrapped(n) = r - Half
  BY <1>2 DEF Wrapped, Half
<1>5. r \in 0..(m - 1)
  <2> HIDE DEF m
  <2> QED BY <1>3
<1>6. n < Half => r = n + Half
  <2>1. n < Half => n + Half < m
    BY <1>2
  <2> HIDE DEF m
  <2> QED BY <1>3, <2>1
<1>7. m - 1 - Half = Half - 1
  BY <1>2
<1> HIDE DEF m, r
<1> QED BY <1>2, <1>3, <1>4, <1>5, <1>6, <1>7

\* A delay is no longer than the cap, and no shorter than a second when the shifted second
\* fits the word.
LEMMA DelayBounded ==
  ASSUME NEW n \in Nat
  PROVE  /\ Backoff(n) \in -Half..CooldownMax
         /\ \/ Second <= Backoff(n) /\ Backoff(n) <= CooldownMax
            \/ ShiftLeft(n) = 0
            \/ ShiftLeft(n) * Second >= Half
<1>1. Second \in Nat \ {0} /\ CooldownMax \in Nat /\ Second <= CooldownMax
      /\ CooldownMax < Half
  BY BreakerConfig DEF Half
<1>2. ShiftLeft(n) \in Nat
  BY PowersOfTwo DEF ShiftLeft
<1> DEFINE d == ShiftLeft(n) * Second
<1>3. d \in Nat
  BY <1>1, <1>2
<1>4. ShiftLeft(n) # 0 => Second <= d
  BY <1>1, <1>2
<1>5. Backoff(n) = IF Wrapped(d) > CooldownMax THEN CooldownMax ELSE Wrapped(d)
  BY DEF Backoff
<1> HIDE DEF d
<1>6. Half \in Nat \ {0} /\ Wrapped(d) \in -Half..(Half - 1) /\ (d < Half => Wrapped(d) = d)
  BY <1>3, WordHolds
<1>7. Backoff(n) \in -Half..CooldownMax
  BY <1>1, <1>5, <1>6
<1>8. d < Half /\ ShiftLeft(n) # 0 => Second <= Backoff(n) /\ Backoff(n) <= CooldownMax
  BY <1>1, <1>3, <1>4, <1>5, <1>6
<1>9. d < Half \/ d >= Half
  BY <1>3, <1>6
<1> QED BY <1>7, <1>8, <1>9 DEF d

\* A source that runs, or is about to, has not failed too often in a row yet.
BreakerInv ==
  /\ source \in {"running", "backing off", "cooling down", "over"}
  /\ cancelled \in BOOLEAN /\ tripped \in BOOLEAN
  /\ consecutive \in 0..ConsecutiveFailLimit
  /\ attempt \in 0..MaxFailures
  /\ delay \in -Half..CooldownMax
  /\ source \in {"running", "backing off"} => consecutive < ConsecutiveFailLimit
  /\ source = "backing off" => attempt > 0
  /\ WaitsBeforeRetry

LEMMA BreakerNumbers ==
  /\ ConsecutiveFailLimit \in Nat /\ 0 < ConsecutiveFailLimit
  /\ MaxFailures \in Nat /\ CooldownMax \in Nat
BY BreakerConfig

LEMMA BreakerBegins == BreakerInit => BreakerInv
<1>1. Half \in Nat \ {0}
  BY WordHolds
<1>2. 0 \in -Half..CooldownMax
  BY <1>1, BreakerNumbers
<1> SUFFICES ASSUME BreakerInit PROVE BreakerInv
  OBVIOUS
<1>3. source = "running" /\ cancelled = FALSE /\ tripped = FALSE
  BY DEF BreakerInit
<1>4. consecutive = 0 /\ attempt = 0 /\ delay = 0
  BY DEF BreakerInit
<1>5. consecutive \in 0..ConsecutiveFailLimit
  BY <1>4, BreakerNumbers
<1>6. consecutive < ConsecutiveFailLimit
  BY <1>4, BreakerNumbers
<1>7. attempt \in 0..MaxFailures
  BY <1>4, BreakerNumbers
<1>8. delay \in -Half..CooldownMax
  BY <1>2, <1>4
<1> QED BY <1>3, <1>5, <1>6, <1>7, <1>8 DEF BreakerInv, WaitsBeforeRetry

LEMMA BreakerStep == BreakerInv /\ [BreakerNext]_breakerVars => BreakerInv'
<1> SUFFICES ASSUME BreakerInv, [BreakerNext]_breakerVars PROVE BreakerInv'
  OBVIOUS
<1>1. ASSUME SourceFails PROVE BreakerInv'
  <2>1. source = "running" /\ cancelled' = cancelled
    BY <1>1 DEF SourceFails
  <2>2. consecutive' = consecutive + 1 /\ attempt' = attempt + 1 /\ attempt < MaxFailures
    BY <1>1 DEF SourceFails
  <2>3. consecutive \in 0..ConsecutiveFailLimit /\ consecutive < ConsecutiveFailLimit
        /\ attempt \in 0..MaxFailures
    BY <2>1 DEF BreakerInv
  <2>4. consecutive' \in 0..ConsecutiveFailLimit
    BY <2>2, <2>3, BreakerNumbers
  <2>5. attempt' \in 0..MaxFailures /\ attempt' - 1 = attempt /\ attempt' > 0 /\ attempt \in Nat
    BY <2>2, <2>3, BreakerNumbers
  <2>6. CASE consecutive + 1 >= ConsecutiveFailLimit
    <3>1. source' = "cooling down" /\ tripped' = TRUE /\ delay' = delay
      BY <1>1, <2>6 DEF SourceFails
    <3> QED BY <2>1, <2>4, <2>5, <3>1 DEF BreakerInv, WaitsBeforeRetry
  <2>7. CASE ~ (consecutive + 1 >= ConsecutiveFailLimit)
    <3>1. source' = "backing off" /\ tripped' = tripped /\ delay' = Backoff(attempt)
      BY <1>1, <2>7 DEF SourceFails
    <3>2. consecutive' < ConsecutiveFailLimit
      BY <2>2, <2>3, <2>7, BreakerNumbers
    <3>3. WaitsBeforeRetry'
      BY <2>5, <3>1, DelayBounded DEF WaitsBeforeRetry, Half, ShiftLeft
    <3>4. delay' \in -Half..CooldownMax
      BY <2>5, <3>1, DelayBounded
    <3> QED BY <2>1, <2>4, <2>5, <3>1, <3>2, <3>3, <3>4 DEF BreakerInv
  <2> QED BY <2>6, <2>7
<1>2. ASSUME SourceReturns \/ CooldownEnds PROVE BreakerInv'
  <2>1. /\ source' \in {"over", "running"} /\ consecutive' = 0 /\ tripped' = FALSE
        /\ UNCHANGED <<cancelled, attempt, delay>>
    BY <1>2 DEF SourceReturns, CooldownEnds
  <2>2. consecutive' \in 0..ConsecutiveFailLimit /\ consecutive' < ConsecutiveFailLimit
    BY <2>1, BreakerNumbers
  <2> QED BY <2>1, <2>2 DEF BreakerInv, WaitsBeforeRetry
<1>3. ASSUME BackoffEnds \/ Cancel \/ BreakerStops \/ UNCHANGED breakerVars PROVE BreakerInv'
  BY <1>3 DEF BackoffEnds, Cancel, BreakerStops, breakerVars, BreakerInv,
               WaitsBeforeRetry
<1> QED BY <1>1, <1>2, <1>3 DEF BreakerNext

LEMMA BreakerTyped == BreakerInv => BreakerTypeOK
BY DEF BreakerInv, BreakerTypeOK, Half
=============================================================================
