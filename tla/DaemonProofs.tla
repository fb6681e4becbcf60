---------------------------- MODULE DaemonProofs ----------------------------
(***************************************************************************)
(* Proofs about the services of the daemon - the hub of the gateway        *)
(* (GatewayHub), the watchers of a mailbox (MailWatch), the cooldowns of   *)
(* the proactive engine (ProactiveEngine) and the calendar's trigger       *)
(* (CalendarTrigger) - and about the files that several programs rewrite   *)
(* without a lock - the settings (ConfigFile), the scheduled jobs          *)
(* (CronJobs), the rules (RuleFile), a skill's directory (SkillStore) and  *)
(* the local model (ModelDownload) -, for any number of clients, mails,    *)
(* rules, events, meetings, programs, names and edits, and any capacity of *)
(* a channel or a page; and what these and StoreProofs show in the         *)
(* behaviours of MCDaemon, where any part may run.                         *)
(***************************************************************************)
EXTENDS MCDaemon, StoreProofs

-----------------------------------------------------------------------------
(* The hub *)

\* The types the argument needs.
HubTypes ==
  /\ clients \subseteq Clients /\ closed \subseteq Clients
  /\ wg \in Int
  /\ register \in Seq(Clients) /\ unregister \in Seq(Clients)
  /\ reader \in [Clients -> {"away", "reading", "posting", "leaving", "gone"}]

\* A client that waits to be registered is new to the hub, and waits once; one
\* that has not connected is unknown to it.
RegisterInv ==
  /\ \A i \in 1..Len(register) :
       /\ register[i] \notin clients \union closed
       /\ reader[register[i]] # "away"
       /\ \A j \in 1..Len(register) : register[i] = register[j] => i = j
  /\ \A c \in Clients : reader[c] = "away" => c \notin clients \union closed

OpenInv == HubTypes /\ RegisterInv /\ ListedIsOpen

-----------------------------------------------------------------------------
LEMMA ClientsFinite == ASSUME NEW S, S \subseteq Clients PROVE IsFiniteSet(S)
  BY HubConfig, FS_Subset

LEMMA HubBegins == HubInit => OpenInv
<1>1. Cardinality({}) = 0
  BY FS_EmptySet
<1> QED BY <1>1 DEF HubInit, OpenInv, HubTypes, RegisterInv, ListedIsOpen

\* Steps that leave the hub's own state and the requests to it alone.
LEMMA PumpsOnly ==
  ASSUME OpenInv, reader' \in [Clients -> {"away", "reading", "posting", "leaving", "gone"}],
         \A c \in Clients : (reader[c] = "away") = (reader'[c] = "away"),
         UNCHANGED <<clients, closed, wg, register>>, unregister' \in Seq(Clients)
  PROVE  OpenInv'
<1>1. \A i \in 1..Len(register) : register[i] \in Clients
  BY DEF OpenInv, HubTypes
<1> QED BY <1>1 DEF OpenInv, HubTypes, RegisterInv, ListedIsOpen

\* Clients that leave the set are those whose queue is closed at the same time.
LEMMA SignOff ==
  ASSUME OpenInv, NEW S, S \subseteq clients, clients' = clients \ S, closed' = closed \union S,
         wg' = wg - Cardinality(S), UNCHANGED <<register, reader>>, unregister' \in Seq(Clients)
  PROVE  OpenInv'
<1>1. IsFiniteSet(clients) /\ IsFiniteSet(S)
  BY ClientsFinite DEF OpenInv, HubTypes
<1>2. Cardinality(clients \ S) = Cardinality(clients) - Cardinality(S)
  <2>1. clients \intersect S = S
    OBVIOUS
  <2>2. Cardinality(clients \ S) = Cardinality(clients) - Cardinality(clients \intersect S)
    BY <1>1, FS_Difference
  <2> QED BY <2>1, <2>2
<1>3. Cardinality(S) \in Nat /\ Cardinality(clients) \in Nat
  BY <1>1, FS_CardinalityType
<1>4. ListedIsOpen'
  BY <1>2, <1>3 DEF OpenInv, ListedIsOpen
<1>5. HubTypes'
  BY <1>3 DEF OpenInv, HubTypes
<1>6. RegisterInv'
  BY DEF OpenInv, RegisterInv
<1> QED BY <1>4, <1>5, <1>6 DEF OpenInv

LEMMA HubStep == OpenInv /\ [HubNext]_hubVars => OpenInv'
<1> SUFFICES ASSUME OpenInv, [HubNext]_hubVars PROVE OpenInv'
  OBVIOUS
<1> USE DEF channels, pumps, hubHistory
<1>0. HubTypes /\ RegisterInv /\ ListedIsOpen
  BY DEF OpenInv
<1>1. ASSUME NEW c \in Clients, Connect(c) PROVE OpenInv'
  <2>1. register' = Append(register, c) /\ reader' = [reader EXCEPT ![c] = "reading"]
        /\ reader[c] = "away" /\ UNCHANGED <<clients, closed, wg, unregister>>
    BY <1>1 DEF Connect
  <2>2. HubTypes'
    BY <1>0, <2>1 DEF HubTypes
  <2>3. \A i \in 1..Len(register) : register[i] # c /\ register[i] \in Clients
    BY <1>0, <2>1 DEF RegisterInv, HubTypes
  <2>4. /\ Len(register') = Len(register) + 1
        /\ register'[Len(register) + 1] = c
        /\ \A i \in 1..Len(register) : register'[i] = register[i]
    BY <1>0, <2>1 DEF HubTypes
  <2>5. RegisterInv'
    <3>1. ASSUME NEW i \in 1..Len(register')
          PROVE  /\ register'[i] \notin clients' \union closed'
                 /\ reader'[register'[i]] # "away"
                 /\ \A j \in 1..Len(register') : register'[i] = register'[j] => i = j
      <4>1. Len(register) \in Nat
        BY <1>0 DEF HubTypes
      <4>2. \A j \in 1..Len(register') : j \in 1..Len(register) \/ j = Len(register) + 1
        BY <2>4, <4>1
      <4>3. CASE i = Len(register) + 1
        BY <1>0, <2>1, <2>3, <2>4, <4>2, <4>3 DEF RegisterInv, HubTypes
      <4>4. CASE i \in 1..Len(register)
        BY <1>0, <2>1, <2>3, <2>4, <4>2, <4>4 DEF RegisterInv, HubTypes
      <4> QED BY <4>2, <4>3, <4>4
    <3>2. \A d \in Clients : reader'[d] = "away" => d \notin clients' \union closed'
      BY <1>0, <2>1 DEF RegisterInv, HubTypes
    <3> QED BY <3>1, <3>2 DEF RegisterInv
  <2>6. ListedIsOpen'
    BY <1>0, <2>1 DEF ListedIsOpen
  <2> QED BY <2>2, <2>5, <2>6 DEF OpenInv
<1>2. ASSUME NEW c \in Clients,
             \/ ConnectionBreaks(c) \/ ReadMessage(c) \/ Post(c)
             \/ ReadFails(c) \/ Write(c) \/ WriterEnds(c)
      PROVE  OpenInv'
  BY <1>0, <1>2, PumpsOnly
     DEF ConnectionBreaks, ReadMessage, Post, ReadFails, Write, WriterEnds, HubTypes
<1>3. ASSUME NEW c \in Clients, Leave(c) PROVE OpenInv'
  BY <1>0, <1>3, PumpsOnly DEF Leave, HubTypes
<1>4. CASE TakeRegister
  <2> DEFINE c == Head(register)
  <2>1. /\ register # <<>> /\ register' = Tail(register)
        /\ clients' = clients \union {c} /\ wg' = wg + 1
        /\ UNCHANGED <<closed, unregister, reader>>
    BY <1>4 DEF TakeRegister
  <2>2. /\ c = register[1] /\ 1 \in 1..Len(register) /\ c \in Clients
        /\ Tail(register) \in Seq(Clients)
    BY <1>0, <2>1 DEF HubTypes
  <2>3. c \notin clients \union closed /\ reader[c] # "away"
    BY <1>0, <2>2 DEF RegisterInv
  <2>4. Cardinality(clients \union {c}) = Cardinality(clients) + 1
    <3>1. IsFiniteSet(clients)
      BY <1>0, ClientsFinite DEF HubTypes
    <3> QED BY <2>3, <3>1, FS_AddElement
  <2>5. ListedIsOpen'
    BY <1>0, <2>1, <2>3, <2>4 DEF ListedIsOpen
  <2>6. HubTypes'
    BY <1>0, <2>1, <2>2 DEF HubTypes
  <2>7. /\ Len(register') = Len(register) - 1 /\ Len(register) \in Nat
        /\ \A i \in 1..Len(register') : register'[i] = register[i + 1] /\ i + 1 \in 2..Len(register)
    BY <1>0, <2>1 DEF HubTypes
  <2>8. RegisterInv'
    <3>1. ASSUME NEW i \in 1..Len(register')
          PROVE  /\ register'[i] \notin clients' \union closed'
                 /\ reader'[register'[i]] # "away"
                 /\ \A j \in 1..Len(register') : register'[i] = register'[j] => i = j
      <4>1. register'[i] = register[i + 1] /\ i + 1 \in 1..Len(register) /\ i + 1 # 1
        BY <2>7
      <4>2. register[i + 1] # c
        BY <1>0, <2>2, <4>1 DEF RegisterInv
      <4>3. ASSUME NEW j \in 1..Len(register'), register'[i] = register'[j] PROVE i = j
        <5>1. register'[j] = register[j + 1] /\ j + 1 \in 1..Len(register)
          BY <2>7
        <5>2. i + 1 = j + 1
          BY <1>0, <4>1, <4>3, <5>1 DEF RegisterInv
        <5> QED BY <2>7, <5>2
      <4> QED BY <1>0, <2>1, <4>1, <4>2, <4>3 DEF RegisterInv
    <3>2. \A d \in Clients : reader'[d] = "away" => d \notin clients' \union closed'
      BY <1>0, <2>1, <2>3 DEF RegisterInv
    <3> QED BY <3>1, <3>2 DEF RegisterInv
  <2> QED BY <2>5, <2>6, <2>8 DEF OpenInv
<1>5. CASE TakeUnregister
  <2> DEFINE c == Head(unregister)
  <2>1. unregister # <<>> /\ unregister' = Tail(unregister) /\ UNCHANGED <<register, reader>>
    BY <1>5 DEF TakeUnregister
  <2>2. Tail(unregister) \in Seq(Clients)
    BY <1>0, <2>1 DEF HubTypes
  <2>3. CASE c \in clients
    <3>1. clients' = clients \ {c} /\ wg' = wg - 1 /\ closed' = closed \union {c}
      BY <1>5, <2>3 DEF TakeUnregister
    <3>2. Cardinality({c}) = 1
      BY FS_Singleton
    <3> HIDE DEF c
    <3> QED BY <2>1, <2>2, <2>3, <3>1, <3>2, SignOff
  <2>4. CASE c \notin clients
    <3>1. UNCHANGED <<clients, wg, closed>>
      BY <1>5, <2>4 DEF TakeUnregister
    <3> QED BY <1>0, <2>1, <2>2, <3>1, PumpsOnly DEF HubTypes
  <2> QED BY <2>3, <2>4
<1>6. CASE TakeBroadcast
  BY <1>0, <1>6, SignOff DEF TakeBroadcast, Slow, HubTypes
<1>7. CASE TakeShutdown
  <2>1. clients' = clients \ clients
    BY <1>7 DEF TakeShutdown
  <2> QED BY <1>0, <1>7, <2>1, SignOff DEF TakeShutdown, HubTypes
<1>8. CASE CallStop \/ StopReturns \/ UNCHANGED hubVars
  BY <1>0, <1>8, PumpsOnly DEF CallStop, StopReturns, hubVars, HubTypes
<1> QED BY <1>1, <1>2, <1>3, <1>4, <1>5, <1>6, <1>7, <1>8 DEF HubNext, Pump

-----------------------------------------------------------------------------
\* Through slow clients that unregister later, registrations that arrive late and
\* the shutdown, a listed client's queue is open and wg counts the listed clients.
THEOREM QueuesCloseOnce == HubSpec => []ListedIsOpen
<1>1. OpenInv => ListedIsOpen
  BY DEF OpenInv
<1> QED BY <1>1, HubBegins, HubStep, PTL DEF HubSpec

-----------------------------------------------------------------------------
(* What the clients hear *)

Received(c) == got[c] \o send[c]

\* A listed client has got, or has queued, all that was broadcast since it was listed, a
\* client that was dropped or has left the first part of it; others have nothing.
HeardInv ==
  /\ \A c \in clients \union closed :
       /\ since[c] + Len(Received(c)) <= Len(log)
       /\ \A i \in 1..Len(Received(c)) : Received(c)[i] = log[since[c] + i]
       /\ c \in clients => since[c] + Len(Received(c)) = Len(log)
  /\ \A c \in Clients \ (clients \union closed) : send[c] = <<>> /\ got[c] = <<>>

\* A client that has left still waits to be signed off, was, or was asked to be too early.
LeftInv == \A c \in Clients : reader[c] = "gone" =>
  c \in closed \union raced \/ \E i \in 1..Len(unregister) : unregister[i] = c

HubInv == OpenInv /\ HubTypeOK /\ HeardInv /\ LeftInv

LEMMA ReceivedTyped ==
  ASSUME HubTypeOK, NEW c \in Clients
  PROVE  /\ Received(c) \in Seq(Nat) /\ Len(Received(c)) \in Nat
         /\ since[c] \in Nat /\ Len(log) \in Nat /\ log \in Seq(Nat)
<1>1. got[c] \in Seq(Nat) /\ send[c] \in Seq(Nat) /\ since[c] \in Nat /\ log \in Seq(Nat)
  BY DEF HubTypeOK
<1>2. Received(c) \in Seq(Nat)
  BY <1>1, ConcatProperties DEF Received
<1> QED BY <1>1, <1>2

LEMMA AppendBehind ==
  ASSUME NEW s \in Seq(Nat), NEW t \in Seq(Nat), NEW m \in Nat
  PROVE  s \o Append(t, m) = Append(s \o t, m)
<1>1. s \o t \in Seq(Nat) /\ <<m>> \in Seq(Nat)
  BY ConcatProperties
<1>2. Append(t, m) = t \o <<m>>
  BY AppendIsConcat
<1>3. Append(s \o t, m) = (s \o t) \o <<m>>
  BY <1>1, AppendIsConcat
<1>4. (s \o t) \o <<m>> = s \o (t \o <<m>>)
  BY <1>1, ConcatAssociative
<1> QED BY <1>2, <1>3, <1>4

LEMMA HearStarts == HubInit => HubInv
<1> SUFFICES ASSUME HubInit PROVE HubInv
  OBVIOUS
<1>1. OpenInv
  BY HubBegins
<1>2. HubTypeOK
  BY <1>1 DEF HubInit, HubTypeOK, OpenInv, HubTypes
<1>3. HeardInv /\ LeftInv
  BY DEF HubInit, HeardInv, LeftInv
<1> QED BY <1>1, <1>2, <1>3 DEF HubInv

LEMMA HubTypeStep ==
  ASSUME OpenInv, OpenInv', HubTypeOK, [HubNext]_hubVars
  PROVE  HubTypeOK'
<1> USE DEF channels, pumps, hubHistory
<1>0. HubTypes /\ HubTypes'
  BY DEF OpenInv
<1>1. ASSUME NEW c \in Clients,
             \/ Connect(c) \/ ConnectionBreaks(c) \/ ReadMessage(c) \/ ReadFails(c) \/ Leave(c)
             \/ WriterEnds(c)
      PROVE  HubTypeOK'
  <2>1. up' \subseteq Clients
    BY <1>1 DEF HubTypeOK, Connect, ConnectionBreaks, ReadMessage, ReadFails, Leave, WriterEnds
  <2>2. writer' \in [Clients -> {"away", "writing", "gone"}]
    BY <1>1 DEF HubTypeOK, Connect, ConnectionBreaks, ReadMessage, ReadFails, Leave, WriterEnds
  <2>4. held' \in [Clients -> Nat] /\ sent' \in Nat
    <3>1. CASE ReadMessage(c)
      BY <3>1 DEF HubTypeOK, ReadMessage
    <3>2. CASE ~ReadMessage(c)
      BY <1>1, <3>2 DEF HubTypeOK, Connect, ConnectionBreaks, ReadFails, Leave, WriterEnds
    <3> QED BY <3>1, <3>2
  <2>3. UNCHANGED <<hub, broadcast, stop, send, log, since, got, raced>>
    BY <1>1 DEF Connect, ConnectionBreaks, ReadMessage, ReadFails, Leave, WriterEnds
  <2> QED BY <1>0, <2>1, <2>2, <2>3, <2>4 DEF HubTypeOK, HubTypes
<1>2. ASSUME NEW c \in Clients, Post(c) PROVE HubTypeOK'
  <2>1. held' \in [Clients -> Nat] /\ broadcast' \in Seq(Nat)
    BY <1>2 DEF HubTypeOK, Post
  <2> QED BY <1>0, <1>2, <2>1 DEF HubTypeOK, HubTypes, Post
<1>3. ASSUME NEW c \in Clients, Write(c) PROVE HubTypeOK'
  <2>1. got[c] \in Seq(Nat) /\ send[c] \in Seq(Nat)
    BY DEF HubTypeOK
  <2>2. got[c] \o send[c] \in Seq(Nat)
    BY <2>1, ConcatProperties
  <2>3. got' \in [Clients -> Seq(Nat)] /\ send' \in [Clients -> Seq(Nat)]
    BY <1>3, <2>2 DEF HubTypeOK, Write
  <2> QED BY <1>0, <1>3, <2>3 DEF HubTypeOK, HubTypes, Write
<1>4. CASE TakeRegister
  <2>1. since' \in [Clients -> Nat]
    BY <1>4 DEF HubTypeOK, TakeRegister
  <2> QED BY <1>0, <1>4, <2>1 DEF HubTypeOK, HubTypes, TakeRegister
<1>5. CASE TakeUnregister
  <2>1. Head(unregister) \in Clients
    BY <1>5 DEF HubTypeOK, TakeUnregister
  <2>2. raced' \subseteq Clients
    BY <1>5, <2>1 DEF HubTypeOK, TakeUnregister
  <2> QED BY <1>0, <1>5, <2>2 DEF HubTypeOK, HubTypes, TakeUnregister
<1>6. CASE TakeBroadcast
  <2>1. Head(broadcast) \in Nat /\ broadcast' \in Seq(Nat) /\ log' \in Seq(Nat)
    BY <1>6 DEF HubTypeOK, TakeBroadcast
  <2>2. \A c \in Clients : send[c] \in Seq(Nat) /\ Append(send[c], Head(broadcast)) \in Seq(Nat)
    BY <2>1 DEF HubTypeOK
  <2>3. send' \in [Clients -> Seq(Nat)]
    BY <1>6, <2>2 DEF TakeBroadcast
  <2> QED BY <1>0, <1>6, <2>1, <2>3 DEF HubTypeOK, HubTypes, TakeBroadcast
<1>7. CASE TakeShutdown \/ CallStop \/ StopReturns \/ UNCHANGED hubVars
  BY <1>0, <1>7 DEF HubTypeOK, HubTypes, TakeShutdown, CallStop, StopReturns, hubVars
<1> QED BY <1>1, <1>2, <1>3, <1>4, <1>5, <1>6, <1>7 DEF HubNext, Pump

\* The queues and the listed clients stay as they are.
LEMMA NobodyHears ==
  ASSUME HeardInv, UNCHANGED <<clients, closed, log, since, send, got>>
  PROVE  HeardInv'
BY DEF HeardInv, Received

\* Clients leave the list when their queue is closed: what they have is what they had.
LEMMA SignedOffHear ==
  ASSUME HubTypeOK, HeardInv, clients' \subseteq clients, closed \subseteq closed',
         clients' \union closed' = clients \union closed,
         UNCHANGED <<log, since, send, got>>
  PROVE  HeardInv'
BY DEF HeardInv, Received

\* A broadcast goes to every listed client that has room, and the others are dropped.
LEMMA BroadcastHeard ==
  ASSUME HubTypeOK, HeardInv, ListedIsOpen, TakeBroadcast
  PROVE  HeardInv'
<1> DEFINE m == Head(broadcast)
<1>1. /\ broadcast # <<>> /\ clients' = clients \ Slow /\ closed' = closed \union Slow
      /\ log' = Append(log, m) /\ since' = since /\ got' = got
      /\ send' = [c \in Clients |-> IF c \in clients /\ Len(send[c]) < SendCap
                                    THEN Append(send[c], m) ELSE send[c]]
  BY DEF TakeBroadcast
<1>2. /\ Slow \subseteq clients /\ clients \subseteq Clients /\ closed \subseteq Clients
      /\ clients' \union closed' = clients \union closed /\ SendCap \in Nat
      /\ clients \intersect closed = {}
  BY <1>1, HubConfig DEF Slow, HubTypeOK, ListedIsOpen
<1>3. m \in Nat
  BY <1>1 DEF HubTypeOK
<1> HIDE DEF m
<1>4. /\ log \in Seq(Nat) /\ Len(log') = Len(log) + 1 /\ log'[Len(log) + 1] = m
      /\ \A i \in 1..Len(log) : log'[i] = log[i]
  BY <1>1, <1>3 DEF HubTypeOK
<1>5. ASSUME NEW c \in clients \union closed
      PROVE  /\ since'[c] + Len(Received(c)') <= Len(log')
             /\ \A i \in 1..Len(Received(c)') : Received(c)'[i] = log'[since'[c] + i]
             /\ c \in clients' => since'[c] + Len(Received(c)') = Len(log')
  <2>0. c \in Clients
    BY <1>2
  <2>1. /\ since[c] + Len(Received(c)) <= Len(log)
        /\ \A i \in 1..Len(Received(c)) : Received(c)[i] = log[since[c] + i]
        /\ c \in clients => since[c] + Len(Received(c)) = Len(log)
    BY DEF HeardInv
  <2>2. /\ Received(c) \in Seq(Nat) /\ Len(Received(c)) \in Nat
        /\ since[c] \in Nat /\ Len(log) \in Nat
    BY <2>0, ReceivedTyped
  <2>3. \A i \in 1..Len(Received(c)) : since[c] + i \in 1..Len(log)
    BY <2>1, <2>2
  <2>4. \A i \in 1..Len(Received(c)) : Received(c)[i] = log'[since[c] + i]
    BY <1>4, <2>1, <2>3
  <2>5. CASE c \in clients /\ Len(send[c]) < SendCap
    <3>1. /\ got[c] \in Seq(Nat) /\ send[c] \in Seq(Nat) /\ send'[c] = Append(send[c], m)
      BY <1>1, <2>0, <2>5 DEF HubTypeOK
    <3>2. got[c] \o Append(send[c], m) = Append(got[c] \o send[c], m)
      BY <1>3, <3>1, AppendBehind
    <3>3. Received(c)' = Append(Received(c), m)
      BY <1>1, <3>1, <3>2 DEF Received
    <3>4. /\ Len(Received(c)') = Len(Received(c)) + 1
          /\ Received(c)'[Len(Received(c)) + 1] = m
          /\ \A i \in 1..Len(Received(c)) : Received(c)'[i] = Received(c)[i]
      BY <1>3, <2>2, <3>3
    <3>5. since[c] + Len(Received(c)) = Len(log)
      BY <2>1, <2>5
    <3>6. since[c] + (Len(Received(c)) + 1) = Len(log) + 1
      BY <2>2, <3>5
    <3>7. ASSUME NEW i \in 1..(Len(Received(c)) + 1)
          PROVE  Received(c)'[i] = log'[since[c] + i]
      <4>1. i \in 1..Len(Received(c)) \/ i = Len(Received(c)) + 1
        BY <2>2
      <4> QED BY <1>4, <2>4, <3>4, <3>6, <4>1
    <3>8. Len(log') = Len(log) + 1 /\ since' = since
      BY <1>1, <1>4
    <3> HIDE DEF Received
    <3> QED BY <2>2, <3>4, <3>6, <3>7, <3>8
  <2>6. CASE ~(c \in clients /\ Len(send[c]) < SendCap)
    <3>1. send'[c] = send[c]
      BY <1>1, <2>0, <2>6
    <3>2. Received(c)' = Received(c)
      BY <1>1, <3>1 DEF Received
    <3>3. c \notin clients'
      <4>1. send[c] \in Seq(Nat)
        BY <2>0 DEF HubTypeOK
      <4>2. Len(send[c]) \in Nat
        BY <4>1
      <4>3. c \in clients => Len(send[c]) >= SendCap
        BY <1>2, <2>6, <4>2
      <4> QED BY <1>1, <4>3 DEF Slow
    <3>4. Len(log') = Len(log) + 1 /\ since' = since
      BY <1>1, <1>4
    <3>5. since[c] + Len(Received(c)) <= Len(log) + 1
      BY <2>1, <2>2
    <3> QED BY <2>4, <3>2, <3>3, <3>4, <3>5
  <2> QED BY <2>5, <2>6
<1>6. \A c \in Clients \ (clients \union closed) : send'[c] = <<>> /\ got'[c] = <<>>
  BY <1>1 DEF HeardInv
<1> QED BY <1>1, <1>2, <1>5, <1>6 DEF HeardInv

LEMMA HearMoves ==
  ASSUME HubInv, [HubNext]_hubVars
  PROVE  HeardInv' /\ LeftInv'
<1> USE DEF channels, pumps, hubHistory
<1>0. OpenInv /\ HubTypes /\ RegisterInv /\ ListedIsOpen /\ HubTypeOK /\ HeardInv /\ LeftInv
  BY DEF HubInv, OpenInv
<1>2. ASSUME NEW c \in Clients,
             Connect(c) \/ ConnectionBreaks(c) \/ ReadMessage(c) \/ Post(c) \/ ReadFails(c)
             \/ WriterEnds(c)
      PROVE  HeardInv' /\ LeftInv'
  <2>1. UNCHANGED <<clients, closed, log, since, send, got, unregister, raced>>
    BY <1>2 DEF Connect, ConnectionBreaks, ReadMessage, Post, ReadFails, WriterEnds
  <2>2. \A d \in Clients : reader'[d] = "gone" => reader[d] = "gone"
    BY <1>0, <1>2 DEF HubTypes, Connect, ConnectionBreaks, ReadMessage, Post, ReadFails, WriterEnds
  <2>3. LeftInv'
    BY <1>0, <2>1, <2>2 DEF LeftInv
  <2> QED BY <1>0, <2>1, <2>3, NobodyHears
<1>3. ASSUME NEW c \in Clients, Leave(c) PROVE HeardInv' /\ LeftInv'
  <2>1. /\ UNCHANGED <<clients, closed, log, since, send, got, raced>>
        /\ unregister' = Append(unregister, c) /\ reader' = [reader EXCEPT ![c] = "gone"]
    BY <1>3 DEF Leave
  <2>2. /\ Len(unregister') = Len(unregister) + 1 /\ unregister'[Len(unregister) + 1] = c
        /\ \A i \in 1..Len(unregister) : unregister'[i] = unregister[i]
        /\ Len(unregister) \in Nat
    BY <1>0, <2>1 DEF HubTypes
  <2>3. ASSUME NEW d \in Clients, reader'[d] = "gone"
        PROVE  d \in closed \union raced \/ \E i \in 1..Len(unregister') : unregister'[i] = d
    <3>1. CASE d = c
      <4>1. Len(unregister) + 1 \in 1..Len(unregister')
        BY <2>2
      <4> QED BY <2>2, <3>1, <4>1
    <3>2. CASE d # c
      <4>1. reader[d] = "gone"
        BY <1>0, <2>1, <2>3, <3>2 DEF HubTypes
      <4>2. d \in closed \union raced \/ \E i \in 1..Len(unregister) : unregister[i] = d
        BY <1>0, <4>1 DEF LeftInv
      <4>3. \A i \in 1..Len(unregister) : i \in 1..Len(unregister')
        BY <2>2
      <4> QED BY <2>2, <4>2, <4>3
    <3> QED BY <3>1, <3>2
  <2>4. LeftInv'
    BY <2>1, <2>3 DEF LeftInv
  <2> QED BY <1>0, <2>1, <2>4, NobodyHears
<1>4. ASSUME NEW c \in Clients, Write(c) PROVE HeardInv' /\ LeftInv'
  <2>1. /\ UNCHANGED <<clients, closed, log, since, raced, unregister, reader>>
        /\ got' = [got EXCEPT ![c] = got[c] \o send[c]] /\ send' = [send EXCEPT ![c] = <<>>]
    BY <1>4 DEF Write
  <2>2. got'[c] = got[c] \o send[c] /\ send'[c] = <<>>
    BY <1>0, <2>1 DEF HubTypeOK
  <2>3. Received(c)' = Received(c)
    <3>1. Received(c) \in Seq(Nat)
      BY <1>0, ReceivedTyped
    <3>2. Received(c)' = Received(c) \o <<>>
      BY <2>2 DEF Received
    <3> QED BY <3>1, <3>2, ConcatEmptySeq
  <2>4. \A d \in Clients : d # c => got'[d] = got[d] /\ send'[d] = send[d]
    BY <1>0, <2>1 DEF HubTypeOK
  <2>5. \A d \in Clients : Received(d)' = Received(d)
    BY <2>3, <2>4 DEF Received
  <2>6. c \in clients \union closed
    BY <1>0, <1>4 DEF HeardInv, Write
  <2>7. HeardInv'
    <3>1. clients \union closed \subseteq Clients
      BY <1>0 DEF HubTypeOK
    <3>2. \A d \in clients \union closed : Received(d)' = Received(d)
      BY <2>5, <3>1
    <3> HIDE DEF Received
    <3>3. \A d \in clients \union closed :
            /\ since[d] + Len(Received(d)') <= Len(log)
            /\ \A i \in 1..Len(Received(d)') : Received(d)'[i] = log[since[d] + i]
            /\ d \in clients => since[d] + Len(Received(d)') = Len(log)
      BY <1>0, <3>2 DEF HeardInv
    <3>4. \A d \in Clients \ (clients \union closed) : send'[d] = <<>> /\ got'[d] = <<>>
      BY <1>0, <2>4, <2>6 DEF HeardInv
    <3> QED BY <2>1, <3>3, <3>4 DEF HeardInv
  <2>8. LeftInv'
    BY <1>0, <2>1 DEF LeftInv
  <2> QED BY <2>7, <2>8
<1>5. CASE TakeRegister
  <2>0. PICK c : c = Head(register)
    OBVIOUS
  <2>1. /\ register # <<>> /\ clients' = clients \union {c}
        /\ since' = [since EXCEPT ![c] = Len(log)]
        /\ UNCHANGED <<closed, unregister, reader, send, log, got, raced>>
    BY <1>5, <2>0 DEF TakeRegister
  <2>2. c = register[1] /\ 1 \in 1..Len(register) /\ c \in Clients
    BY <1>0, <2>0, <2>1 DEF HubTypes
  <2>3. c \notin clients \union closed
    BY <1>0, <2>2 DEF RegisterInv
  <2>4. send[c] = <<>> /\ got[c] = <<>>
    BY <1>0, <2>2, <2>3 DEF HeardInv
  <2>5. Received(c)' = <<>> /\ since'[c] = Len(log) /\ Len(log) \in Nat
    <3>1. <<>> \o <<>> = <<>>
      OBVIOUS
    <3>2. Received(c)' = <<>>
      <4>1. got' = got /\ send' = send
        BY <2>1
      <4>2. Received(c)' = Received(c)
        BY <4>1 DEF Received
      <4>3. Received(c) = <<>> \o <<>>
        BY <2>4 DEF Received
      <4> QED BY <3>1, <4>2, <4>3
    <3>3. since'[c] = Len(log)
      BY <1>0, <2>1, <2>2 DEF HubTypeOK
    <3>4. Len(log) \in Nat
      BY <1>0, <2>2, ReceivedTyped
    <3> QED BY <3>2, <3>3, <3>4
  <2>6. \A d \in Clients : d # c => Received(d)' = Received(d) /\ since'[d] = since[d]
    BY <1>0, <2>1 DEF Received, HubTypeOK
  <2>7. since'[c] + Len(Received(c)') = Len(log) /\ Len(Received(c)') = 0
    BY <2>5
  <2>8. /\ Len(log)' = Len(log)
        /\ since'[c] + Len(Received(c)') <= Len(log)
        /\ \A i \in 1..Len(Received(c)') : Received(c)'[i] = log'[since'[c] + i]
    BY <2>1, <2>5, <2>7
  <2>9. /\ clients' \union closed' = clients \union closed \union {c}
        /\ clients \union closed \subseteq Clients
    BY <1>0, <2>1 DEF HubTypeOK
  <2>10. HeardInv'
    <3>1. ASSUME NEW d \in clients \union closed
          PROVE  /\ since'[d] + Len(Received(d)') <= Len(log)
                 /\ \A i \in 1..Len(Received(d)') : Received(d)'[i] = log[since'[d] + i]
                 /\ d \in clients' => since'[d] + Len(Received(d)') = Len(log)
      <4>1. d \in Clients /\ d # c
        BY <2>3, <2>9
      <4>2. Received(d)' = Received(d) /\ since'[d] = since[d] /\ (d \in clients' => d \in clients)
        BY <2>1, <2>6, <4>1
      <4> HIDE DEF Received
      <4> QED BY <1>0, <4>2 DEF HeardInv
    <3>2. \A d \in Clients \ (clients' \union closed') : send'[d] = <<>> /\ got'[d] = <<>>
      BY <1>0, <2>1 DEF HeardInv
    <3> HIDE DEF Received
    <3>3. ASSUME NEW d \in clients' \union closed'
          PROVE  /\ since'[d] + Len(Received(d)') <= Len(log')
                 /\ \A i \in 1..Len(Received(d)') : Received(d)'[i] = log'[since'[d] + i]
                 /\ d \in clients' => since'[d] + Len(Received(d)') = Len(log')
      <4>1. CASE d = c
        BY <2>1, <2>7, <2>8, <4>1
      <4>2. CASE d # c
        BY <2>1, <2>9, <3>1, <4>2
      <4> QED BY <4>1, <4>2
    <3> QED BY <3>2, <3>3 DEF HeardInv
  <2>11. LeftInv'
    BY <1>0, <2>1 DEF LeftInv
  <2> QED BY <2>10, <2>11
<1>6. CASE TakeUnregister
  <2> DEFINE c == Head(unregister)
  <2>1. /\ unregister # <<>> /\ unregister' = Tail(unregister)
        /\ UNCHANGED <<reader, send, log, since, got>>
        /\ \/ /\ c \in clients /\ clients' = clients \ {c} /\ closed' = closed \union {c}
              /\ raced' = raced
           \/ /\ c \notin clients /\ raced' = raced \union {c} /\ clients' = clients
              /\ closed' = closed
    BY <1>6 DEF TakeUnregister
  <2>2. /\ c = unregister[1] /\ Len(unregister) \in Nat \ {0}
        /\ Len(unregister') = Len(unregister) - 1
        /\ \A i \in 1..Len(unregister') : unregister'[i] = unregister[i + 1]
    BY <1>0, <2>1 DEF HubTypes
  <2> HIDE DEF c
  <2>3. HeardInv'
    BY <1>0, <2>1, SignedOffHear
  <2>4. ASSUME NEW d \in Clients, reader'[d] = "gone"
        PROVE  d \in closed' \union raced' \/ \E i \in 1..Len(unregister') : unregister'[i] = d
    <3>1. d \in closed \union raced \/ \E i \in 1..Len(unregister) : unregister[i] = d
      BY <1>0, <2>1, <2>4 DEF LeftInv
    <3>2. d = c => d \in closed' \union raced'
      BY <2>1
    <3>3. ASSUME NEW i \in 1..Len(unregister), unregister[i] = d, d # c
          PROVE  \E j \in 1..Len(unregister') : unregister'[j] = d
      <4>1. i # 1
        BY <2>2, <3>3
      <4>2. i - 1 \in 1..Len(unregister') /\ (i - 1) + 1 = i
        BY <2>2, <4>1
      <4>3. unregister'[i - 1] = d
        BY <2>2, <3>3, <4>2
      <4> QED BY <4>2, <4>3
    <3> QED BY <2>1, <3>1, <3>2, <3>3
  <2> QED BY <2>3, <2>4 DEF LeftInv
<1>7. CASE TakeBroadcast
  <2>1. HeardInv'
    BY <1>0, <1>7, BroadcastHeard
  <2>2. closed \subseteq closed' /\ UNCHANGED <<reader, raced, unregister>>
    BY <1>7 DEF TakeBroadcast
  <2>3. LeftInv'
    BY <1>0, <2>2 DEF LeftInv
  <2> QED BY <2>1, <2>3
<1>8. CASE TakeShutdown
  <2>1. /\ clients' = {} /\ closed' = closed \union clients
        /\ UNCHANGED <<reader, raced, unregister, log, since, send, got>>
    BY <1>8 DEF TakeShutdown
  <2>2. HeardInv'
    BY <1>0, <2>1, SignedOffHear
  <2>3. LeftInv'
    BY <1>0, <2>1 DEF LeftInv
  <2> QED BY <2>2, <2>3
<1>9. CASE CallStop \/ StopReturns \/ UNCHANGED hubVars
  <2>1. UNCHANGED <<clients, closed, log, since, send, got, unregister, raced, reader>>
    BY <1>9 DEF CallStop, StopReturns, hubVars
  <2>2. LeftInv'
    BY <1>0, <2>1 DEF LeftInv
  <2> QED BY <1>0, <2>1, <2>2, NobodyHears
<1> QED BY <1>2, <1>3, <1>4, <1>5, <1>6, <1>7, <1>8, <1>9 DEF HubNext, Pump

LEMMA HearStep == HubInv /\ [HubNext]_hubVars => HubInv'
<1> SUFFICES ASSUME HubInv, [HubNext]_hubVars PROVE HubInv'
  OBVIOUS
<1>1. OpenInv /\ HubTypeOK
  BY DEF HubInv
<1>2. OpenInv'
  BY <1>1, HubStep
<1>3. HubTypeOK'
  BY <1>1, <1>2, HubTypeStep
<1> QED BY <1>2, <1>3, HearMoves DEF HubInv

\* Whatever the clients, the hub and the shutdown do in whatever order, a listed client has
\* got or has queued all that was broadcast since it was listed, in order, and a client
\* that has left stays listed only if the hub served its two requests in the wrong order.
THEOREM ListedMissNothing == HubSpec => []ListedHearAll
<1>1. HubInv => ListedHearAll
  <2> SUFFICES ASSUME HubInv PROVE ListedHearAll
    OBVIOUS
  <2>0. ListedIsOpen /\ HubTypeOK /\ HeardInv /\ LeftInv
    BY DEF HubInv, OpenInv
  <2>1. ASSUME NEW c \in Clients, c \in clients \union closed
        PROVE  LET mine == SubSeq(log, since[c] + 1, Len(log))
                   received == got[c] \o send[c] IN
               /\ Len(received) <= Len(mine) /\ received = SubSeq(mine, 1, Len(received))
               /\ c \in clients => received = mine
    <3> DEFINE mine == SubSeq(log, since[c] + 1, Len(log))
               r == Received(c)
    <3>1. /\ r \in Seq(Nat) /\ Len(r) \in Nat
          /\ since[c] \in Nat /\ Len(log) \in Nat /\ log \in Seq(Nat)
      BY <2>0, ReceivedTyped
    <3>2. /\ since[c] + Len(r) <= Len(log)
          /\ \A i \in 1..Len(r) : r[i] = log[since[c] + i]
          /\ c \in clients => since[c] + Len(r) = Len(log)
      BY <2>0, <2>1 DEF HeardInv
    <3> HIDE DEF r
    <3>3. /\ mine \in Seq(Nat)
          /\ Len(mine) = IF since[c] + 1 <= Len(log) THEN Len(log) - (since[c] + 1) + 1 ELSE 0
          /\ \A i \in 1 .. Len(log) - (since[c] + 1) + 1 : mine[i] = log[since[c] + 1 + i - 1]
      <4>1. \A i \in (since[c] + 1)..Len(log) : log[i] \in Nat
        BY <3>1
      <4>2. since[c] + 1 \in Int /\ Len(log) \in Int
        BY <3>1
      <4> QED BY <4>1, <4>2, SubSeqProperties
    <3> HIDE DEF mine
    <3>4. Len(mine) = Len(log) - since[c]
      BY <3>1, <3>2, <3>3
    <3>5. ASSUME NEW i \in 1..Len(r) PROVE mine[i] = r[i]
      <4>1. PICK n \in Nat, k \in Nat, l \in Nat : n = Len(r) /\ k = since[c] /\ l = Len(log)
        BY <3>1
      <4>2. k + n <= l /\ i \in 1..n
        BY <3>2, <4>1
      <4>3. i \in 1 .. l - (k + 1) + 1 /\ k + 1 + i - 1 = k + i
        BY <4>2
      <4>4. i \in 1 .. Len(log) - (since[c] + 1) + 1 /\ since[c] + 1 + i - 1 = since[c] + i
        BY <4>1, <4>3
      <4> QED BY <3>2, <3>3, <4>4
    <3>6. Len(r) <= Len(mine)
      BY <3>1, <3>2, <3>4
    <3>7. r = SubSeq(mine, 1, Len(r))
      <4> DEFINE t == SubSeq(mine, 1, Len(r))
      <4>1. \A i \in 1..Len(r) : mine[i] \in Nat
        BY <3>1, <3>5
      <4>2. /\ t \in Seq(Nat) /\ Len(t) = IF 1 <= Len(r) THEN Len(r) - 1 + 1 ELSE 0
            /\ \A i \in 1 .. Len(r) - 1 + 1 : t[i] = mine[1 + i - 1]
        BY <3>1, <4>1, SubSeqProperties
      <4> HIDE DEF t
      <4>3. Len(t) = Len(r)
        BY <3>1, <4>2
      <4>4. ASSUME NEW i \in 1..Len(r) PROVE r[i] = t[i]
        <5>1. i \in 1 .. Len(r) - 1 + 1 /\ 1 + i - 1 = i
          BY <3>1
        <5> QED BY <3>5, <4>2, <5>1
      <4>5. r = t
        BY <3>1, <4>2, <4>3, <4>4, SeqEqual
      <4> QED BY <4>5 DEF t
    <3>8. c \in clients => r = mine
      <4> SUFFICES ASSUME c \in clients PROVE r = mine
        OBVIOUS
      <4>1. Len(r) = Len(mine)
        BY <3>1, <3>2, <3>4
      <4> QED BY <3>1, <3>3, <3>5, <4>1, SeqEqual
    <3> QED BY <3>6, <3>7, <3>8 DEF mine, r, Received
  <2>2. NoGaps
    BY <2>1 DEF NoGaps
  <2>3. GhostsOnlyFromRace
    BY <2>0 DEF GhostsOnlyFromRace, LeftInv, ListedIsOpen, HubTypeOK
  <2> QED BY <2>2, <2>3 DEF ListedHearAll
<1> QED BY <1>1, HearStarts, HearStep, PTL DEF HubSpec

-----------------------------------------------------------------------------
(* The watchers of a mailbox *)

\* What an earlier poll did with a mail.
Covered(m) == m <= baseline \/ m \in stored \union settled \union seen

\* The mails a poll still has to handle are consecutive; over IMAP the ones
\* before them, which include the ones it has handled, were looked at.
PollInv == \A w \in Watchers : \E lo \in 1..(MaxMails + 1), hi \in 0..MaxMails :
  /\ todo[w] = lo..hi
  /\ watch[w] = "handling" /\ backend = "imap" =>
       handled[w] < lo /\ \A m \in 1..(lo - 1) : Covered(m)

\* The cursor a watcher has read is one whose mails were looked at.
ReadInv == \A w \in Watchers :
  /\ watch[w] = "reading" => \A m \in 1..from[w] : Covered(m)
  /\ watch[w] \in {"selected", "reading"} => backend = "imap"

\* Half-way through a mail, the service has stored it, and drafted it once.
StepInv ==
  /\ step # "fetch" => "service" \in Watchers /\ Handling("service") /\ Mail \in stored
  /\ step = "stored" => drafts[Mail] = 0

DraftInv == \A m \in 1..MaxMails : m \notin stored => drafts[m] = 0

\* The types the argument needs.
MailTypes ==
  /\ backend \in Backends
  /\ mails \in 0..MaxMails /\ lastUID \in 0..MaxMails /\ baseline \in 0..MaxMails
  /\ stored \subseteq 1..MaxMails /\ settled \subseteq 1..MaxMails
  /\ seen \subseteq 1..MaxMails /\ botched \subseteq 1..MaxMails
  /\ drafts \in [1..MaxMails -> Nat]
  /\ watch \in [Watchers -> {"waiting", "selected", "reading", "handling"}]
  /\ seenNext \in [Watchers -> 0..(MaxMails + 1)] /\ from \in [Watchers -> 0..MaxMails]
  /\ todo \in [Watchers -> SUBSET (1..MaxMails)]
  /\ handled \in [Watchers -> 0..MaxMails]
  /\ step \in {"fetch", "stored", "drafted"}
  /\ crashes \in 0..MaxCrashes

MailInv ==
  MailTypes /\ PollInv /\ ReadInv /\ StepInv /\ DraftInv /\ NothingPassedOver /\ OneDraftEach

-----------------------------------------------------------------------------
(* The next mail of a poll *)

\* The next mail of consecutive ones is the first over IMAP, the last of a list,
\* and without it the rest is consecutive again.
LEMMA NextOfInterval ==
  ASSUME NEW w \in Watchers, NEW lo \in Nat, NEW hi \in Nat,
         todo[w] = lo..hi, todo[w] # {}
  PROVE  /\ lo <= hi
         /\ backend = "imap" => NextMail(w) = lo /\ todo[w] \ {NextMail(w)} = (lo + 1)..hi
         /\ backend # "imap" => NextMail(w) = hi /\ todo[w] \ {NextMail(w)} = lo..(hi - 1)
<1>1. lo <= hi /\ lo \in todo[w] /\ hi \in todo[w]
  OBVIOUS
<1>2. ASSUME NEW m \in todo[w], \A n \in todo[w] : m <= n PROVE m = lo
  <2>1. m \in lo..hi /\ m <= lo
    BY <1>1, <1>2
  <2> QED BY <2>1
<1>3. ASSUME NEW m \in todo[w], \A n \in todo[w] : m >= n PROVE m = hi
  <2>1. m \in lo..hi /\ m >= hi
    BY <1>1, <1>3
  <2> QED BY <2>1
<1>4. (CHOOSE m \in todo[w] : \A n \in todo[w] : m <= n) = lo
  <2>1. \A n \in todo[w] : lo <= n
    BY <1>1
  <2> QED BY <1>1, <1>2, <2>1
<1>5. (CHOOSE m \in todo[w] : \A n \in todo[w] : m >= n) = hi
  <2>1. \A n \in todo[w] : hi >= n
    BY <1>1
  <2> QED BY <1>1, <1>3, <2>1
<1>6. backend = "imap" => NextMail(w) = lo
  BY <1>4 DEF NextMail
<1>7. backend # "imap" => NextMail(w) = hi
  BY <1>5 DEF NextMail
<1> QED BY <1>1, <1>6, <1>7

\* The mail a watcher is at is one of the mailbox.
LEMMA NextIsMail ==
  ASSUME MailTypes, PollInv, NEW w \in Watchers, todo[w] # {}
  PROVE  NextMail(w) \in todo[w] /\ NextMail(w) \in 1..MaxMails
<1>1. PICK lo \in 1..(MaxMails + 1), hi \in 0..MaxMails : todo[w] = lo..hi
  BY DEF PollInv
<1>2. lo \in Nat /\ hi \in Nat
  BY MailConfig
<1>3. lo <= hi /\ NextMail(w) \in {lo, hi}
  BY <1>1, <1>2, NextOfInterval
<1> QED BY <1>1, <1>2, <1>3 DEF MailTypes

-----------------------------------------------------------------------------
(* Types *)

LEMMA MailTypesBegin == MailInit => MailTypes
<1>1. 0 \in 0..MaxMails /\ 0 \in 0..MaxCrashes /\ 0 \in 0..(MaxMails + 1)
  BY MailConfig
<1> QED BY <1>1 DEF MailInit, MailTypes

LEMMA MailTypesStep == MailTypes /\ PollInv /\ [MailNext]_mailVars => MailTypes'
<1> SUFFICES ASSUME MailTypes, PollInv, [MailNext]_mailVars PROVE MailTypes'
  OBVIOUS
<1> USE DEF mailStore, pollVars, mailHistory
<1>0. 0 \in 0..MaxMails /\ 0 \in 0..(MaxMails + 1)
  BY MailConfig
<1>1. CASE MailArrives
  BY <1>1, MailConfig DEF MailArrives, MailTypes
<1>2. ASSUME NEW w \in Watchers, Select(w) PROVE MailTypes'
  <2>1. mails + 1 \in 0..(MaxMails + 1)
    BY MailConfig DEF MailTypes
  <2> QED BY <1>2, <2>1 DEF Select, MailTypes
<1>3. ASSUME NEW w \in Watchers, ReadCursor(w) PROVE MailTypes'
  BY <1>3 DEF ReadCursor, MailTypes
<1>4. ASSUME NEW w \in Watchers, Search(w) PROVE MailTypes'
  <2>1. Start(w) \in 0..MaxMails
    BY MailConfig DEF Start, FirstSync, MailTypes
  <2>2. (Start(w) + 1)..mails \subseteq 1..MaxMails
    BY <2>1, MailConfig DEF MailTypes
  <2>3. lastUID' \in 0..MaxMails /\ baseline' \in 0..MaxMails
    BY <1>4, <2>1 DEF Search, MailTypes
  <2>4. 0 \in 0..MaxMails
    BY MailConfig
  <2> QED BY <1>4, <2>1, <2>2, <2>3, <2>4 DEF Search, MailTypes
<1>5. ASSUME NEW w \in Watchers, List(w) PROVE MailTypes'
  <2>1. {m \in 1..mails : m > mails - PageSize} \subseteq 1..MaxMails
    BY MailConfig DEF MailTypes
  <2> QED BY <1>5, <2>1 DEF List, MailTypes
<1>6. ASSUME NEW w \in Watchers, Handling(w), Advance(w)
      PROVE  todo' \in [Watchers -> SUBSET (1..MaxMails)] /\ handled' \in [Watchers -> 0..MaxMails]
  <2>1. NextMail(w) \in 0..MaxMails
    BY <1>6, NextIsMail DEF Handling
  <2> QED BY <1>6, <2>1 DEF Advance, MailTypes
<1>7. ASSUME NEW w \in Watchers, SkipKnown(w) PROVE MailTypes'
  BY <1>6, <1>7 DEF SkipKnown, MailTypes
<1>8. ASSUME NEW w \in Watchers, PollEnds(w) PROVE MailTypes'
  <2>1. lastUID' \in 0..MaxMails
    BY <1>8 DEF PollEnds, MailTypes
  <2>2. PollOver(w)
    BY <1>8 DEF PollEnds
  <2>3. /\ watch' \in [Watchers -> {"waiting", "selected", "reading", "handling"}]
        /\ seenNext' \in [Watchers -> 0..(MaxMails + 1)]
        /\ from' \in [Watchers -> 0..MaxMails]
        /\ handled' \in [Watchers -> 0..MaxMails]
    BY <1>0, <2>2 DEF PollOver, MailTypes
  <2> QED BY <1>8, <2>1, <2>3 DEF PollEnds, MailTypes
<1>9. CASE TriggerHandles
  <2>1. NextMail("trigger") \in 1..MaxMails
    BY <1>9, NextIsMail DEF TriggerHandles, Handling
  <2> QED BY <1>6, <1>9, <2>1 DEF TriggerHandles, MailTypes
<1>10. ASSUME NEW s, ServiceAt(s)
       PROVE  "service" \in Watchers /\ Handling("service") /\ Mail \in 1..MaxMails
  BY <1>10, NextIsMail DEF ServiceAt, Handling, Mail
<1>11. CASE Abort /\ drafts' = drafts /\ (botched' = botched \/ botched' = botched \union {Mail})
              /\ (\E s : ServiceAt(s))
  <2>1. /\ watch' \in [Watchers -> {"waiting", "selected", "reading", "handling"}]
        /\ seenNext' \in [Watchers -> 0..(MaxMails + 1)]
        /\ from' \in [Watchers -> 0..MaxMails]
        /\ handled' \in [Watchers -> 0..MaxMails]
    BY <1>0, <1>11 DEF Abort, PollOver, MailTypes
  <2> QED BY <1>10, <1>11, <2>1 DEF Abort, MailTypes
<1>12. CASE ServiceFailsEarly
  BY <1>11, <1>12 DEF ServiceFailsEarly
<1>13. CASE ServicePasses
  BY <1>6, <1>10, <1>13 DEF ServicePasses, MailTypes
<1>14. CASE ServiceStores
  BY <1>10, <1>14 DEF ServiceStores, MailTypes
<1>15. CASE DraftFails
  BY <1>11, <1>15 DEF DraftFails
<1>16. CASE InsertDraft
  <2>1. Mail \in 1..MaxMails
    BY <1>10, <1>16 DEF InsertDraft
  <2>2. drafts[Mail] + 1 \in Nat
    BY <2>1 DEF MailTypes
  <2>3. drafts' \in [1..MaxMails -> Nat]
    BY <1>16, <2>1, <2>2 DEF InsertDraft, MailTypes
  <2> QED BY <1>16, <2>3 DEF InsertDraft, MailTypes
<1>17. CASE PublishDraft
  BY <1>6, <1>10, <1>17 DEF PublishDraft, MailTypes
<1>18. CASE PublishFails
  BY <1>11, <1>18 DEF PublishFails
<1>19. CASE MailCrash
  <2>1. botched' \subseteq 1..MaxMails
    BY <1>10, <1>19 DEF MailCrash, MailTypes
  <2> QED BY <1>19, <2>1, MailConfig DEF MailCrash, MailTypes
<1>20. CASE UNCHANGED mailVars
  BY <1>20 DEF mailVars, MailTypes
<1> QED BY <1>1, <1>2, <1>3, <1>4, <1>5, <1>7, <1>8, <1>9, <1>12, <1>13, <1>14, <1>15, <1>16,
           <1>17, <1>18, <1>19, <1>20 DEF MailNext, Service

-----------------------------------------------------------------------------
(* The cursor *)

\* No step forgets what was looked at.
LEMMA CoveredStays ==
  ASSUME MailTypes, [MailNext]_mailVars, NEW m \in Nat, Covered(m)
  PROVE  Covered(m)'
<1> USE DEF mailStore, pollVars, mailHistory
<1>1. baseline \in Nat
  BY MailConfig DEF MailTypes
<1>2. stored \subseteq stored' /\ settled \subseteq settled' /\ seen \subseteq seen'
  BY DEF mailVars, MailNext, Service, MailArrives, Select, ReadCursor, Search, List, SkipKnown,
         PollEnds, TriggerHandles, ServiceFailsEarly, ServicePasses, ServiceStores, DraftFails,
         InsertDraft, PublishDraft, PublishFails, MailCrash, Abort
<1>3. baseline' = baseline \/ (\E w \in Watchers : Search(w))
  BY DEF mailVars, MailNext, Service, MailArrives, Select, ReadCursor, List, SkipKnown,
         PollEnds, TriggerHandles, ServiceFailsEarly, ServicePasses, ServiceStores, DraftFails,
         InsertDraft, PublishDraft, PublishFails, MailCrash, Abort
<1>4. ASSUME NEW w \in Watchers, Search(w) PROVE baseline' \in Nat /\ baseline' >= baseline
  <2>1. seenNext[w] \in Nat /\ from[w] \in Nat
    BY MailConfig DEF MailTypes
  <2> QED BY <1>1, <1>4, <2>1 DEF Search, Start, FirstSync
<1> QED BY <1>1, <1>2, <1>3, <1>4 DEF Covered

\* A watcher that is left alone, or that ends its poll, keeps what it knows.
LEMMA IdleWatcher ==
  ASSUME MailTypes, PollInv, [MailNext]_mailVars, NEW w \in Watchers, backend' = backend,
         \/ todo'[w] = todo[w] /\ handled'[w] = handled[w] /\ watch'[w] = watch[w]
         \/ todo'[w] = todo[w] /\ watch'[w] # "handling"
         \/ todo'[w] = {} /\ watch'[w] # "handling"
  PROVE  \E lo \in 1..(MaxMails + 1), hi \in 0..MaxMails :
           /\ todo'[w] = lo..hi
           /\ watch'[w] = "handling" /\ backend' = "imap" =>
                handled'[w] < lo /\ \A m \in 1..(lo - 1) : Covered(m)'
<1>1. PICK lo \in 1..(MaxMails + 1), hi \in 0..MaxMails :
        /\ todo[w] = lo..hi
        /\ watch[w] = "handling" /\ backend = "imap" =>
             handled[w] < lo /\ \A m \in 1..(lo - 1) : Covered(m)
  BY DEF PollInv
<1>2. CASE todo'[w] = todo[w]
  <2>1. \A m \in 1..(lo - 1) : Covered(m) => Covered(m)'
    BY CoveredStays, MailConfig
  <2> QED BY <1>1, <1>2, <2>1
<1>3. CASE todo'[w] = {} /\ watch'[w] # "handling"
  <2>1. 1 \in 1..(MaxMails + 1) /\ 0 \in 0..MaxMails /\ 1..0 = {}
    BY MailConfig
  <2> QED BY <1>3, <2>1
<1> QED BY <1>2, <1>3

\* Handling one more mail of the poll, which is looked at by it.
LEMMA AdvancingWatcher ==
  ASSUME MailTypes, PollInv, [MailNext]_mailVars, NEW w \in Watchers, backend' = backend,
         Handling(w), Advance(w),
         NEW n, n = NextMail(w), backend = "imap" => Covered(n)'
  PROVE  \E lo \in 1..(MaxMails + 1), hi \in 0..MaxMails :
           /\ todo'[w] = lo..hi
           /\ backend' = "imap" =>
                handled'[w] < lo /\ \A m \in 1..(lo - 1) : Covered(m)'
<1>1. PICK lo \in 1..(MaxMails + 1), hi \in 0..MaxMails :
        /\ todo[w] = lo..hi
        /\ backend = "imap" => handled[w] < lo /\ \A m \in 1..(lo - 1) : Covered(m)
  BY DEF PollInv, Handling
<1>2. lo \in Nat /\ hi \in Nat /\ handled[w] \in Nat
  BY MailConfig DEF MailTypes
<1>3. /\ lo <= hi
      /\ backend = "imap" => NextMail(w) = lo /\ todo[w] \ {NextMail(w)} = (lo + 1)..hi
      /\ backend # "imap" => NextMail(w) = hi /\ todo[w] \ {NextMail(w)} = lo..(hi - 1)
  BY <1>1, <1>2, NextOfInterval DEF Handling
<1>4. /\ todo'[w] = todo[w] \ {NextMail(w)}
      /\ handled'[w] = IF NextMail(w) > handled[w] THEN NextMail(w) ELSE handled[w]
  BY DEF Advance, MailTypes
<1>5. CASE backend = "imap"
  <2>1. \A m \in 1..((lo + 1) - 1) : Covered(m)'
    <3>1. ASSUME NEW m \in 1..(lo - 1) PROVE Covered(m)'
      BY <1>1, <1>2, <1>5, <3>1, CoveredStays
    <3>2. Covered(lo)'
      BY <1>3, <1>5
    <3>3. \A m \in 1..((lo + 1) - 1) : m \in 1..(lo - 1) \/ m = lo
      BY <1>2
    <3> QED BY <3>1, <3>2, <3>3
  <2>2. handled'[w] < lo + 1
    BY <1>1, <1>2, <1>3, <1>4, <1>5
  <2>3. lo + 1 \in 1..(MaxMails + 1)
    BY <1>2, <1>3, MailConfig
  <2> QED BY <1>3, <1>4, <1>5, <2>1, <2>2, <2>3
<1>6. CASE backend # "imap"
  <2>1. hi - 1 \in 0..MaxMails
    BY <1>2, <1>3, MailConfig
  <2> QED BY <1>3, <1>4, <1>6, <2>1
<1> QED BY <1>5, <1>6

\* A new poll over IMAP begins behind the cursor it read, or behind the mails it
\* takes for old.
LEMMA SearchingWatcher ==
  ASSUME MailTypes, ReadInv, NEW w \in Watchers, Search(w), [MailNext]_mailVars
  PROVE  \E lo \in 1..(MaxMails + 1), hi \in 0..MaxMails :
           /\ todo'[w] = lo..hi
           /\ handled'[w] < lo /\ \A m \in 1..(lo - 1) : Covered(m)'
<1>1. seenNext[w] \in Nat /\ from[w] \in Nat /\ seenNext[w] <= MaxMails + 1 /\ from[w] <= MaxMails
  BY MailConfig DEF MailTypes
<1>2. Start(w) \in 0..MaxMails
  BY <1>1, MailConfig DEF Start, FirstSync
<1>3. todo'[w] = (Start(w) + 1)..mails /\ handled'[w] = 0
  BY DEF Search, MailTypes
<1>4. ASSUME NEW m \in 1..Start(w) PROVE Covered(m)'
  <2>1. CASE FirstSync(w)
    <3>1. baseline' >= Start(w) /\ baseline' \in Nat
      BY <1>2, <2>1, MailConfig DEF Search, MailTypes
    <3> QED BY <1>2, <3>1 DEF Covered
  <2>2. CASE ~FirstSync(w)
    <3>1. m \in 1..from[w] /\ m \in Nat
      BY <1>2, <2>2 DEF Start
    <3> QED BY <3>1, CoveredStays DEF ReadInv, Search
  <2> QED BY <2>1, <2>2
<1>5. Start(w) + 1 \in 1..(MaxMails + 1) /\ mails \in 0..MaxMails /\ (Start(w) + 1) - 1 = Start(w)
  BY <1>2, MailConfig DEF MailTypes
<1> QED BY <1>2, <1>3, <1>4, <1>5

\* Every step of any watcher or of the environment.
LEMMA StepPoll == MailTypes /\ PollInv /\ ReadInv /\ StepInv /\ [MailNext]_mailVars => PollInv'
<1> SUFFICES ASSUME MailTypes, PollInv, ReadInv, StepInv, [MailNext]_mailVars, NEW w \in Watchers
             PROVE  \E lo \in 1..(MaxMails + 1), hi \in 0..MaxMails :
                      /\ todo'[w] = lo..hi
                      /\ watch'[w] = "handling" /\ backend' = "imap" =>
                           handled'[w] < lo /\ \A m \in 1..(lo - 1) : Covered(m)'
  BY DEF PollInv
<1> USE DEF mailStore, pollVars, mailHistory
<1>0. backend' = backend
  BY DEF mailVars, MailNext, Service, MailArrives, Select, ReadCursor, Search, List, SkipKnown,
         PollEnds, TriggerHandles, ServiceFailsEarly, ServicePasses, ServiceStores, DraftFails,
         InsertDraft, PublishDraft, PublishFails, MailCrash, Abort
<1> DEFINE Lies == \/ todo'[w] = todo[w] /\ handled'[w] = handled[w] /\ watch'[w] = watch[w]
                   \/ todo'[w] = todo[w] /\ watch'[w] # "handling"
                   \/ todo'[w] = {} /\ watch'[w] # "handling"
<1> DEFINE Takes == \E n : /\ Handling(w) /\ Advance(w) /\ n = NextMail(w)
                           /\ backend = "imap" => Covered(n)'
<1>1. ASSUME NEW v \in Watchers, Select(v) \/ ReadCursor(v) \/ PollEnds(v) PROVE Lies
  BY <1>1 DEF Select, ReadCursor, PollEnds, MailTypes, PollOver
<1>2. ASSUME NEW v \in Watchers, Search(v), v # w PROVE Lies
  BY <1>2 DEF Search, MailTypes
<1>3. ASSUME NEW v \in Watchers, List(v), v # w PROVE Lies
  BY <1>3 DEF List, MailTypes
<1>4. ASSUME NEW v \in Watchers, SkipKnown(v) PROVE Lies \/ Takes
  <2>1. CASE v = w
    BY <1>4, <2>1 DEF SkipKnown, KnownMail
  <2>2. CASE v # w
    BY <1>4, <2>2 DEF SkipKnown, Advance, MailTypes
  <2> QED BY <2>1, <2>2
<1>5. ASSUME TriggerHandles PROVE Lies \/ Takes
  <2>1. CASE w = "trigger"
    <3>1. \A n : n = NextMail("trigger") => Covered(n)'
      BY <1>5 DEF TriggerHandles, Covered
    <3> QED BY <1>5, <2>1, <3>1 DEF TriggerHandles
  <2>2. CASE w # "trigger"
    BY <1>5, <2>2 DEF TriggerHandles, Advance, MailTypes
  <2> QED BY <2>1, <2>2
<1>6. ASSUME ServicePasses \/ PublishDraft PROVE Lies \/ Takes
  <2>1. CASE w = "service"
    <3>1. Handling(w) /\ Advance(w) /\ Mail = NextMail(w)
      BY <1>6, <2>1 DEF ServicePasses, PublishDraft, ServiceAt, Mail
    <3>2. \A n : n = NextMail(w) => Covered(n)'
      <4>1. CASE ServicePasses
        BY <2>1, <4>1 DEF ServicePasses, Covered, Mail
      <4>2. CASE PublishDraft
        <5>1. Mail \in stored
          BY <4>2 DEF PublishDraft, ServiceAt, StepInv
        <5> QED BY <2>1, <4>2, <5>1 DEF PublishDraft, Covered, Mail
      <4> QED BY <1>6, <4>1, <4>2
    <3> QED BY <3>1, <3>2
  <2>2. CASE w # "service"
    BY <1>6, <2>2 DEF ServicePasses, PublishDraft, Advance, MailTypes
  <2> QED BY <2>1, <2>2
<1>7. ASSUME Abort PROVE Lies
  BY <1>7 DEF Abort, MailTypes, PollOver
<1>8. ASSUME MailArrives \/ ServiceStores \/ InsertDraft \/ UNCHANGED mailVars PROVE Lies
  BY <1>8 DEF MailArrives, ServiceStores, InsertDraft, mailVars
<1>9. ASSUME MailCrash PROVE Lies
  BY <1>9 DEF MailCrash
<1>10. ASSUME Search(w) PROVE
         \E lo \in 1..(MaxMails + 1), hi \in 0..MaxMails :
           /\ todo'[w] = lo..hi
           /\ handled'[w] < lo /\ \A m \in 1..(lo - 1) : Covered(m)'
  BY <1>10, SearchingWatcher
\* The newest page of a list.
<1>11. ASSUME List(w) PROVE
         backend' # "imap" /\ \E lo \in 1..(MaxMails + 1), hi \in 0..MaxMails : todo'[w] = lo..hi
  <2> DEFINE lo == IF mails > PageSize THEN mails - PageSize + 1 ELSE 1
  <2>1. mails \in Nat /\ PageSize \in Nat /\ MaxMails \in Nat /\ mails <= MaxMails
    BY MailConfig DEF MailTypes
  <2>2. todo'[w] = {m \in 1..mails : m > mails - PageSize}
    BY <1>11 DEF List, MailTypes
  <2>3. {m \in 1..mails : m > mails - PageSize} = lo..mails
    BY <2>1
  <2>4. lo \in 1..(MaxMails + 1) /\ mails \in 0..MaxMails
    BY <2>1
  <2>5. backend = "list"
    BY <1>11 DEF List
  <2> QED BY <1>0, <2>2, <2>3, <2>4, <2>5
<1> HIDE DEF Lies, Takes
<1>12. Lies \/ Takes \/ Search(w) \/ List(w)
  BY <1>1, <1>2, <1>3, <1>4, <1>5, <1>6, <1>7, <1>8, <1>9
     DEF MailNext, Service, ServiceFailsEarly, DraftFails, PublishFails
<1>13. CASE Lies
  BY <1>0, <1>13, IdleWatcher DEF Lies
<1>14. CASE Takes
  <2>1. PICK n : n = NextMail(w) /\ (backend = "imap" => Covered(n)')
    BY <1>14 DEF Takes
  <2> QED BY <1>0, <1>14, <2>1, AdvancingWatcher DEF Takes
<1> QED BY <1>10, <1>11, <1>12, <1>13, <1>14

LEMMA StepRead == MailTypes /\ ReadInv /\ NothingPassedOver /\ [MailNext]_mailVars => ReadInv'
<1> SUFFICES ASSUME MailTypes, ReadInv, NothingPassedOver, [MailNext]_mailVars, NEW w \in Watchers
             PROVE  /\ watch'[w] = "reading" => \A m \in 1..from'[w] : Covered(m)'
                    /\ watch'[w] \in {"selected", "reading"} => backend' = "imap"
  BY DEF ReadInv
<1> USE DEF mailStore, pollVars, mailHistory
<1>1. CASE ReadCursor(w)
  <2>1. from'[w] = lastUID /\ lastUID \in Nat /\ backend' = backend /\ watch[w] = "selected"
    BY <1>1, MailConfig DEF ReadCursor, MailTypes
  <2>2. \A m \in 1..lastUID : Covered(m)'
    BY <2>1, CoveredStays DEF NothingPassedOver, Covered
  <2> QED BY <2>1, <2>2 DEF ReadInv
<1>2. CASE Select(w)
  BY <1>2 DEF Select, MailTypes
<1>3. CASE watch'[w] = watch[w] /\ from'[w] = from[w] /\ backend' = backend
  <2>1. from[w] \in Nat
    BY MailConfig DEF MailTypes
  <2> QED BY <1>3, <2>1, CoveredStays DEF ReadInv
<1>4. CASE watch'[w] \notin {"selected", "reading"}
  BY <1>4
<1>5. \/ ReadCursor(w) \/ Select(w)
      \/ watch'[w] = watch[w] /\ from'[w] = from[w] /\ backend' = backend
      \/ watch'[w] \notin {"selected", "reading"}
  <2>1. ASSUME NEW v \in Watchers, v # w,
               Select(v) \/ ReadCursor(v) \/ Search(v) \/ List(v) \/ PollEnds(v)
        PROVE  watch'[w] = watch[w] /\ from'[w] = from[w] /\ backend' = backend
    BY <2>1 DEF Select, ReadCursor, Search, List, PollEnds, MailTypes, PollOver
  <2>2. ASSUME Search(w) \/ List(w) \/ PollEnds(w) PROVE watch'[w] \notin {"selected", "reading"}
    BY <2>2 DEF Search, List, PollEnds, MailTypes, PollOver
  <2>3. ASSUME NEW v \in Watchers, SkipKnown(v)
        PROVE  watch'[w] = watch[w] /\ from'[w] = from[w] /\ backend' = backend
    BY <2>3 DEF SkipKnown
  <2>4. ASSUME Abort \/ MailCrash
        PROVE  \/ watch'[w] = watch[w] /\ from'[w] = from[w] /\ backend' = backend
               \/ watch'[w] \notin {"selected", "reading"}
    BY <2>4 DEF Abort, MailCrash, MailTypes, PollOver
  <2>5. ASSUME \/ MailArrives \/ TriggerHandles \/ ServicePasses \/ ServiceStores
               \/ InsertDraft \/ PublishDraft \/ UNCHANGED mailVars
        PROVE  watch'[w] = watch[w] /\ from'[w] = from[w] /\ backend' = backend
    BY <2>5 DEF MailArrives, TriggerHandles, ServicePasses, ServiceStores, InsertDraft,
                PublishDraft, mailVars
  <2> QED BY <2>1, <2>2, <2>3, <2>4, <2>5
          DEF MailNext, Service, ServiceFailsEarly, DraftFails, PublishFails
<1> QED BY <1>1, <1>2, <1>3, <1>4, <1>5

\* The cursor moves over mails that a poll took for old, or handled.
LEMMA StepCursor ==
  MailTypes /\ PollInv /\ NothingPassedOver /\ [MailNext]_mailVars => NothingPassedOver'
<1> SUFFICES ASSUME MailTypes, PollInv, NothingPassedOver, [MailNext]_mailVars,
                    NEW m \in 1..lastUID'
             PROVE  Covered(m)'
  BY DEF NothingPassedOver, Covered
<1> USE DEF mailStore, pollVars, mailHistory
<1>1. lastUID \in Nat /\ m \in Nat
  BY MailConfig, MailTypesStep DEF MailTypes
<1>2. CASE lastUID' = lastUID
  <2>1. Covered(m)
    BY <1>2 DEF NothingPassedOver, Covered
  <2> QED BY <1>1, <2>1, CoveredStays
<1>3. ASSUME NEW w \in Watchers, Search(w), lastUID' # lastUID PROVE Covered(m)'
  <2>1. baseline' >= lastUID' /\ baseline' \in Nat /\ lastUID' \in Nat
    <3>1. seenNext[w] \in Nat /\ from[w] \in Nat /\ baseline \in Nat
      BY MailConfig DEF MailTypes
    <3> QED BY <1>3, <3>1 DEF Search, Start, FirstSync
  <2> QED BY <1>1, <2>1 DEF Covered
<1>4. ASSUME NEW w \in Watchers, PollEnds(w), lastUID' # lastUID PROVE Covered(m)'
  <2>1. backend = "imap" /\ lastUID' = handled[w] /\ watch[w] = "handling"
    BY <1>4 DEF PollEnds
  <2>2. PICK lo \in 1..(MaxMails + 1) : handled[w] < lo /\ \A n \in 1..(lo - 1) : Covered(n)
    BY <2>1 DEF PollInv
  <2>3. handled[w] \in Nat /\ lo \in Nat
    BY MailConfig DEF MailTypes
  <2>4. m \in 1..(lo - 1)
    BY <1>1, <2>1, <2>2, <2>3
  <2> QED BY <1>1, <2>2, <2>4, CoveredStays
<1>5. lastUID' = lastUID \/ (\E w \in Watchers : Search(w) \/ PollEnds(w))
  BY DEF mailVars, MailNext, Service, MailArrives, Select, ReadCursor, List, SkipKnown,
         TriggerHandles, ServiceFailsEarly, ServicePasses, ServiceStores, DraftFails,
         InsertDraft, PublishDraft, PublishFails, MailCrash, Abort
<1> QED BY <1>2, <1>3, <1>4, <1>5

-----------------------------------------------------------------------------
(* The drafts *)

\* What the service holds on to survives the steps of everybody else.
LEMMA ServiceUndisturbed ==
  ASSUME MailTypes, todo'["service"] = todo["service"], watch'["service"] = watch["service"],
         backend' = backend, step' = step
  PROVE  /\ Mail' = Mail
         /\ \A s : ServiceAt(s)' = ServiceAt(s)
         /\ Handling("service")' = Handling("service")
BY DEF Mail, NextMail, ServiceAt, Handling

LEMMA StepDrafts ==
  MailTypes /\ PollInv /\ StepInv /\ DraftInv /\ OneDraftEach /\ [MailNext]_mailVars
    => StepInv' /\ DraftInv' /\ OneDraftEach'
<1> SUFFICES ASSUME MailTypes, PollInv, StepInv, DraftInv, OneDraftEach, [MailNext]_mailVars
             PROVE  StepInv' /\ DraftInv' /\ OneDraftEach'
  OBVIOUS
<1> USE DEF mailStore, pollVars, mailHistory
\* Nothing of the service changes.
<1>1. CASE /\ todo'["service"] = todo["service"] /\ watch'["service"] = watch["service"]
           /\ backend' = backend /\ step' = step
           /\ stored' = stored /\ drafts' = drafts /\ botched' = botched
  <2>1. Mail' = Mail /\ (\A s : ServiceAt(s)' = ServiceAt(s))
        /\ Handling("service")' = Handling("service")
    BY <1>1, ServiceUndisturbed
  <2> QED BY <1>1, <2>1 DEF StepInv, DraftInv, OneDraftEach
\* Between two mails, no row and no draft changes.
<1>2. CASE /\ step = "fetch" /\ step' = "fetch"
           /\ stored' = stored /\ drafts' = drafts /\ botched' = botched
  <2>1. ~ServiceAt("stored")
    BY <1>2 DEF ServiceAt
  <2> QED BY <1>2, <2>1 DEF StepInv, DraftInv, OneDraftEach
<1>3. ASSUME NEW s \in {"stored", "drafted"}, ServiceAt(s)
      PROVE  "service" \in Watchers /\ Mail \in stored /\ Mail \in 1..MaxMails
  BY <1>3, NextIsMail DEF ServiceAt, StepInv, Handling, Mail
\* The service leaves a mail, marked if it has no draft.
<1>4. CASE /\ step' = "fetch" /\ stored' = stored /\ drafts' = drafts
           /\ botched \subseteq botched' /\ (ServiceAt("stored") => Mail \in botched')
  BY <1>4 DEF StepInv, DraftInv, OneDraftEach
<1>5. CASE Abort /\ drafts' = drafts /\ botched \subseteq botched'
           /\ (ServiceAt("stored") => Mail \in botched')
  BY <1>4, <1>5 DEF Abort
<1>6. CASE ServiceFailsEarly
  <2>1. ~ServiceAt("stored")
    BY <1>6 DEF ServiceFailsEarly, ServiceAt
  <2> QED BY <1>5, <1>6, <2>1 DEF ServiceFailsEarly
<1>7. CASE DraftFails
  BY <1>5, <1>7 DEF DraftFails
<1>8. CASE PublishFails
  <2>1. ~ServiceAt("stored")
    BY <1>8 DEF PublishFails, ServiceAt
  <2> QED BY <1>5, <1>8, <2>1 DEF PublishFails
<1>9. CASE PublishDraft
  <2>1. ~ServiceAt("stored")
    BY <1>9 DEF PublishDraft, ServiceAt
  <2> QED BY <1>4, <1>9, <2>1 DEF PublishDraft
<1>10. CASE MailCrash
  <2>1. ServiceAt("stored") => Mail \in botched'
    BY <1>10 DEF MailCrash
  <2>2. botched \subseteq botched'
    BY <1>10 DEF MailCrash
  <2> QED BY <1>4, <1>10, <2>1, <2>2 DEF MailCrash
<1>11. CASE ServicePasses
  BY <1>2, <1>11 DEF ServicePasses, ServiceAt
<1>12. CASE ServiceStores
  <2>1. /\ "service" \in Watchers /\ Handling("service")
        /\ Mail \in 1..MaxMails /\ Mail \notin stored
    BY <1>12, NextIsMail DEF ServiceStores, ServiceAt, Handling, Mail
  <2>2. Mail' = Mail /\ Handling("service")'
    BY <1>12, <2>1 DEF ServiceStores, Mail, NextMail, Handling
  <2>3. /\ step' = "stored" /\ stored' = stored \union {Mail}
        /\ drafts' = drafts /\ botched' = botched
    BY <1>12 DEF ServiceStores
  <2>4. drafts[Mail] = 0 /\ ServiceAt("stored")'
    BY <2>1, <2>2, <2>3 DEF DraftInv, ServiceAt
  <2>5. ~ServiceAt("stored")
    BY <1>12 DEF ServiceStores, ServiceAt
  <2>6. StepInv'
    BY <2>1, <2>2, <2>3, <2>4 DEF StepInv
  <2>7. DraftInv'
    BY <2>3 DEF DraftInv
  <2>8. OneDraftEach'
    BY <2>2, <2>3, <2>4, <2>5 DEF OneDraftEach
  <2> QED BY <2>6, <2>7, <2>8
<1>13. CASE InsertDraft
  <2>1. Mail \in stored /\ Mail \in 1..MaxMails /\ "service" \in Watchers
        /\ Handling("service") /\ drafts[Mail] = 0
    BY <1>3, <1>13 DEF InsertDraft, ServiceAt, StepInv
  <2>2. Mail' = Mail /\ Handling("service")'
    BY <1>13, <2>1 DEF InsertDraft, Mail, NextMail, Handling
  <2>3. step' = "drafted" /\ stored' = stored /\ botched' = botched
    BY <1>13 DEF InsertDraft
  <2>4. /\ drafts'[Mail] = 1
        /\ \A m \in 1..MaxMails : m # Mail => drafts'[m] = drafts[m]
    BY <1>13, <2>1 DEF InsertDraft, MailTypes
  <2>5. StepInv'
    BY <2>1, <2>2, <2>3 DEF StepInv
  <2>6. DraftInv'
    BY <2>1, <2>3, <2>4 DEF DraftInv
  <2>7. OneDraftEach'
    BY <2>3, <2>4 DEF OneDraftEach, MailTypes, ServiceAt
  <2> QED BY <2>5, <2>6, <2>7
<1>14. ASSUME NEW w \in Watchers,
              Select(w) \/ ReadCursor(w) \/ Search(w) \/ List(w) \/ SkipKnown(w) \/ PollEnds(w)
       PROVE  StepInv' /\ DraftInv' /\ OneDraftEach'
  <2>1. CASE w # "service" /\ "service" \in Watchers
    BY <1>1, <1>14, <2>1
       DEF Select, ReadCursor, Search, List, SkipKnown, PollEnds, PollOver, Advance, MailTypes
  <2>2. CASE w = "service" \/ "service" \notin Watchers
    <3>1. step = "fetch"
      <4>1. CASE "service" \notin Watchers
        BY <4>1 DEF StepInv
      <4>2. CASE w = "service" /\ SkipKnown(w)
        BY <4>2 DEF SkipKnown
      <4>3. CASE w = "service" /\ ~SkipKnown(w)
        <5>1. ~Handling("service")
          BY <1>14, <4>3 DEF Select, ReadCursor, Search, List, PollEnds, Handling
        <5> QED BY <5>1 DEF StepInv
      <4> QED BY <2>2, <4>1, <4>2, <4>3
    <3>2. step' = step /\ stored' = stored /\ drafts' = drafts /\ botched' = botched
      BY <1>14 DEF Select, ReadCursor, Search, List, SkipKnown, PollEnds
    <3> QED BY <1>2, <3>1, <3>2
  <2> QED BY <2>1, <2>2
<1>15. CASE MailArrives \/ UNCHANGED mailVars
  BY <1>1, <1>15 DEF MailArrives, mailVars
<1>16. CASE TriggerHandles
  <2>1. step' = step /\ stored' = stored /\ drafts' = drafts /\ botched' = botched
    BY <1>16 DEF TriggerHandles
  <2>2. CASE "service" \in Watchers
    BY <1>1, <1>16, <2>1, <2>2 DEF TriggerHandles, Advance, MailTypes
  <2>3. CASE "service" \notin Watchers
    <3>1. step = "fetch"
      BY <2>3 DEF StepInv
    <3> QED BY <1>2, <2>1, <3>1
  <2> QED BY <2>2, <2>3
<1> QED BY <1>6, <1>7, <1>8, <1>9, <1>10, <1>11, <1>12, <1>13, <1>14, <1>15, <1>16
        DEF MailNext, Service

-----------------------------------------------------------------------------
LEMMA MailBegins == MailInit => MailInv
<1> SUFFICES ASSUME MailInit PROVE MailInv
  OBVIOUS
<1>1. MailTypes
  BY MailTypesBegin
<1>2. PollInv
  <2>1. 1 \in 1..(MaxMails + 1) /\ 0 \in 0..MaxMails /\ 1..0 = {}
    BY MailConfig
  <2> QED BY <2>1 DEF MailInit, PollInv
<1>3. ReadInv /\ StepInv /\ DraftInv
  BY DEF MailInit, ReadInv, StepInv, DraftInv
<1>4. NothingPassedOver /\ OneDraftEach
  BY DEF MailInit, NothingPassedOver, OneDraftEach
<1> QED BY <1>1, <1>2, <1>3, <1>4 DEF MailInv

LEMMA MailInductive == MailSpec => []MailInv
<1>1. MailInv /\ [MailNext]_mailVars => MailInv'
  BY MailTypesStep, StepPoll, StepRead, StepCursor, StepDrafts DEF MailInv
<1> QED BY <1>1, MailBegins, PTL DEF MailSpec

\* Through failures, crashes, a second watcher on the same cursor and a first poll
\* that skips what was there, the cursor passes no mail that nobody looked at.
THEOREM CursorIsHonest == MailSpec => []NothingPassedOver
<1>1. MailInv => NothingPassedOver
  BY DEF MailInv
<1> QED BY <1>1, MailInductive, PTL

\* However often a mail is polled, it gets one draft at most, and it stays without
\* one only if its processing failed or crashed between the row and the draft.
THEOREM DraftedOnce == MailSpec => []OneDraftEach
<1>1. MailInv => OneDraftEach
  BY DEF MailInv
<1> QED BY <1>1, MailInductive, PTL

-----------------------------------------------------------------------------
(* The engine *)

\* The dispatcher acts on the first rule of what is left, and the engine's own times are
\* those that have passed.
EngineInv ==
  /\ EngineTypeOK
  /\ dispatcher = "acting" => snapshot # <<>>
  /\ sinceFired = age /\ ~tooEarly

LEMMA EngineBegins == EngineInit => EngineInv
<1> SUFFICES ASSUME EngineInit PROVE EngineInv
  OBVIOUS
<1>1. age \in [RuleIds -> -1..MaxAge] /\ emitted \in 0..MaxEmitted
  BY EngineConfig DEF EngineInit
<1>2. rules \in Seq(Rule) /\ snapshot \in Seq(Rule) /\ eventCh \in Seq(Triggers)
  BY DEF EngineInit
<1> QED BY <1>1, <1>2 DEF EngineInit, EngineInv, EngineTypeOK

LEMMA KnownAreRules == ASSUME NEW file \in RuleFiles, Known(file) PROVE file \in Seq(Rule)
<1>1. file \in Seq(FileRule) /\ \A i \in 1..Len(file) : file[i] \in FileRule
  BY EngineConfig
<1>2. \A i \in 1..Len(file) : file[i] \in Rule
  BY <1>1 DEF Known, Rule
<1>3. PICK n \in Nat : n = Len(file) /\ DOMAIN file = 1..n /\ file = [i \in 1..n |-> file[i]]
  BY <1>1
<1> QED BY <1>2, <1>3

LEMMA OlderAges ==
  ASSUME NEW ages \in [RuleIds -> -1..MaxAge]
  PROVE  Older(ages) \in [RuleIds -> -1..MaxAge]
  BY EngineConfig DEF Older

LEMMA EngineTypeStep == EngineInv /\ EngineNext => EngineTypeOK'
<1> SUFFICES ASSUME EngineTypeOK, dispatcher = "acting" => snapshot # <<>>, EngineNext
             PROVE  EngineTypeOK'
  BY DEF EngineInv
<1> USE EngineConfig DEF EngineTypeOK
<1>1. CASE SetRules
  BY <1>1, KnownAreRules DEF SetRules, engineHistory
<1>2. ASSUME NEW t \in Triggers, Emit(t) PROVE EngineTypeOK'
  BY <1>2 DEF Emit, engineHistory
<1>3. ASSUME NEW t \in Triggers, Enqueue(t) PROVE EngineTypeOK'
  BY <1>3 DEF Enqueue, engineHistory
<1>4. ASSUME NEW t \in Triggers, TriggerReturns(t) PROVE EngineTypeOK'
  BY <1>4 DEF TriggerReturns, engineHistory
<1>5. CASE TakeEvent
  <2>1. Head(eventCh) \in Triggers /\ Tail(eventCh) \in Seq(Triggers)
    BY <1>5, HeadTailProperties DEF TakeEvent
  <2> QED BY <1>5, <2>1 DEF TakeEvent, engineHistory
<1>6. CASE DispatcherReturns
  BY <1>6 DEF DispatcherReturns, engineHistory
<1>7. CASE SkipRule
  <2>1. Head(snapshot) \in Rule /\ Tail(snapshot) \in Seq(Rule)
    BY <1>7, HeadTailProperties DEF SkipRule
  <2>2. Head(snapshot).id \in RuleIds
    BY <2>1 DEF Rule, FileRule
  <2> QED BY <1>7, <2>1, <2>2 DEF SkipRule
<1>8. CASE FireRule
  <2>1. 0 \in -1..MaxAge
    OBVIOUS
  <2>2. tooEarly' \in BOOLEAN
    BY <1>8 DEF FireRule
  <2> QED BY <1>8, <2>1, <2>2 DEF FireRule
<1>9. CASE ActionEnds
  <2>1. Tail(snapshot) \in Seq(Rule)
    BY <1>9, HeadTailProperties DEF ActionEnds
  <2> QED BY <1>9, <2>1 DEF ActionEnds, engineHistory
<1>10. CASE EventDone
  BY <1>10 DEF EventDone, engineHistory
<1>11. CASE StopEngine
  BY <1>11 DEF StopEngine, engineHistory
<1>12. CASE EngineStopped
  BY <1>12 DEF EngineStopped, engineHistory
<1>13. CASE EngineTick
  BY <1>13, OlderAges DEF EngineTick
<1> QED BY <1>1, <1>2, <1>3, <1>4, <1>5, <1>6, <1>7, <1>8, <1>9, <1>10, <1>11, <1>12, <1>13
  DEF EngineNext, Dispatch

LEMMA ActingStep == EngineInv /\ EngineNext => (dispatcher = "acting" => snapshot # <<>>)'
  BY DEF EngineNext, Dispatch, SetRules, Emit, Enqueue, TriggerReturns, TakeEvent,
     DispatcherReturns, SkipRule, FireRule, ActionEnds, EventDone, StopEngine, EngineStopped,
     EngineTick, engineHistory, EngineInv

LEMMA CooldownStep == EngineInv /\ EngineNext => (sinceFired = age /\ ~tooEarly)'
<1> SUFFICES ASSUME EngineInv, EngineNext PROVE (sinceFired = age /\ ~tooEarly)'
  OBVIOUS
<1>1. CASE FireRule
  <2> DEFINE rule == Head(snapshot)
  <2>1. rule \in Rule
    BY <1>1, HeadTailProperties DEF FireRule, EngineInv, EngineTypeOK
  <2>2. rule.id \in RuleIds /\ rule.cooldown \in 0..MaxAge
    BY <2>1 DEF Rule, FileRule
  <2>3. age[rule.id] \in -1..MaxAge /\ MaxAge \in Nat
    BY <2>2, EngineConfig DEF EngineInv, EngineTypeOK
  <2>4. /\ ~OnCooldown(rule)
        /\ age' = [age EXCEPT ![rule.id] = 0] /\ sinceFired' = [sinceFired EXCEPT ![rule.id] = 0]
        /\ tooEarly' = (tooEarly \/ sinceFired[rule.id] \in 0..(rule.cooldown - 1))
    BY <1>1 DEF FireRule
  <2> HIDE DEF rule
  <2>5. ~(age[rule.id] \in 0..(rule.cooldown - 1))
    BY <2>2, <2>3, <2>4 DEF OnCooldown
  <2> QED BY <2>4, <2>5 DEF EngineInv
<1>2. CASE EngineTick
  BY <1>2 DEF EngineTick, EngineInv
<1>3. CASE ~FireRule /\ ~EngineTick
  BY <1>3 DEF EngineNext, Dispatch, SetRules, Emit, Enqueue, TriggerReturns, TakeEvent,
     DispatcherReturns, SkipRule, ActionEnds, EventDone, StopEngine, EngineStopped, engineHistory,
     EngineInv
<1> QED BY <1>1, <1>2, <1>3

LEMMA EngineStep == EngineInv /\ [EngineNext]_engineVars => EngineInv'
<1>1. EngineInv /\ EngineNext => EngineInv'
  BY EngineTypeStep, ActingStep, CooldownStep DEF EngineInv
<1>2. EngineInv /\ UNCHANGED engineVars => EngineInv'
  BY DEF EngineInv, EngineTypeOK, engineVars, engineHistory
<1> QED BY <1>1, <1>2

-----------------------------------------------------------------------------
(* The calendar *)

\* What was announced since the start is remembered until the meeting has begun.
RememberedInv ==
  calendarOn => \A news \in sinceStart :
    \/ news[2] < clock
    \/ \E f \in fired : f[1] = news[1] /\ f[2] <= news[2] /\ news[2] - f[2] <= WarnBefore

\* A meeting still to be announced, that no hazard has met, does not begin before the next
\* poll.
InTimeInv ==
  calendarOn => \A m \in Meetings :
    \/ m \in forgiven \/ <<m, startsAt[m]>> \in announced
    \/ startsAt[m] < clock \/ nextPoll <= startsAt[m]

CalendarInv ==
  /\ CalendarTypeOK /\ RememberedInv
  /\ ~twice
  /\ WarnBefore >= Interval => InTimeInv /\ missed = {}

LEMMA CalendarNumbers ==
  MaxClock \in Nat /\ MaxMoves \in Nat /\ Interval \in Nat \ {0} /\ WarnBefore \in Nat \ {0}
  BY CalendarConfig

LEMMA CalendarBegins == CalendarInit => CalendarInv
<1> SUFFICES ASSUME CalendarInit PROVE CalendarInv
  OBVIOUS
<1>1. CalendarTypeOK
  <2>1. 0 \in 0..MaxClock /\ 0 \in 0..(MaxClock + Interval) /\ 0 \in 0..MaxMoves
    BY CalendarNumbers
  <2> QED BY <2>1 DEF CalendarInit, CalendarTypeOK
<1>2. RememberedInv /\ InTimeInv
  BY CalendarNumbers DEF CalendarInit, RememberedInv, InTimeInv
<1> QED BY <1>1, <1>2 DEF CalendarInit, CalendarInv

LEMMA TickComesSoon ==
  ASSUME CalendarTypeOK, PollDue, NextTick
  PROVE  nextPoll' \in 0..(MaxClock + Interval) /\ nextPoll' <= clock + Interval
<1>1. clock \in 0..MaxClock /\ nextPoll \in Nat /\ clock >= nextPoll /\ Interval \in Nat \ {0}
      /\ MaxClock \in Nat
  BY CalendarNumbers DEF CalendarTypeOK, PollDue
<1>2. (clock - nextPoll) % Interval \in 0..(Interval - 1)
  BY <1>1
<1> QED BY <1>1, <1>2 DEF NextTick

LEMMA CalendarTypeStep == CalendarTypeOK /\ CalendarNext => CalendarTypeOK'
<1> SUFFICES ASSUME CalendarTypeOK, CalendarNext PROVE CalendarTypeOK'
  OBVIOUS
<1> USE CalendarNumbers DEF CalendarTypeOK
<1>1. CASE Poll
  <2>1. nextPoll' \in 0..(MaxClock + Interval)
    BY <1>1, TickComesSoon DEF Poll
  <2>2. \A m \in Meetings : <<m, startsAt[m]>> \in Meetings \X (1..MaxClock)
    OBVIOUS
  <2> QED BY <1>1, <2>1, <2>2 DEF Poll
<1>2. CASE PollFails
  <2>1. nextPoll' \in 0..(MaxClock + Interval)
    BY <1>2, TickComesSoon DEF PollFails
  <2> QED BY <1>2, <2>1 DEF PollFails
<1>3. CASE TimePasses
  BY <1>3 DEF TimePasses, PollDue
<1>4. CASE MoveMeeting
  BY <1>4 DEF MoveMeeting
<1>5. CASE WatchEnds
  <2>1. moves' \in 0..MaxMoves
    BY <1>5 DEF WatchEnds
  <2> QED BY <1>5, <2>1 DEF WatchEnds
<1>6. CASE WatchStarts
  BY <1>6 DEF WatchStarts
<1> QED BY <1>1, <1>2, <1>3, <1>4, <1>5, <1>6 DEF CalendarNext

LEMMA PollKeeps == CalendarInv /\ Poll => RememberedInv' /\ ~twice'
<1> SUFFICES ASSUME CalendarInv, Poll PROVE RememberedInv' /\ ~twice'
  OBVIOUS
<1> USE CalendarNumbers
<1> DEFINE kept == {f \in fired : StillFired(f)}
           soon == {m \in Meetings : StartingSoon(m)}
           new  == {m \in soon : \A f \in kept : f[1] # m}
           calls == {<<m, startsAt[m]>> : m \in new}
<1>1. /\ fired' = kept \cup {<<m, clock>> : m \in new}
      /\ sinceStart' = sinceStart \cup calls
      /\ twice' = (twice \/ calls \cap sinceStart # {})
      /\ UNCHANGED <<clock, startsAt, calendarOn, moves, missed>> /\ calendarOn
  BY DEF Poll, PollDue
<1>2. clock \in Nat /\ WarnBefore \in Nat /\ Interval \in Nat
  BY DEF CalendarInv, CalendarTypeOK
<1>3. \A f \in fired : f[1] \in Meetings /\ f[2] \in Nat
  BY DEF CalendarInv, CalendarTypeOK
<1>4. \A news \in sinceStart : news[1] \in Meetings /\ news[2] \in Nat
  BY DEF CalendarInv, CalendarTypeOK
<1>5. \A m \in Meetings : startsAt[m] \in Nat
  BY DEF CalendarInv, CalendarTypeOK
<1>6. \A news \in sinceStart :
        \/ news[2] < clock
        \/ \E f \in kept : f[1] = news[1] /\ f[2] <= news[2] /\ news[2] - f[2] <= WarnBefore
  BY <1>1, <1>2, <1>3, <1>4 DEF CalendarInv, RememberedInv, StillFired
<1>7. \A news \in calls : \E f \in fired' :
        f[1] = news[1] /\ f[2] <= news[2] /\ news[2] - f[2] <= WarnBefore
  <2>1. ASSUME NEW m \in new PROVE startsAt[m] - clock \in 0..WarnBefore /\ <<m, clock>> \in fired'
    BY <1>1, <2>1 DEF StartingSoon
  <2>2. ASSUME NEW m \in new
        PROVE  \E f \in fired' : f[1] = m /\ f[2] <= startsAt[m] /\ startsAt[m] - f[2] <= WarnBefore
    <3>1. clock <= startsAt[m] /\ startsAt[m] - clock <= WarnBefore
      <4>1. startsAt[m] \in Nat /\ startsAt[m] - clock \in 0..WarnBefore
        BY <1>5, <2>1
      <4> HIDE DEF new
      <4> QED BY <1>2, <4>1
    <3> QED BY <2>1, <2>2, <3>1
  <2> QED BY <2>2
<1>8. calls \cap sinceStart = {}
  <2>1. ASSUME NEW m \in new, <<m, startsAt[m]>> \in sinceStart PROVE FALSE
    <3>1. startsAt[m] >= clock
      BY <1>2, <1>5 DEF StartingSoon
    <3>2. \E f \in kept : f[1] = m
      BY <1>2, <1>5, <1>6, <2>1, <3>1
    <3> QED BY <3>2
  <2> QED BY <2>1
<1> HIDE DEF kept, calls, new
<1>9. ~twice'
  BY <1>1, <1>8 DEF CalendarInv
<1>10. RememberedInv'
  BY <1>1, <1>6, <1>7 DEF RememberedInv
<1> QED BY <1>9, <1>10

LEMMA RememberedStep == CalendarInv /\ CalendarNext => RememberedInv' /\ ~twice'
<1> SUFFICES ASSUME CalendarInv, CalendarNext PROVE RememberedInv' /\ ~twice'
  OBVIOUS
<1> USE CalendarNumbers
<1>1. clock \in Nat /\ \A news \in sinceStart : news[2] \in Nat
  BY DEF CalendarInv, CalendarTypeOK
<1>2. CASE Poll
  BY <1>2, PollKeeps
<1>3. CASE PollFails
  BY <1>3 DEF PollFails, CalendarInv, RememberedInv
<1>4. CASE TimePasses
  <2>1. /\ clock' = clock + 1
        /\ UNCHANGED <<startsAt, calendarOn, nextPoll, fired, announced, sinceStart, twice>>
    BY <1>4 DEF TimePasses
  <2> QED BY <1>1, <2>1 DEF CalendarInv, RememberedInv
<1>5. CASE MoveMeeting
  BY <1>5 DEF MoveMeeting, CalendarInv, RememberedInv
<1>6. CASE WatchEnds
  BY <1>6 DEF WatchEnds, CalendarInv, RememberedInv
<1>7. CASE WatchStarts
  BY <1>7 DEF WatchStarts, CalendarInv, RememberedInv
<1> QED BY <1>2, <1>3, <1>4, <1>5, <1>6, <1>7 DEF CalendarNext

LEMMA InTimeStep ==
  CalendarTypeOK /\ WarnBefore >= Interval /\ InTimeInv /\ CalendarNext => InTimeInv'
<1> SUFFICES ASSUME CalendarTypeOK, WarnBefore >= Interval, InTimeInv, CalendarNext
             PROVE  InTimeInv'
  OBVIOUS
<1> USE CalendarNumbers
<1>1. /\ clock \in Nat /\ nextPoll \in Nat
      /\ \A m \in Meetings : startsAt[m] \in Nat
  BY DEF CalendarTypeOK
<1>2. CASE Poll
  <2>1. nextPoll' \in Nat /\ nextPoll' <= clock + Interval
    BY <1>2, TickComesSoon DEF Poll
  <2>2. UNCHANGED <<clock, startsAt, calendarOn>> /\ calendarOn
    BY <1>2 DEF Poll, PollDue
  <2>3. ASSUME NEW m \in Meetings
        PROVE  \/ m \in forgiven' \/ <<m, startsAt[m]>> \in announced'
               \/ startsAt[m] < clock \/ nextPoll' <= startsAt[m]
    <3>1. CASE StartingSoon(m)
      BY <1>2, <3>1 DEF Poll
    <3>2. CASE ~StartingSoon(m)
      <4>1. startsAt[m] < clock \/ startsAt[m] > clock + WarnBefore
        BY <1>1, <3>2 DEF StartingSoon
      <4> QED BY <1>1, <2>1, <4>1
    <3> QED BY <3>1, <3>2
  <2> QED BY <2>2, <2>3 DEF InTimeInv
<1>3. CASE PollFails
  <2>1. nextPoll' \in Nat /\ nextPoll' <= clock + Interval
    BY <1>3, TickComesSoon DEF PollFails
  <2>2. UNCHANGED <<clock, startsAt, calendarOn, announced>>
    BY <1>3 DEF PollFails
  <2>3. ASSUME NEW m \in Meetings
        PROVE  m \in forgiven' \/ startsAt[m] < clock \/ nextPoll' <= startsAt[m]
    <3>1. CASE StartingSoon(m)
      BY <1>3, <3>1 DEF PollFails
    <3>2. CASE ~StartingSoon(m)
      <4>1. startsAt[m] < clock \/ startsAt[m] > clock + WarnBefore
        BY <1>1, <3>2 DEF StartingSoon
      <4> QED BY <1>1, <2>1, <4>1
    <3> QED BY <3>1, <3>2
  <2> QED BY <2>2, <2>3 DEF InTimeInv
<1>4. CASE TimePasses
  <2>1. /\ clock' = clock + 1 /\ forgiven \subseteq forgiven'
        /\ UNCHANGED <<startsAt, calendarOn, nextPoll, announced>>
    BY <1>4 DEF TimePasses
  <2> QED BY <1>1, <2>1 DEF InTimeInv
<1>5. CASE MoveMeeting
  <2>1. PICK m \in Meetings, s \in clock + 1..MaxClock :
          /\ startsAt' = [startsAt EXCEPT ![m] = s]
          /\ forgiven' = IF s < nextPoll THEN forgiven \cup {m} ELSE forgiven \ {m}
    BY <1>5 DEF MoveMeeting
  <2>2. startsAt'[m] = s /\ \A n \in Meetings \ {m} : startsAt'[n] = startsAt[n]
    BY <2>1 DEF CalendarTypeOK
  <2>3. UNCHANGED <<clock, calendarOn, nextPoll, announced>>
    BY <1>5 DEF MoveMeeting
  <2>4. m \in forgiven' \/ nextPoll <= s
    BY <1>1, <2>1
  <2>5. \A n \in Meetings \ {m} : n \in forgiven => n \in forgiven'
    BY <2>1
  <2> QED BY <2>2, <2>3, <2>4, <2>5 DEF InTimeInv
<1>6. CASE WatchEnds
  BY <1>6 DEF WatchEnds, InTimeInv
<1>7. CASE WatchStarts
  BY <1>1, <1>7 DEF WatchStarts, InTimeInv
<1> QED BY <1>2, <1>3, <1>4, <1>5, <1>6, <1>7 DEF CalendarNext

LEMMA NothingMissed ==
  CalendarTypeOK /\ InTimeInv /\ missed = {} /\ CalendarNext => missed' = {}
<1> SUFFICES ASSUME CalendarTypeOK, InTimeInv, missed = {}, CalendarNext PROVE missed' = {}
  OBVIOUS
<1> USE CalendarNumbers
<1>1. /\ clock \in Nat /\ nextPoll \in Nat
      /\ \A m \in Meetings : startsAt[m] \in Nat
  BY DEF CalendarTypeOK
<1>2. CASE TimePasses
  <2> DEFINE late == IF PollDue \/ ~calendarOn THEN {m \in Meetings : StartingSoon(m)} ELSE {}
             over == {m \in Meetings : startsAt[m] = clock /\ <<m, clock>> \notin announced}
  <2>1. forgiven' = forgiven \cup late /\ missed' = missed \cup (over \ forgiven')
    BY <1>2 DEF TimePasses
  <2>2. ASSUME NEW m \in over PROVE m \in forgiven \cup late
    <3>1. StartingSoon(m)
      BY <1>1 DEF StartingSoon
    <3>2. CASE PollDue \/ ~calendarOn
      BY <3>1, <3>2
    <3>3. CASE ~(PollDue \/ ~calendarOn)
      BY <1>1, <3>3 DEF PollDue, InTimeInv
    <3> QED BY <3>2, <3>3
  <2> HIDE DEF late, over
  <2> QED BY <2>1, <2>2
<1>3. CASE Poll \/ PollFails \/ MoveMeeting \/ WatchEnds \/ WatchStarts
  BY <1>3 DEF Poll, PollFails, MoveMeeting, WatchEnds, WatchStarts
<1> QED BY <1>2, <1>3 DEF CalendarNext

LEMMA CalendarStep == CalendarInv /\ [CalendarNext]_calendarVars => CalendarInv'
<1>1. CalendarInv /\ CalendarNext => CalendarInv'
  BY CalendarTypeStep, RememberedStep, InTimeStep, NothingMissed DEF CalendarInv
<1>2. CalendarInv /\ UNCHANGED calendarVars => CalendarInv'
  BY DEF CalendarInv, CalendarTypeOK, RememberedInv, InTimeInv, calendarVars
<1> QED BY <1>1, <1>2

-----------------------------------------------------------------------------
(* The settings *)

Sections ==
  {"default", "fallback", "creds", "route", "skill", "account", "server", "plano", "embed",
   "intel", "gateway", "channel", "detail", "text", "none"}

EditorState ==
  [pc : {"idle", "load", "read", "open", "write"}, name : CommandNames \cup {"none"},
   item : Settings \cup {<<"none", "none">>}, rest : SUBSET SkillNames, wizard : BOOLEAN,
   base : SUBSET Settings, next : SUBSET Settings, parses : BOOLEAN, said : SUBSET Sections]

\* The wizard runs only with a text to write, and all but "onboard" are about a setting.
Sound(r) ==
  /\ r.wizard => r.pc \in {"open", "write"}
  /\ r.name \notin {"onboard", "none"} => r.item \in Settings
  /\ r.pc = "read" => r.name \notin {"onboard", "none"}
  /\ r.rest # {} => r.name = "skills configure"

\* Settings that a command decides, and those that its text cannot have.
Decides(r, i) == IF r.wizard THEN i[1] \in r.said ELSE i = r.item \/ i \in Expanded(r)

LeavesOut(r, i) == r.wizard /\ i[1] \in Unwritten

\* A command's text has, but for these, the settings that it read.
Follows(r) ==
  r.pc \in {"open", "write"} =>
    \A i \in Settings :
      /\ LeavesOut(r, i) => i \notin r.next
      /\ LeavesOut(r, i) \/ Decides(r, i) \/ (i \in r.next <=> i \in r.base)

EditTypes ==
  /\ settings \in [state : {"missing", "empty", "ok", "unparsable"}, items : SUBSET Settings]
  /\ editor \in [Editors -> EditorState]
  /\ wanted \subseteq Settings /\ excused \subseteq Settings
  /\ \A e \in Editors : Sound(editor[e]) /\ Follows(editor[e])

NotWriting(e) == editor[e].pc # "write"

\* Without a writer the file has what the users were told; the lone writer of a truncated
\* file is about to write that.
SettingsInv ==
  /\ (\A e \in Editors : NotWriting(e)) =>
       \A i \in Settings : i \in excused \/ (i \in settings.items <=> i \in wanted)
  /\ \A e \in Editors :
       (~NotWriting(e) /\ settings.state = "empty" /\ \A d \in Editors \ {e} : NotWriting(d)) =>
         \A i \in Settings : LeavesOut(editor[e], i) \/ Decides(editor[e], i) \/ i \in excused
                               \/ (i \in editor[e].next <=> i \in wanted)

\* A file that is left empty or unparsable took all along, and where none is yet, commands
\* start from nothing, or from what the environment gives.
LostInv ==
  /\ settings.state # "ok" => settings.items = {}
  /\ \/ settings.state = "unparsable"
     \/ settings.state = "empty" /\ \A e \in Editors : NotWriting(e)
     => Settings \subseteq excused
  /\ settings.state = "missing" =>
       \A e \in Editors : /\ NotWriting(e)
                          /\ editor[e].pc = "open" => editor[e].base \subseteq excused

ConfigInv == EditTypes /\ SettingsInv /\ LostInv

\* The settings of each section.
LEMMA SectionsOfSettings ==
  /\ \A p \in ProviderNames, s \in {"default", "fallback", "creds"} : <<s, p>> \in Settings
  /\ \A t \in {"coding", "vision"} : <<"route", t>> \in Settings
  /\ \A s \in SkillNames : <<"skill", s>> \in Settings
  /\ {<<"plano", "on">>, <<"embed", "chosen">>, <<"intel", "on">>, <<"gateway", "lan">>,
      <<"gateway", "token">>, <<"channel", "telegram">>} \subseteq Settings
  /\ \A i \in Settings : i[1] \in Sections /\ i # <<"none", "none">> /\ i[1] # "none"
  /\ \A i \in Settings : i[1] \notin Unwritten =>
       \/ i[1] \in {"default", "fallback"}
       \/ i[1] = "route" /\ \E t \in {"coding", "vision"} : i = <<"route", t>>
       \/ i[1] = "skill" /\ \E s \in SkillNames : i = <<"skill", s>>
       \/ i = <<"plano", "on">> \/ i = <<"embed", "chosen">> \/ i = <<"intel", "on">>
       \/ i[1] = "gateway" \/ i = <<"channel", "telegram">>
<1>1. \A p \in ProviderNames, s \in {"default", "fallback", "creds"} : <<s, p>> \in Settings
  BY DEF Settings
<1>2. \A t \in {"coding", "vision"} : <<"route", t>> \in Settings
  BY DEF Settings
<1>3. \A s \in SkillNames : <<"skill", s>> \in Settings
  BY DEF Settings
<1>4. {<<"plano", "on">>, <<"embed", "chosen">>, <<"intel", "on">>, <<"gateway", "lan">>,
       <<"gateway", "token">>, <<"channel", "telegram">>} \subseteq Settings
  BY DEF Settings
<1>5. ASSUME NEW i \in Settings
      PROVE  /\ i[1] \in Sections /\ i # <<"none", "none">> /\ i[1] # "none"
             /\ i[1] \notin Unwritten =>
                  \/ i[1] \in {"default", "fallback"}
                  \/ i[1] = "route" /\ \E t \in {"coding", "vision"} : i = <<"route", t>>
                  \/ i[1] = "skill" /\ \E s \in SkillNames : i = <<"skill", s>>
                  \/ i = <<"plano", "on">> \/ i = <<"embed", "chosen">> \/ i = <<"intel", "on">>
                  \/ i[1] = "gateway" \/ i = <<"channel", "telegram">>
  <2>1. CASE i \in {"default", "fallback", "creds"} \X ProviderNames
    BY <2>1 DEF Unwritten, Sections
  <2>2. CASE i \in {"route"} \X {"coding", "vision"}
    BY <2>2 DEF Sections
  <2>3. CASE i \in {"skill"} \X SkillNames
    BY <2>3 DEF Sections
  <2>4. CASE i \in ({"account"} \X Accounts) \cup ({"server"} \X Servers)
    BY <2>4 DEF Unwritten, Sections
  <2>5. CASE i \in {<<"plano", "on">>, <<"embed", "chosen">>, <<"intel", "on">>,
                    <<"gateway", "lan">>, <<"gateway", "token">>, <<"channel", "telegram">>,
                    <<"detail", "palace">>, <<"text", "reference">>, <<"text", "blank">>}
    BY <2>5 DEF Unwritten, Sections
  <2> QED BY <2>1, <2>2, <2>3, <2>4, <2>5 DEF Settings
<1> QED BY <1>1, <1>2, <1>3, <1>4, <1>5

\* An answer is about one question, and about none of what the wizard does not write.
LEMMA AnswerTypes ==
  ASSUME NEW a \in Answers
  PROVE  /\ a[1] \in Sections /\ a[1] \notin Unwritten
         /\ a[1] = "default" => a[2] \in ProviderNames
         /\ a[1] = "fallback" => a[2] \in ProviderNames \cup {"none"}
<1>1. CASE a = <<"none", Keep>>
  BY <1>1 DEF Unwritten, Sections
<1>2. CASE a \in {"default"} \X ProviderNames
  BY <1>2 DEF Unwritten, Sections
<1>3. CASE a \in {"fallback"} \X (ProviderNames \cup {"none"})
  BY <1>3 DEF Unwritten, Sections
<1>4. CASE a \in ({"route"} \X {"coding", "vision"}) \cup ({"skill"} \X SkillNames)
  BY <1>4 DEF Unwritten, Sections
<1>5. CASE a \in {"plano", "embed", "intel", "gateway", "channel"} \X {"on", "off"}
  BY <1>5 DEF Unwritten, Sections
<1> QED BY <1>1, <1>2, <1>3, <1>4, <1>5 DEF Answers

Answer(a, s) == IF a[1] = s THEN a[2] ELSE Keep

\* What the wizard writes of a section: nothing of another one, and what was there before
\* if the question was not answered anew.
Asked(old, a, s) ==
  CASE s = "default"  -> AskPrimary(old, Answer(a, s))
    [] s = "fallback" -> AskSecondary(old, Answer(a, s))
    [] s = "plano"    -> AskPlano(old, AskSecondary(old, Answer(a, "fallback")), Answer(a, s))
    [] s = "route"    -> AskRoutes(old, Answer(a, s))
    [] s = "embed"    -> AskEmbedding(old, Answer(a, s))
    [] s = "intel"    -> AskLocalIntel(old, Answer(a, s))
    [] s = "gateway"  -> AskGateway(old, Answer(a, s))
    [] s = "channel"  -> AskChannels(old, Answer(a, s))
    [] s = "skill"    -> AskSkills(old, Answer(a, s))

AskedSections ==
  {"default", "fallback", "plano", "route", "embed", "intel", "gateway", "channel", "skill"}

LEMMA AskedOfSection ==
  ASSUME NEW old \in SUBSET Settings, NEW a \in Answers, NEW s \in AskedSections
  PROVE  /\ Asked(old, a, s) \subseteq Settings
         /\ \A i \in Asked(old, a, s) : i[1] = s
         /\ (a[1] # s /\ s # "gateway" /\ (s = "default" => Section(old, s) # {})) =>
              \A i \in Settings : i[1] = s => (i \in Asked(old, a, s) <=> i \in old)
<1> DEFINE c == Answer(a, s)
<1>k. a[1] # s => c = Keep
  BY DEF Answer
<1>1. CASE s = "default"
  <2>1. Asked(old, a, s) = AskPrimary(old, c)
    BY <1>1 DEF Asked
  <2>2. PrimaryKept(old) \subseteq Settings /\ \A i \in PrimaryKept(old) : i[1] = s
    <3>1. (CHOOSE p \in ProviderNames : TRUE) \in ProviderNames
      BY ConfigAssumption
    <3>2. <<s, CHOOSE p \in ProviderNames : TRUE>> \in Settings
      BY <3>1, <1>1, SectionsOfSettings
    <3>3. \/ PrimaryKept(old) = {<<s, CHOOSE p \in ProviderNames : TRUE>>}
          \/ PrimaryKept(old) = {i \in old : i[1] = s}
      BY <1>1 DEF PrimaryKept, Section
    <3>4. {i \in old : i[1] = s} \subseteq Settings
      OBVIOUS
    <3>5. CASE PrimaryKept(old) = {<<s, CHOOSE p \in ProviderNames : TRUE>>}
      BY <3>2, <3>5
    <3>6. CASE PrimaryKept(old) = {i \in old : i[1] = s}
      BY <3>4, <3>6
    <3> QED BY <3>3, <3>5, <3>6
  <2>3. c # Keep => c \in ProviderNames
    BY <1>1, AnswerTypes DEF Answer
  <2>4. Section(old, s) # {} =>
          \A i \in Settings : i[1] = s => (i \in PrimaryKept(old) <=> i \in old)
    BY <1>1 DEF PrimaryKept, Section
  <2> HIDE DEF c
  <2>5. CASE c = Keep
    <3>1. Asked(old, a, s) = PrimaryKept(old)
      BY <2>1, <2>5 DEF AskPrimary
    <3> QED BY <3>1, <2>2, <2>4, <1>1
  <2>6. CASE c # Keep
    <3>1. Asked(old, a, s) = {<<s, c>>} /\ <<s, c>> \in Settings /\ a[1] = s
      BY <1>k, <1>1, <2>1, <2>3, <2>6, SectionsOfSettings DEF AskPrimary
    <3> QED BY <3>1
  <2> QED BY <2>5, <2>6
<1>2. CASE s = "fallback"
  <2>1. Asked(old, a, s) = AskSecondary(old, c)
    BY <1>2 DEF Asked
  <2>2. c # Keep => c \in ProviderNames \cup {"none"}
    BY <1>2, AnswerTypes DEF Answer
  <2> HIDE DEF c
  <2>3. AskSecondary(old, Keep) = Section(old, s)
    BY <1>2 DEF AskSecondary, SecondaryKept, Keep
  <2>4. c # Keep => /\ AskSecondary(old, c) \in {{}, {<<s, c>>}}
                    /\ c = "none" => AskSecondary(old, c) = {}
    BY <1>2 DEF AskSecondary
  <2>5. CASE c = Keep
    BY <2>1, <2>3, <2>5 DEF Section
  <2>6. CASE c # Keep
    <3>1. a[1] = s /\ (c # "none" => <<s, c>> \in Settings)
      BY <1>k, <1>2, <2>2, <2>6, SectionsOfSettings
    <3>2. Asked(old, a, s) = {} \/ (Asked(old, a, s) = {<<s, c>>} /\ c # "none")
      BY <2>1, <2>4, <2>6
    <3> QED BY <3>1, <3>2
  <2> QED BY <2>5, <2>6
<1>3. CASE s = "plano"
  BY <1>3, <1>k, SectionsOfSettings DEF Asked, AskPlano, Chosen, Keep, Unwritten
<1>4. CASE s = "route"
  <2>1. Asked(old, a, s) =
          {<<s, t>> : t \in {t \in {"coding", "vision"} : (<<s, t>> \in old) # (c = t)}}
    BY <1>4 DEF Asked, AskRoutes
  <2>2. \A t \in {"coding", "vision"} : c = Keep => c # t
    BY DEF Keep
  <2> HIDE DEF c
  <2>3. \A i \in Settings : i[1] = s => \E t \in {"coding", "vision"} : i = <<s, t>>
    BY <1>4, SectionsOfSettings DEF Unwritten
  <2>4. \A t \in {"coding", "vision"} : <<s, t>> \in Settings
    BY <1>4, SectionsOfSettings
  <2>5. ASSUME a[1] # s, NEW i \in Settings, i[1] = s PROVE i \in Asked(old, a, s) <=> i \in old
    <3>1. PICK t \in {"coding", "vision"} : i = <<s, t>>
      BY <2>3, <2>5
    <3>2. c # t
      BY <1>k, <2>2, <2>5
    <3>3. i \in Asked(old, a, s) <=> (<<s, t>> \in old) # (c = t)
      BY <2>1, <3>1
    <3> QED BY <3>1, <3>2, <3>3
  <2>6. Asked(old, a, s) \subseteq Settings /\ \A i \in Asked(old, a, s) : i[1] = s
    <3>1. ASSUME NEW i \in Asked(old, a, s) PROVE i \in Settings /\ i[1] = s
      <4>1. PICK t \in {"coding", "vision"} : i = <<s, t>>
        BY <2>1, <3>1
      <4> QED BY <4>1, <2>4
    <3> QED BY <3>1
  <2> QED BY <2>5, <2>6
<1>5. CASE s = "embed"
  BY <1>5, <1>k, SectionsOfSettings DEF Asked, AskEmbedding, Chosen, Keep, Unwritten
<1>6. CASE s = "intel"
  BY <1>6, <1>k, SectionsOfSettings DEF Asked, AskLocalIntel, Chosen, Keep, Unwritten
<1>7. CASE s = "gateway"
  BY <1>7, SectionsOfSettings DEF Asked, AskGateway, Chosen
<1>8. CASE s = "channel"
  BY <1>8, <1>k, SectionsOfSettings DEF Asked, AskChannels, Chosen, Keep, Unwritten
<1>9. CASE s = "skill"
  <2>1. Asked(old, a, s) =
          {<<s, t>> : t \in {t \in SkillNames : (<<s, t>> \in old) # (c = t)}}
    BY <1>9 DEF Asked, AskSkills
  <2>2. \A t \in SkillNames : c = Keep => c # t
    BY ConfigAssumption
  <2> HIDE DEF c
  <2>3. \A i \in Settings : i[1] = s => \E t \in SkillNames : i = <<s, t>>
    BY <1>9, SectionsOfSettings DEF Unwritten
  <2>4. \A t \in SkillNames : <<s, t>> \in Settings
    BY <1>9, SectionsOfSettings
  <2>5. ASSUME a[1] # s, NEW i \in Settings, i[1] = s PROVE i \in Asked(old, a, s) <=> i \in old
    <3>1. PICK t \in SkillNames : i = <<s, t>>
      BY <2>3, <2>5
    <3>2. c # t
      BY <1>k, <2>2, <2>5
    <3>3. i \in Asked(old, a, s) <=> (<<s, t>> \in old) # (c = t)
      BY <2>1, <3>1
    <3> QED BY <3>1, <3>2, <3>3
  <2>6. Asked(old, a, s) \subseteq Settings /\ \A i \in Asked(old, a, s) : i[1] = s
    <3>1. ASSUME NEW i \in Asked(old, a, s) PROVE i \in Settings /\ i[1] = s
      <4>1. PICK t \in SkillNames : i = <<s, t>>
        BY <2>1, <3>1
      <4> QED BY <4>1, <2>4
    <3> QED BY <3>1
  <2> QED BY <2>5, <2>6
<1> QED BY <1>1, <1>2, <1>3, <1>4, <1>5, <1>6, <1>7, <1>8, <1>9 DEF AskedSections

LEMMA WizardWrites ==
  ASSUME NEW old \in SUBSET Settings, NEW a \in Answers
  PROVE  /\ WizardText(old, a) \subseteq Settings
         /\ \A i \in WizardText(old, a) : i[1] \notin Unwritten
         /\ \A i \in Settings :
              (/\ i[1] \notin Unwritten /\ i[1] \notin {a[1], "gateway"}
               /\ i[1] = "default" => Section(old, "default") # {})
              => (i \in WizardText(old, a) <=> i \in old)
<1>1. \A i : i \in WizardText(old, a) <=> \E s \in AskedSections : i \in Asked(old, a, s)
  BY DEF WizardText, Asked, AskedSections, Answer
<1>2. \A s \in AskedSections : s \notin Unwritten
  BY DEF AskedSections, Unwritten
<1>3. \A i \in Settings : i[1] \notin Unwritten => i[1] \in AskedSections
  BY SectionsOfSettings DEF AskedSections
<1>4. \A s \in AskedSections : /\ Asked(old, a, s) \subseteq Settings
                               /\ \A i \in Asked(old, a, s) : i[1] = s
  BY AskedOfSection
<1>5. ASSUME NEW i \in Settings, i[1] \notin Unwritten, i[1] \notin {a[1], "gateway"},
             i[1] = "default" => Section(old, "default") # {}
      PROVE  i \in WizardText(old, a) <=> i \in old
  <2>1. i[1] \in AskedSections
    BY <1>3, <1>5
  <2>2. i \in Asked(old, a, i[1]) <=> i \in old
    BY <2>1, <1>5, AskedOfSection
  <2>3. i \in WizardText(old, a) <=> i \in Asked(old, a, i[1])
    BY <2>1, <1>1, <1>4
  <2> QED BY <2>2, <2>3
<1> QED BY <1>1, <1>2, <1>4, <1>5

-----------------------------------------------------------------------------
LEMMA NobodyTypes ==
  /\ Nobody \in EditorState /\ Nobody.pc = "idle" /\ ~Nobody.wizard /\ Nobody.name = "none"
  /\ Nobody.rest = {} /\ Sound(Nobody) /\ Follows(Nobody)
<1>1. Nobody = [pc |-> "idle", name |-> "none", item |-> <<"none", "none">>, rest |-> {},
                wizard |-> FALSE, base |-> {}, next |-> {}, parses |-> TRUE, said |-> {}]
  BY DEF Nobody
<1>2. FALSE \in BOOLEAN /\ TRUE \in BOOLEAN
  OBVIOUS
<1>3. Nobody \in EditorState
  BY <1>1, <1>2 DEF EditorState
<1> QED BY <1>1, <1>3 DEF Sound, Follows

LEMMA CompleteTypes ==
  ASSUME NEW p \in ProviderNames, NEW q \in ProviderNames
  PROVE  complete(p, q) \subseteq Settings
<1>1. {<<"default", p>>, <<"fallback", q>>, <<"route", "coding">>} \subseteq Settings
  BY SectionsOfSettings
<1>2. {<<"plano", "on">>, <<"gateway", "token">>, <<"channel", "telegram">>,
       <<"detail", "palace">>, <<"text", "reference">>} \subseteq Settings
  BY DEF Settings
<1>3. <<"server", Palace>> \in Settings
  BY ConfigAssumption DEF Settings
<1>4. ({"skill"} \X SkillNames) \cup ({"account"} \X Accounts) \subseteq Settings
  BY DEF Settings
<1> QED BY <1>1, <1>2, <1>3, <1>4 DEF complete

LEMMA ConfigBegins == ConfigInit => ConfigInv
<1> SUFFICES ASSUME ConfigInit PROVE ConfigInv
  OBVIOUS
<1>1. \A e \in Editors : editor[e] = Nobody
  BY DEF ConfigInit
<1>2. editor \in [Editors -> EditorState]
  BY NobodyTypes DEF ConfigInit
<1>3. /\ settings \in [state : {"missing", "empty", "ok", "unparsable"}, items : SUBSET Settings]
      /\ settings.state \in {"missing", "ok"} /\ (settings.state = "missing" => settings.items = {})
  <2>1. CASE settings = [state |-> "missing", items |-> {}]
    BY <2>1
  <2>2. ASSUME NEW p \in ProviderNames, NEW q \in ProviderNames,
               settings = [state |-> "ok", items |-> complete(p, q)]
        PROVE  <1>3!1 /\ settings.state = "ok"
    BY <2>2, CompleteTypes
  <2> QED BY <2>1, <2>2 DEF ConfigInit
<1>4. wanted = settings.items /\ excused = {}
  BY DEF ConfigInit
<1>5. EditTypes
  BY <1>1, <1>2, <1>3, <1>4, NobodyTypes DEF EditTypes
<1>6. SettingsInv /\ LostInv
  BY <1>1, <1>3, <1>4, NobodyTypes DEF SettingsInv, LostInv, NotWriting
<1> QED BY <1>5, <1>6 DEF ConfigInv

LEMMA RestTypes ==
  ASSUME EditTypes, NEW e \in Editors
  PROVE  /\ Rest(e) \in EditorState /\ Sound(Rest(e)) /\ Follows(Rest(e))
         /\ Rest(e).pc \in {"idle", "read"}
<1>1. PICK now \in EditorState : now = editor[e]
  BY DEF EditTypes
<1>2. PICK q \in EditorState : q = Nobody
  BY NobodyTypes
<1>3. CASE now.rest = {}
  BY <1>1, <1>3, NobodyTypes DEF Rest
<1>4. CASE now.rest # {}
  <2>1. PICK s \in now.rest :
          Rest(e) = [q EXCEPT !.pc = "read", !.name = now.name, !.item = <<"skill", s>>,
                              !.rest = now.rest \ {s}]
    BY <1>1, <1>2, <1>4 DEF Rest
  <2>2. PICK r : r = [q EXCEPT !.pc = "read", !.name = now.name, !.item = <<"skill", s>>,
                               !.rest = now.rest \ {s}]
    OBVIOUS
  <2>3. now.rest \subseteq SkillNames /\ now.name \in CommandNames \cup {"none"}
    BY now \in EditorState DEF EditorState
  <2>4. <<"skill", s>> \in Settings
    BY <2>3, SectionsOfSettings
  <2>5. now.name = "skills configure"
    BY <1>1, <1>4 DEF EditTypes, Sound
  <2>6. /\ r \in EditorState /\ r.pc = "read" /\ r.name = now.name /\ r.item = <<"skill", s>>
        /\ r.wizard = q.wizard
    BY <2>2, <2>3, <2>4, q \in EditorState DEF EditorState
  <2>7. Sound(r) /\ Follows(r)
    BY <1>2, <2>4, <2>5, <2>6, NobodyTypes DEF Sound, Follows
  <2> QED BY <2>1, <2>2, <2>6, <2>7
<1> QED BY <1>3, <1>4

\* The command that a process runs changes, and those of the others do not.
Becomes(e, r) ==
  /\ r \in EditorState /\ Sound(r) /\ Follows(r)
  /\ editor' = [editor EXCEPT ![e] = r]

LEMMA GiveBecomes ==
  ASSUME EditTypes, NEW e \in Editors, GiveCommand(e)
  PROVE  \E r : Becomes(e, r) /\ r.pc = "load"
<1>1. PICK name \in CommandNames, item \in Settings \cup {<<"none", "none">>},
           rest \in SUBSET SkillNames :
        /\ item[1] = CASE name \in ServerCommands -> "server"
                       [] name = "email setup" -> "account"
                       [] name = "onboard" -> "none"
                       [] OTHER -> "skill"
        /\ rest # {} => name = "skills configure"
        /\ editor' = [editor EXCEPT ![e] = [Nobody EXCEPT !.pc = "load", !.name = name,
                                                          !.item = item, !.rest = rest]]
  BY DEF GiveCommand
<1>2. PICK q \in EditorState : q = Nobody
  BY NobodyTypes
<1>3. PICK r : r = [q EXCEPT !.pc = "load", !.name = name, !.item = item, !.rest = rest]
  OBVIOUS
<1>4. /\ r \in EditorState /\ r.pc = "load" /\ r.name = name /\ r.item = item /\ r.rest = rest
      /\ r.wizard = q.wizard
  BY <1>3, q \in EditorState DEF EditorState
<1>5. name # "onboard" => item[1] # "none"
  BY <1>1 DEF ServerCommands
<1>6. name # "onboard" => item \in Settings
  BY <1>5
<1>7. Sound(r) /\ Follows(r)
  BY <1>1, <1>2, <1>4, <1>6, NobodyTypes DEF Sound, Follows
<1> QED BY <1>1, <1>2, <1>3, <1>4, <1>7 DEF Becomes

LEMMA OnboardBecomes ==
  ASSUME EditTypes, LostInv, NEW e \in Editors, Onboard(e)
  PROVE  \E r : Becomes(e, r) /\ r.pc = "open" /\ r.base = settings.items
<1>1. PICK now \in EditorState : now = editor[e]
  BY DEF EditTypes
<1> DEFINE old == IF Loadable THEN settings.items ELSE {}
           said(a) == IF ~Loadable THEN {i[1] : i \in Settings} \ Unwritten
                      ELSE IF Section(old, "default") = {} THEN {a[1], "gateway", "default"}
                      ELSE {a[1], "gateway"}
<1>2. PICK a \in Answers :
        editor' = [editor EXCEPT
            ![e].pc = "open", ![e].wizard = TRUE,
            ![e].base = settings.items, ![e].next = WizardText(old, a),
            ![e].parses = OneKeyEach(WizardText(old, a)),
            ![e].said = said(a)]
  BY DEF Onboard
<1> DEFINE text == WizardText(old, a)
           parses == OneKeyEach(text)
<1>3. PICK r : r = [now EXCEPT !.pc = "open", !.wizard = TRUE, !.base = settings.items,
                               !.next = text, !.parses = parses, !.said = said(a)]
  OBVIOUS
<1>4. old \in SUBSET Settings /\ settings.items \in SUBSET Settings
  BY DEF EditTypes
<1>5. text \in SUBSET Settings
  BY <1>4, WizardWrites
<1>6. parses \in BOOLEAN
  BY DEF OneKeyEach
<1>7. said(a) \in SUBSET Sections
  BY SectionsOfSettings, AnswerTypes DEF Sections
<1>8. \A i \in Settings :
        /\ i[1] \in Unwritten => i \notin text
        /\ i[1] \in Unwritten \/ i[1] \in said(a) \/ (i \in text <=> i \in settings.items)
  <2>1. CASE ~Loadable
    BY <2>1, <1>4, WizardWrites
  <2>2. CASE Loadable
    BY <2>2, <1>4, WizardWrites
  <2> QED BY <2>1, <2>2
<1>9. editor' = [editor EXCEPT ![e] = r]
  BY <1>1, <1>2, <1>3
<1> HIDE DEF said, text, parses, old
<1>10. /\ r \in EditorState /\ r.pc = "open" /\ r.wizard = TRUE /\ r.base = settings.items
       /\ r.next = text /\ r.said = said(a) /\ r.name = now.name /\ r.item = now.item
       /\ r.rest = now.rest
  BY <1>3, <1>4, <1>5, <1>6, <1>7, now \in EditorState DEF EditorState
<1>11. Sound(r)
  BY <1>1, <1>10 DEF EditTypes, Sound
<1>12. Follows(r)
  BY <1>8, <1>10 DEF Follows, LeavesOut, Decides
<1> QED BY <1>9, <1>10, <1>11, <1>12 DEF Becomes

\* What a command leaves that goes on without writing, and what it starts from if there is
\* no file.
Calm(e, r) ==
  /\ Becomes(e, r) /\ NotWriting(e) /\ r.pc # "write"
  /\ UNCHANGED <<settings, wanted>> /\ excused \subseteq excused' /\ excused' \subseteq Settings
  /\ settings.state = "missing" /\ r.pc = "open" => r.base \subseteq excused'

LEMMA InterruptedCalm ==
  ASSUME EditTypes, LostInv, NEW e \in Editors, Interrupted(e)
  PROVE  \E r : Calm(e, r)
<1>1. PICK now \in EditorState : now = editor[e]
  BY DEF EditTypes
<1>2. now.pc = "open" /\ Sound(now) /\ UNCHANGED <<settings, wanted>> /\ excused \subseteq Settings
  BY <1>1 DEF Interrupted, EditTypes
<1>3. CASE editor' = [editor EXCEPT ![e] = Nobody] /\ UNCHANGED excused
  BY <1>1, <1>2, <1>3, NobodyTypes DEF Calm, Becomes, NotWriting
<1>4. CASE /\ now.name \in LoadingSwitches
           /\ editor' = [editor EXCEPT ![e].pc = "read", ![e].wizard = FALSE]
           /\ UNCHANGED excused
  <2>1. PICK r : r = [now EXCEPT !.pc = "read", !.wizard = FALSE]
    OBVIOUS
  <2>2. /\ r \in EditorState /\ r.pc = "read" /\ r.wizard = FALSE /\ r.name = now.name
        /\ r.item = now.item /\ r.rest = now.rest
    BY <2>1, now \in EditorState DEF EditorState
  <2>3. now.name \notin {"onboard", "none"}
    BY <1>4 DEF LoadingSwitches
  <2>4. Sound(r) /\ Follows(r)
    BY <2>2, <2>3, <1>2 DEF Sound, Follows
  <2>5. editor' = [editor EXCEPT ![e] = r]
    BY <2>1, <1>1, <1>4
  <2> QED BY <2>2, <2>4, <2>5, <1>1, <1>2, <1>4 DEF Calm, Becomes, NotWriting
<1>5. ASSUME NEW env \in FromEnv, now.name = "mcp add",
             editor' = [editor EXCEPT ![e].base = env, ![e].next = env \cup {now.item},
                                      ![e].wizard = FALSE, ![e].parses = TRUE],
             excused' = excused \cup env
      PROVE  \E r : Calm(e, r)
  <2>1. env \in SUBSET Settings
    BY SectionsOfSettings DEF FromEnv
  <2>2. now.item \in Settings
    BY <1>2, <1>5 DEF Sound
  <2>3. PICK r : r = [now EXCEPT !.base = env, !.next = env \cup {now.item}, !.wizard = FALSE,
                                 !.parses = TRUE]
    OBVIOUS
  <2>4. /\ r \in EditorState /\ r.pc = now.pc /\ r.wizard = FALSE /\ r.name = now.name
        /\ r.item = now.item /\ r.rest = now.rest /\ r.base = env
        /\ r.next = env \cup {now.item}
    BY <2>1, <2>2, <2>3, now \in EditorState DEF EditorState
  <2>5. Sound(r)
    BY <2>4, <1>2 DEF Sound
  <2>6. Follows(r)
    BY <2>4 DEF Follows, LeavesOut, Decides
  <2>7. editor' = [editor EXCEPT ![e] = r]
    BY <2>3, <1>1, <1>5
  <2>8. excused \subseteq excused' /\ excused' \subseteq Settings /\ r.base \subseteq excused'
    BY <2>1, <2>4, <1>2, <1>5
  <2> QED BY <2>4, <2>5, <2>6, <2>7, <2>8, <1>1, <1>2 DEF Calm, Becomes, NotWriting
<1> QED BY <1>1, <1>3, <1>4, <1>5 DEF Interrupted, Done

\* What a load that is written back may change besides.
Expands(now, i) == now.name \in ServerCommands /\ i[1] = "text"

\* A command that reads the file and changes of what it read its own setting.
LEMMA ReadsToEdit ==
  ASSUME EditTypes, LostInv, NEW e \in Editors, editor[e].pc \in {"load", "read"},
         UNCHANGED <<settings, wanted, excused>>, NEW next \in SUBSET Settings,
         \A i \in Settings : \/ i = editor[e].item \/ Expands(editor[e], i)
                             \/ (i \in next <=> i \in settings.items),
         editor' = [editor EXCEPT ![e].pc = "open", ![e].base = settings.items, ![e].next = next]
  PROVE  \E r : Calm(e, r)
<1>1. PICK now \in EditorState : now = editor[e]
  BY DEF EditTypes
<1>2. PICK r : r = [now EXCEPT !.pc = "open", !.base = settings.items, !.next = next]
  OBVIOUS
<1>3. settings.items \in SUBSET Settings /\ excused \subseteq Settings /\ Sound(now)
  BY <1>1 DEF EditTypes
<1>4. /\ r \in EditorState /\ r.pc = "open" /\ r.wizard = now.wizard /\ r.name = now.name
      /\ r.item = now.item /\ r.rest = now.rest /\ r.base = settings.items /\ r.next = next
  BY <1>2, <1>3, now \in EditorState, next \in SUBSET Settings DEF EditorState
<1>5. ~now.wizard
  BY <1>1, <1>3 DEF Sound
<1>6. Sound(r)
  BY <1>3, <1>4 DEF Sound
<1>7. Follows(r)
  BY <1>1, <1>4, <1>5 DEF Follows, LeavesOut, Decides, Expands, Expanded, Section, Differing
<1>8. editor' = [editor EXCEPT ![e] = r]
  BY <1>1, <1>2
<1>9. settings.state = "missing" => settings.items = {}
  BY DEF LostInv
<1> QED BY <1>1, <1>3, <1>4, <1>6, <1>7, <1>8, <1>9 DEF Calm, Becomes, NotWriting

LEMMA LoadCalm ==
  ASSUME EditTypes, LostInv, NEW e \in Editors,
         LoadForServer(e) \/ LoadForEmail(e) \/ LoadForSwitch(e) \/ ReadForSwitch(e)
  PROVE  \E r : Calm(e, r)
<1>1. PICK now \in EditorState : now = editor[e]
  BY DEF EditTypes
<1>2. /\ Sound(now) /\ UNCHANGED <<settings, wanted, excused>> /\ excused \subseteq Settings
      /\ now.pc \in {"load", "read"} /\ settings.items \subseteq Settings
  BY <1>1 DEF EditTypes, LoadForServer, LoadForEmail, LoadForSwitch, ReadForSwitch, At
<1>3. ASSUME NEW r \in EditorState, Sound(r), Follows(r), r.pc \in {"idle", "read"},
             editor' = [editor EXCEPT ![e] = r]
      PROVE  Calm(e, r)
  BY <1>1, <1>2, <1>3 DEF Calm, Becomes, NotWriting
<1>4. CASE editor' = [editor EXCEPT ![e] = Nobody]
  BY <1>3, <1>4, NobodyTypes
<1>5. CASE editor' = [editor EXCEPT ![e] = Rest(e)]
  BY <1>3, <1>5, RestTypes
<1>6. ASSUME LoadForServer(e), editor' # [editor EXCEPT ![e] = Nobody] PROVE \E r : Calm(e, r)
  <2>1. now.item \in Settings
    BY <1>1, <1>2, <1>6 DEF LoadForServer, At, ServerCommands, Sound
  <2> DEFINE next(plain) == IF now.name = "mcp add" THEN plain \cup {now.item}
                                                     ELSE plain \ {now.item}
  <2>2. PICK plain \in Expansions(settings.items) :
          editor' = [editor EXCEPT ![e].pc = "open", ![e].base = settings.items,
                                   ![e].next = next(plain)]
    BY <1>1, <1>6 DEF LoadForServer, Done
  <2>3. /\ plain \in SUBSET Settings
        /\ \A i \in Settings : i[1] = "text" \/ (i \in plain <=> i \in settings.items)
    <3> DEFINE rest == settings.items \ {<<"text", "reference">>}
    <3>1. plain \in {settings.items, rest, rest \cup {<<"text", "blank">>}}
      BY <2>2 DEF Expansions
    <3>2. <<"text", "blank">> \in Settings
      BY DEF Settings
    <3> QED BY <1>2, <3>1, <3>2
  <2>4. now.name \in ServerCommands
    BY <1>1, <1>6 DEF LoadForServer, At
  <2>5. /\ next(plain) \in SUBSET Settings
        /\ \A i \in Settings : \/ i = now.item \/ Expands(now, i)
                                \/ (i \in next(plain) <=> i \in settings.items)
    BY <2>1, <2>3, <2>4 DEF Expands
  <2> HIDE DEF next
  <2> QED BY <1>1, <1>2, <2>2, <2>5, ReadsToEdit
<1>7. ASSUME LoadForEmail(e), editor' # [editor EXCEPT ![e] = Nobody] PROVE \E r : Calm(e, r)
  <2>1. now.item \in Settings
    BY <1>1, <1>2, <1>7 DEF LoadForEmail, At, Sound
  <2> DEFINE next == settings.items \cup {now.item}
  <2>2. editor' = [editor EXCEPT ![e].pc = "open", ![e].base = settings.items, ![e].next = next]
    BY <1>1, <1>7 DEF LoadForEmail, EmailSettings, Done
  <2>3. /\ next \in SUBSET Settings
        /\ \A i \in Settings : i = now.item \/ (i \in next <=> i \in settings.items)
    BY <1>2, <2>1
  <2> HIDE DEF next
  <2> QED BY <1>1, <1>2, <2>2, <2>3, ReadsToEdit
<1>8. ASSUME LoadForSwitch(e), editor' # [editor EXCEPT ![e] = Nobody] PROVE \E r : Calm(e, r)
  <2>1. PICK r : r = [now EXCEPT !.pc = "read"]
    OBVIOUS
  <2>2. editor' = [editor EXCEPT ![e] = r]
    BY <2>1, <1>1, <1>8 DEF LoadForSwitch, Done
  <2>3. /\ r \in EditorState /\ r.pc = "read" /\ r.wizard = now.wizard /\ r.name = now.name
        /\ r.item = now.item /\ r.rest = now.rest
    BY <2>1, now \in EditorState DEF EditorState
  <2>4. now.pc = "load" /\ now.name \notin {"onboard", "none"}
    BY <1>1, <1>8 DEF LoadForSwitch, At, SwitchCommands, LoadingSwitches
  <2>5. Sound(r) /\ Follows(r)
    BY <2>3, <2>4, <1>2 DEF Sound, Follows
  <2> QED BY <1>3, <2>2, <2>3, <2>5
<1>9. ASSUME ReadForSwitch(e), editor' # [editor EXCEPT ![e] = Nobody],
             editor' # [editor EXCEPT ![e] = Rest(e)]
      PROVE  \E r : Calm(e, r)
  <2>1. now.pc = "read" /\ now.item \in Settings
    BY <1>1, <1>2, <1>9 DEF ReadForSwitch, Sound
  <2> DEFINE next == ToggleSkill(settings.items, now.name, now.item)
  <2>2. settings.state = "ok"
    BY <1>9 DEF ReadForSwitch
  <2>3. editor' = [editor EXCEPT ![e] = [now EXCEPT !.pc = "open", !.base = settings.items,
                                                    !.next = next]]
    BY <1>1, <1>9, <2>2 DEF ReadForSwitch
  <2>4. editor' = [editor EXCEPT ![e].pc = "open", ![e].base = settings.items, ![e].next = next]
    BY <1>1, <2>3
  <2>5. /\ next \in SUBSET Settings
        /\ \A i \in Settings : i = now.item \/ (i \in next <=> i \in settings.items)
    BY <1>2, <2>1 DEF ToggleSkill
  <2> HIDE DEF next
  <2> QED BY <1>1, <1>2, <2>4, <2>5, ReadsToEdit
<1> QED BY <1>4, <1>5, <1>6, <1>7, <1>8, <1>9

LEMMA CalmKeeps ==
  ASSUME ConfigInv, NEW e \in Editors, NEW r, Calm(e, r)
  PROVE  ConfigInv'
<1>1. /\ editor' \in [Editors -> EditorState] /\ editor'[e] = r
      /\ \A d \in Editors \ {e} : editor'[d] = editor[d]
  BY DEF ConfigInv, EditTypes, Calm, Becomes
<1>2. EditTypes'
  BY <1>1 DEF ConfigInv, EditTypes, Calm, Becomes
<1>3. \A d \in Editors : NotWriting(d)' <=> NotWriting(d)
  BY <1>1 DEF Calm, NotWriting
<1>4. (\A d \in Editors : NotWriting(d)') =>
        \A i \in Settings : i \in excused' \/ (i \in settings'.items <=> i \in wanted')
  BY <1>3 DEF ConfigInv, SettingsInv, Calm
<1>5. ASSUME NEW d \in Editors, ~NotWriting(d)', settings'.state = "empty",
             \A f \in Editors \ {d} : NotWriting(f)', NEW i \in Settings
      PROVE  LeavesOut(editor'[d], i) \/ Decides(editor'[d], i) \/ i \in excused'
               \/ (i \in editor'[d].next <=> i \in wanted')
  <2>1. d # e /\ editor'[d] = editor[d] /\ ~NotWriting(d) /\ \A f \in Editors \ {d} : NotWriting(f)
    BY <1>1, <1>3, <1>5 DEF Calm
  <2> QED BY <2>1, <1>5 DEF ConfigInv, SettingsInv, Calm
<1>6. SettingsInv'
  BY <1>4, <1>5 DEF SettingsInv
<1>7. ASSUME settings'.state = "missing", NEW d \in Editors
      PROVE  NotWriting(d)' /\ (editor'[d].pc = "open" => editor'[d].base \subseteq excused')
  <2>1. CASE d = e
    BY <2>1, <1>1, <1>7 DEF Calm, NotWriting
  <2>2. CASE d # e
    BY <2>2, <1>1, <1>3, <1>7 DEF ConfigInv, LostInv, Calm
  <2> QED BY <2>1, <2>2
<1>8. LostInv'
  BY <1>3, <1>7 DEF ConfigInv, LostInv, Calm
<1> QED BY <1>2, <1>6, <1>8 DEF ConfigInv

LEMMA LostKeeps ==
  ASSUME ConfigInv, NEW e \in Editors, NEW r, Becomes(e, r), r.pc \notin {"open", "write"},
         excused' = Settings, wanted' \subseteq Settings,
         settings' \in [state : {"missing", "empty", "ok", "unparsable"}, items : SUBSET Settings],
         settings'.state # "ok" => settings'.items = {},
         settings'.state = "missing" => settings.state = "missing"
  PROVE  ConfigInv'
<1>1. /\ editor' \in [Editors -> EditorState] /\ editor'[e] = r
      /\ \A d \in Editors \ {e} : editor'[d] = editor[d]
  BY DEF ConfigInv, EditTypes, Becomes
<1>2. EditTypes'
  BY <1>1 DEF ConfigInv, EditTypes, Becomes
<1>3. ASSUME settings'.state = "missing", NEW d \in Editors
      PROVE  NotWriting(d)' /\ (editor'[d].pc = "open" => editor'[d].base \subseteq excused')
  BY <1>1, <1>3 DEF ConfigInv, EditTypes, LostInv, NotWriting
<1>4. SettingsInv' /\ LostInv'
  BY <1>3 DEF SettingsInv, LostInv
<1> QED BY <1>2, <1>4 DEF ConfigInv

LEMMA PromiseTypes ==
  ASSUME EditTypes, NEW e \in Editors
  PROVE  Promise(e) \subseteq Settings
<1>1. PICK now \in EditorState : now = editor[e]
  BY DEF EditTypes
<1>2. now.next \subseteq Settings /\ wanted \subseteq Settings
  BY now \in EditorState DEF EditorState, EditTypes
<1> QED BY <1>1, <1>2 DEF Promise

LEMMA OpenFailsKeeps ==
  ASSUME ConfigInv, NEW e \in Editors, OpenFails(e)
  PROVE  ConfigInv'
<1>1. EditTypes /\ excused \subseteq Settings
  BY DEF ConfigInv, EditTypes
<1>2. Becomes(e, Rest(e)) /\ Rest(e).pc \in {"idle", "read"}
  BY <1>1, RestTypes DEF OpenFails, Becomes
<1>3. CASE editor[e].wizard
  BY <1>1, <1>2, <1>3, PromiseTypes, LostKeeps DEF OpenFails, ConfigInv, EditTypes, LostInv
<1>4. CASE ~editor[e].wizard
  <2>1. Calm(e, Rest(e))
    BY <1>1, <1>2, <1>4 DEF OpenFails, Calm, NotWriting
  <2> QED BY <2>1, CalmKeeps
<1> QED BY <1>3, <1>4

\* A command that writes alone writes what it read, which was what the users were told.
LEMMA OpenFileKeeps ==
  ASSUME ConfigInv, NEW e \in Editors, OpenFile(e)
  PROVE  ConfigInv'
<1>1. PICK now \in EditorState : now = editor[e]
  BY DEF ConfigInv, EditTypes
<1>2. PICK r : r = [now EXCEPT !.pc = "write"]
  OBVIOUS
<1>3. /\ r \in EditorState /\ r.pc = "write" /\ r.wizard = now.wizard /\ r.name = now.name
      /\ r.item = now.item /\ r.rest = now.rest /\ r.base = now.base /\ r.next = now.next
      /\ r.said = now.said
  BY <1>2, now \in EditorState DEF EditorState
<1>4. Sound(now) /\ Follows(now) /\ now.pc = "open"
  BY <1>1 DEF ConfigInv, EditTypes, OpenFile
<1>5. Sound(r) /\ Follows(r)
  BY <1>3, <1>4 DEF Sound, Follows, LeavesOut, Decides, Expanded
<1>6. /\ editor' = [editor EXCEPT ![e] = r]
      /\ settings' = [state |-> "empty", items |-> {}] /\ UNCHANGED wanted
  BY <1>1, <1>2 DEF OpenFile
<1>7. /\ editor' \in [Editors -> EditorState] /\ editor'[e] = r
      /\ \A d \in Editors \ {e} : editor'[d] = editor[d]
  BY <1>3, <1>6 DEF ConfigInv, EditTypes
<1>8. excused' \subseteq Settings /\ excused \subseteq excused'
  <2>1. /\ settings.items \subseteq Settings /\ now.base \subseteq Settings
        /\ excused \subseteq Settings
    BY now \in EditorState DEF ConfigInv, EditTypes, EditorState
  <2> QED BY <2>1, <1>1 DEF OpenFile, Differing
<1>9. settings' \in [state : {"missing", "empty", "ok", "unparsable"}, items : SUBSET Settings]
  BY <1>6
<1>10. EditTypes'
  BY <1>5, <1>6, <1>7, <1>8, <1>9 DEF ConfigInv, EditTypes
<1>11. ~NotWriting(e)' /\ settings'.state = "empty" /\ settings'.items = {}
  BY <1>3, <1>6, <1>7 DEF NotWriting
<1>12. ASSUME NEW d \in Editors, ~NotWriting(d)', \A f \in Editors \ {d} : NotWriting(f)',
              NEW i \in Settings, i \notin excused', ~LeavesOut(editor'[d], i),
              ~Decides(editor'[d], i)
       PROVE  i \in editor'[d].next <=> i \in wanted'
  <2>1. d = e
    BY <1>11, <1>12
  <2>2. \A f \in Editors : NotWriting(f)
    BY <2>1, <1>1, <1>4, <1>7, <1>12 DEF NotWriting
  <2>3. i \notin excused /\ (i \in settings.items <=> i \in wanted)
    BY <2>2, <1>8, <1>12 DEF ConfigInv, SettingsInv
  <2>4. i \in now.next <=> i \in now.base
    BY <2>1, <1>3, <1>4, <1>7, <1>12 DEF Follows, LeavesOut, Decides, Expanded
  <2>5. i \in now.base <=> i \in settings.items
    <3>1. CASE settings.state = "ok"
      BY <3>1, <1>1, <1>12 DEF OpenFile, Differing
    <3>2. CASE settings.state = "missing"
      BY <3>2, <2>3, <1>1, <1>4 DEF ConfigInv, LostInv
    <3>3. CASE settings.state \in {"empty", "unparsable"}
      BY <3>3, <2>2, <2>3 DEF ConfigInv, LostInv
    <3>4. settings.state \in {"missing", "empty", "ok", "unparsable"}
      BY DEF ConfigInv, EditTypes
    <3> QED BY <3>1, <3>2, <3>3, <3>4
  <2> QED BY <2>1, <2>3, <2>4, <2>5, <1>3, <1>6, <1>7
<1>13. SettingsInv' /\ LostInv'
  BY <1>11, <1>12 DEF SettingsInv, LostInv
<1> QED BY <1>10, <1>13 DEF ConfigInv

\* The writer's next step: the wizard hands over to the command that started it.
LEMMA WriteBecomes ==
  ASSUME EditTypes, NEW e \in Editors, WriteFile(e)
  PROVE  \E r : Becomes(e, r) /\ r.pc \notin {"open", "write"}
<1>1. PICK now \in EditorState : now = editor[e]
  BY DEF EditTypes
<1>2. CASE now.wizard /\ now.name # "onboard"
  <2>1. PICK r : r = [now EXCEPT !.pc = "load", !.wizard = FALSE]
    OBVIOUS
  <2>2. /\ r \in EditorState /\ r.pc = "load" /\ r.wizard = FALSE /\ r.name = now.name
        /\ r.item = now.item /\ r.rest = now.rest
    BY <2>1, now \in EditorState DEF EditorState
  <2>3. Sound(r) /\ Follows(r)
    BY <2>2, <1>1 DEF EditTypes, Sound, Follows
  <2>4. editor' = [editor EXCEPT ![e] = r]
    BY <2>1, <1>1, <1>2 DEF WriteFile
  <2> QED BY <2>2, <2>3, <2>4 DEF Becomes
<1>3. CASE ~(now.wizard /\ now.name # "onboard")
  BY <1>1, <1>3, RestTypes DEF WriteFile, Becomes
<1> QED BY <1>2, <1>3

LEMMA WriteFileKeeps ==
  ASSUME ConfigInv, NEW e \in Editors, WriteFile(e)
  PROVE  ConfigInv'
<1>t. EditTypes
  BY DEF ConfigInv
<1>1. PICK now \in EditorState : now = editor[e]
  BY <1>t DEF EditTypes
<1>2. PICK r : Becomes(e, r) /\ r.pc \notin {"open", "write"}
  BY <1>t, WriteBecomes
<1>3. /\ editor' \in [Editors -> EditorState] /\ editor'[e] = r
      /\ \A d \in Editors \ {e} : editor'[d] = editor[d]
  BY <1>2, <1>t DEF EditTypes, Becomes
<1>4. now.next \subseteq Settings /\ excused \subseteq Settings /\ wanted \subseteq Settings
  BY <1>t, now \in EditorState DEF EditorState, EditTypes
<1>5. wanted' = Promise(e) /\ wanted' \subseteq Settings /\ ~NotWriting(e) /\ now.pc = "write"
  BY <1>t, <1>1, PromiseTypes DEF WriteFile, NotWriting
<1>6. CASE excused' = Settings
  <2>1. /\ settings'.state \in {"ok", "unparsable"}
        /\ settings' \in [state : {"missing", "empty", "ok", "unparsable"}, items : SUBSET Settings]
        /\ settings'.state # "ok" => settings'.items = {}
    BY <1>1, <1>4 DEF WriteFile
  <2> QED BY <2>1, <1>2, <1>5, <1>6, LostKeeps
<1>7. CASE excused' # Settings
  <2>1. /\ settings.state = "empty" /\ settings' = [state |-> "ok", items |-> now.next]
        /\ excused' = IF now.wizard
                        THEN {i \in excused : i[1] \notin now.said}
                               \cup {i \in wanted : i[1] \in Unwritten}
                        ELSE (excused \ {now.item}) \cup Expanded(now)
    BY <1>1, <1>7 DEF WriteFile
  <2>2. excused' \subseteq Settings
    <3>1. Expanded(now) \subseteq Settings
      BY now \in EditorState DEF EditorState, Expanded, Section, Differing
    <3> QED BY <3>1, <2>1, <1>4
  <2>3. settings' \in [state : {"missing", "empty", "ok", "unparsable"}, items : SUBSET Settings]
    BY <2>1, <1>4
  <2>4. EditTypes'
    BY <2>2, <2>3, <1>2, <1>3, <1>5, <1>t DEF EditTypes, Becomes
  <2>5. ASSUME \A d \in Editors : NotWriting(d)', NEW i \in Settings, i \notin excused'
        PROVE  i \in settings'.items <=> i \in wanted'
    <3>1. \A d \in Editors \ {e} : NotWriting(d)
      BY <2>5, <1>3 DEF NotWriting
    <3>2. LeavesOut(now, i) \/ Decides(now, i) \/ i \in excused \/ (i \in now.next <=> i \in wanted)
      BY <3>1, <2>1, <1>1, <1>5 DEF ConfigInv, SettingsInv
    <3>3. LeavesOut(now, i) => i \notin now.next
      BY <1>1, <1>5, <1>t DEF EditTypes, Follows
    <3>4. CASE now.wizard
      <4>1. wanted' = {j \in wanted : j[1] \notin now.said}
                        \cup {j \in now.next : j[1] \in now.said}
        BY <3>4, <1>1, <1>5 DEF Promise
      <4>2. i[1] \notin now.said => i \notin excused
        BY <3>4, <2>1, <2>5
      <4>3. i[1] \in Unwritten => i \notin wanted
        BY <3>4, <2>1, <2>5
      <4> QED BY <4>1, <4>2, <4>3, <3>2, <3>3, <3>4, <2>1 DEF LeavesOut, Decides
    <3>5. CASE ~now.wizard
      <4>1. wanted' = (wanted \ {now.item}) \cup (now.next \cap {now.item})
        BY <3>5, <1>1, <1>5 DEF Promise
      <4>2. i \notin Expanded(now) /\ (i # now.item => i \notin excused)
        BY <3>5, <2>1, <2>5
      <4> QED BY <4>1, <4>2, <3>2, <3>5, <2>1 DEF LeavesOut, Decides
    <3> QED BY <3>4, <3>5
  <2>6. SettingsInv' /\ LostInv'
    BY <2>1, <2>5 DEF SettingsInv, LostInv
  <2> QED BY <2>4, <2>6 DEF ConfigInv
<1> QED BY <1>6, <1>7

LEMMA WriteLostKeeps ==
  ASSUME ConfigInv, NEW e \in Editors, WriteLost(e)
  PROVE  ConfigInv'
  BY NobodyTypes, LostKeeps DEF WriteLost, Done, Becomes, ConfigInv, EditTypes, LostInv

LEMMA ConfigStep == ConfigInv /\ [ConfigNext]_configVars => ConfigInv'
<1> SUFFICES ASSUME ConfigInv, [ConfigNext]_configVars PROVE ConfigInv'
  OBVIOUS
<1>t. EditTypes /\ LostInv
  BY DEF ConfigInv
<1>1. ASSUME NEW e \in Editors, GiveCommand(e) PROVE ConfigInv'
  <2>1. PICK r : Becomes(e, r) /\ r.pc = "load"
    BY <1>t, <1>1, GiveBecomes
  <2>2. Calm(e, r)
    BY <2>1, <1>t, <1>1 DEF GiveCommand, Calm, NotWriting, EditTypes
  <2> QED BY <2>2, CalmKeeps
<1>2. ASSUME NEW e \in Editors, Onboard(e) PROVE ConfigInv'
  <2>1. PICK r : Becomes(e, r) /\ r.pc = "open" /\ r.base = settings.items
    BY <1>t, <1>2, OnboardBecomes
  <2>2. Calm(e, r)
    BY <2>1, <1>t, <1>2 DEF Onboard, Calm, NotWriting, EditTypes, LostInv
  <2> QED BY <2>2, CalmKeeps
<1>3. ASSUME NEW e \in Editors,
             \/ Interrupted(e) \/ LoadForServer(e) \/ LoadForEmail(e)
             \/ LoadForSwitch(e) \/ ReadForSwitch(e)
      PROVE  ConfigInv'
  BY <1>t, <1>3, InterruptedCalm, LoadCalm, CalmKeeps
<1>4. CASE UNCHANGED configVars
  BY <1>4 DEF configVars, ConfigInv, EditTypes, SettingsInv, LostInv, NotWriting
<1> QED BY <1>1, <1>2, <1>3, <1>4, OpenFileKeeps, OpenFailsKeeps, WriteFileKeeps, WriteLostKeeps
        DEF ConfigNext

LEMMA ConfigStaysKept == ConfigInv => ConfigKept
<1> SUFFICES ASSUME ConfigInv, \A e \in Editors : editor[e].pc = "idle"
             PROVE  settings.items \ excused = wanted \ excused
  BY DEF ConfigKept
<1>1. \A i \in Settings : i \in excused \/ (i \in settings.items <=> i \in wanted)
  BY DEF ConfigInv, SettingsInv, NotWriting
<1>2. settings.items \subseteq Settings /\ wanted \subseteq Settings
  BY DEF ConfigInv, EditTypes
<1> QED BY <1>1, <1>2

-----------------------------------------------------------------------------
(* The scheduled jobs *)

Prompts == [kind : {"prompt"}, key : Ids \cup {""}, when : {"six", "five"}]

Commands == [kind : {"command"}, key : Names \cup {""}, when : {"six"}]

JobCall == [pc : {"idle", "look", "displace", "schedule", "record", "save", "write"},
            key : Names \cup {""}, adds : BOOLEAN, when : {"six", "five"}, number : Nat,
            data : SUBSET Commands]

CronTypes ==
  /\ cronFile \in [readable : BOOLEAN, jobs : SUBSET (Prompts \cup Commands)]
  /\ shell \in [pc : {"idle", "write"}, key : Ids \cup {""}, adds : BOOLEAN,
                base : SUBSET (Prompts \cup Commands), next : SUBSET Prompts]
  /\ call \in [Calls -> JobCall]
  /\ loaded \in BOOLEAN
  /\ entries \subseteq (Names \cup {""}) \X Nat /\ nextID \in Nat \ {0}
  /\ jobs \in [Names \cup {""} -> Nat] /\ defs \subseteq Commands
  /\ told \subseteq Ids \cup Names /\ spoiled \subseteq Ids \cup Names

InFile(kind, key) == key \in KeysOf(kind, cronFile.jobs)

Defined(n) == n \in KeysOf("command", defs)

EntriesOf(n) == {e \in entries : e[1] = n}

Works(c, n) == call[c].pc # "idle" /\ call[c].key = n

\* The tool has the job of this name, or has none, as the users were told.
Settled(n) ==
  /\ EntriesOf(n) = IF n \in told THEN {<<n, jobs[n]>>} ELSE {}
  /\ jobs[n] # 0 <=> n \in told
  /\ Defined(n) <=> n \in told

\* What a call has done of its job so far.
Under(c, n) ==
  CASE call[c].pc = "look"     -> Settled(n)
    [] call[c].pc = "displace" -> Settled(n) /\ jobs[n] # 0 /\ call[c].number = jobs[n]
    [] call[c].pc = "schedule" -> call[c].adds /\ EntriesOf(n) = {}
    [] call[c].pc = "record"   -> /\ call[c].adds /\ call[c].number # 0
                                  /\ EntriesOf(n) = {<<n, call[c].number>>}
    [] OTHER -> IF call[c].adds
                  THEN EntriesOf(n) = {<<n, jobs[n]>>} /\ jobs[n] # 0 /\ Defined(n)
                  ELSE EntriesOf(n) = {} /\ jobs[n] = 0 /\ ~Defined(n)

\* The tool's jobs that no hazard has met: one call at a time works on one.
NameKept(n) ==
  /\ InFile("command", n) <=> n \in told
  /\ loaded /\ (\A c \in Calls : ~Works(c, n)) => Settled(n)
  /\ \A c \in Calls : Works(c, n) => Under(c, n) /\ \A d \in Calls \ {c} : ~Works(d, n)

NamesInv == \A n \in Names \ spoiled : NameKept(n)

ShellInv ==
  /\ \A id \in Ids \ spoiled : InFile("prompt", id) <=> id \in told
  /\ shell.pc = "write" => shell.key \in Ids
  /\ shell.pc = "write" => \A id \in Ids :
       id \in KeysOf("prompt", shell.next) <=>
         IF id = shell.key THEN shell.adds ELSE id \in KeysOf("prompt", shell.base)

CronInv ==
  /\ CronTypes
  /\ ~cronFile.readable => cronFile.jobs = {}
  /\ ~loaded => \A c \in Calls : call[c].pc = "idle"
  /\ \A c \in Calls : call[c].pc # "idle" => call[c].key \in Names
  /\ ShellInv /\ NamesInv

LEMMA CronBegins == CronInit => CronInv
<1> SUFFICES ASSUME CronInit PROVE CronInv
  OBVIOUS
<1>1. NoCall \in JobCall /\ NoCall.pc = "idle"
  BY DEF NoCall, JobCall
<1>2. call \in [Calls -> JobCall] /\ \A c \in Calls : call[c].pc = "idle"
  BY <1>1 DEF CronInit
<1>3. /\ cronFile \in [readable : BOOLEAN, jobs : SUBSET (Prompts \cup Commands)]
      /\ cronFile.jobs = {}
  BY DEF CronInit
<1>4. /\ shell \in [pc : {"idle", "write"}, key : Ids \cup {""}, adds : BOOLEAN,
                    base : SUBSET (Prompts \cup Commands), next : SUBSET Prompts]
      /\ shell.pc = "idle"
  BY DEF CronInit, NoShell
<1>5. loaded = FALSE /\ entries = {} /\ nextID = 1 /\ defs = {} /\ told = {} /\ spoiled = {}
  BY DEF CronInit
<1>6. jobs \in [Names \cup {""} -> Nat]
  BY DEF CronInit
<1>7. CronTypes
  <2>1. loaded \in BOOLEAN
    BY <1>5
  <2>2. nextID \in Nat \ {0}
    BY <1>5
  <2>3. entries \subseteq (Names \cup {""}) \X Nat /\ defs \subseteq Commands
    BY <1>5
  <2>4. told \subseteq Ids \cup Names /\ spoiled \subseteq Ids \cup Names
    BY <1>5
  <2> QED BY <1>2, <1>3, <1>4, <1>6, <2>1, <2>2, <2>3, <2>4 DEF CronTypes
<1>8. \A kind, key : ~InFile(kind, key)
  BY <1>3 DEF InFile, KeysOf
<1>9. ShellInv /\ NamesInv
  BY <1>2, <1>4, <1>5, <1>8 DEF ShellInv, NamesInv, NameKept, Works
<1> QED BY <1>2, <1>3, <1>5, <1>7, <1>9 DEF CronInv

LEMMA ReadTypes ==
  ASSUME CronTypes
  PROVE  Read("prompt", cronFile) \subseteq Prompts /\ Persisted \subseteq Commands
<1>1. cronFile.jobs \subseteq Prompts \cup Commands
  BY DEF CronTypes
<1>2. ASSUME NEW j \in cronFile.jobs
      PROVE  (IF j.kind = "prompt" THEN j ELSE Job("prompt", "", j.when)) \in Prompts
  BY <1>1 DEF Prompts, Commands, Job
<1>3. ASSUME NEW j \in cronFile.jobs
      PROVE  /\ j.kind = "command" => j \in Commands
             /\ j.when = "six" => Job("command", "", j.when) \in Commands
             /\ Job("command", "", j.when).when = j.when
  BY <1>1 DEF Prompts, Commands, Job
<1>4. Read("prompt", cronFile) \subseteq Prompts
  BY <1>2 DEF Read
<1>5. \A k \in Read("command", cronFile) : \E j \in cronFile.jobs :
        k = IF j.kind = "command" THEN j ELSE Job("command", "", j.when)
  BY DEF Read
<1>6. Persisted \subseteq Commands
  <2>1. ASSUME NEW k \in Persisted PROVE k \in Commands
    <3>1. k \in Read("command", cronFile) /\ k.when = "six"
      BY DEF Persisted
    <3>2. PICK j \in cronFile.jobs :
            k = IF j.kind = "command" THEN j ELSE Job("command", "", j.when)
      BY <3>1, <1>5
    <3> QED BY <3>1, <3>2, <1>3
  <2> QED BY <2>1
<1> QED BY <1>4, <1>6

LEMMA ShellTypes == CronInv /\ (CommandReads \/ CommandWrites \/ CommandFails) => CronTypes'
<1> SUFFICES ASSUME CronInv, CommandReads \/ CommandWrites \/ CommandFails PROVE CronTypes'
  OBVIOUS
<1> DEFINE ShellType == [pc : {"idle", "write"}, key : Ids \cup {""}, adds : BOOLEAN,
                         base : SUBSET (Prompts \cup Commands), next : SUBSET Prompts]
<1>t. CronTypes
  BY DEF CronInv
<1>f. cronFile.jobs \subseteq Prompts \cup Commands
  BY <1>t DEF CronTypes
<1>1. CASE CommandReads
  <2>1. Read("prompt", cronFile) \subseteq Prompts
    BY <1>t, ReadTypes
  <2>2. \A id \in Ids, when \in {"six", "five"} : Job("prompt", id, when) \in Prompts
    BY DEF Job, Prompts
  <2>3. KeysOf("prompt", Read("prompt", cronFile)) \subseteq Ids
    BY <2>1 DEF KeysOf, Prompts
  <2>4. \/ \E id \in Ids, when \in {"six", "five"} :
              shell' = [pc |-> "write", key |-> id, adds |-> TRUE, base |-> cronFile.jobs,
                        next |-> Read("prompt", cronFile) \cup {Job("prompt", id, when)}]
        \/ \E id \in Ids :
              shell' = [pc |-> "write", key |-> id, adds |-> FALSE, base |-> cronFile.jobs,
                        next |-> {j \in Read("prompt", cronFile) : j.key # id}]
    BY <2>3, <1>1 DEF CommandReads
  <2>5. shell' \in ShellType
    <3>1. CASE \E id \in Ids, when \in {"six", "five"} :
                 shell' = [pc |-> "write", key |-> id, adds |-> TRUE, base |-> cronFile.jobs,
                           next |-> Read("prompt", cronFile) \cup {Job("prompt", id, when)}]
      <4>1. PICK id \in Ids, when \in {"six", "five"} :
              shell' = [pc |-> "write", key |-> id, adds |-> TRUE, base |-> cronFile.jobs,
                        next |-> Read("prompt", cronFile) \cup {Job("prompt", id, when)}]
        BY <3>1
      <4>2. Read("prompt", cronFile) \cup {Job("prompt", id, when)} \in SUBSET Prompts
        BY <2>1, <2>2
      <4>3. cronFile.jobs \in SUBSET (Prompts \cup Commands)
        BY <1>f
      <4> QED BY <4>1, <4>2, <4>3
    <3>2. CASE \E id \in Ids :
                 shell' = [pc |-> "write", key |-> id, adds |-> FALSE, base |-> cronFile.jobs,
                           next |-> {j \in Read("prompt", cronFile) : j.key # id}]
      <4>1. PICK id \in Ids :
              shell' = [pc |-> "write", key |-> id, adds |-> FALSE, base |-> cronFile.jobs,
                        next |-> {j \in Read("prompt", cronFile) : j.key # id}]
        BY <3>2
      <4>2. {j \in Read("prompt", cronFile) : j.key # id} \in SUBSET Prompts
        BY <2>1
      <4>3. cronFile.jobs \in SUBSET (Prompts \cup Commands)
        BY <1>f
      <4> QED BY <4>1, <4>2, <4>3
    <3> QED BY <2>4, <3>1, <3>2
  <2> QED BY <2>5, <1>1, <1>t DEF CommandReads, CronTypes, toolVars
<1>2. CASE CommandWrites
  <2>1. shell \in ShellType
    BY <1>t DEF CronTypes
  <2>2. cronFile' \in [readable : BOOLEAN, jobs : SUBSET (Prompts \cup Commands)]
    BY <2>1, <1>2 DEF CommandWrites
  <2>3. shell' \in ShellType
    BY <1>2 DEF CommandWrites, NoShell
  <2>4. shell.key \in Ids
    BY <1>2 DEF CommandWrites, CronInv, ShellInv
  <2>5. told' \subseteq Ids \cup Names
    BY <2>4, <1>2, <1>t DEF CommandWrites, CronTypes
  <2>6. \A js \in SUBSET (Prompts \cup Commands), kind \in {"prompt", "command"} :
          KeysOf(kind, js) \subseteq Ids \cup Names
    BY DEF KeysOf, Prompts, Commands
  <2>7. shell.base \subseteq Prompts \cup Commands
    BY <2>1
  <2>8. spoiled' \subseteq Ids \cup Names
    <3>1. KeysOf("command", cronFile.jobs \cup shell.base) \subseteq Ids \cup Names
      BY <2>6, <2>7, <1>f
    <3>2. Keys(cronFile.jobs) \subseteq Ids \cup Names /\ Keys(shell.base) \subseteq Ids \cup Names
      BY <2>6, <2>7, <1>f DEF Keys
    <3>3. Unlike(Keys(cronFile.jobs), Keys(shell.base)) \subseteq Ids \cup Names
      BY <3>2 DEF Unlike
    <3> QED BY <3>1, <3>3, <1>2, <1>t DEF CommandWrites, CronTypes
  <2> QED BY <2>2, <2>3, <2>5, <2>8, <1>2, <1>t DEF CommandWrites, CronTypes, toolVars
<1>3. CASE CommandFails
  <2>1. shell' \in ShellType
    BY <1>3 DEF CommandFails, NoShell
  <2>2. cronFile' \in [readable : BOOLEAN, jobs : SUBSET (Prompts \cup Commands)]
    <3>1. [readable |-> FALSE, jobs |-> {}]
            \in [readable : BOOLEAN, jobs : SUBSET (Prompts \cup Commands)]
      OBVIOUS
    <3> QED BY <3>1, <1>3, <1>t DEF CommandFails, CronTypes
  <2>3. spoiled' \subseteq Ids \cup Names
    BY <1>3, <1>t DEF CommandFails, CronTypes
  <2> QED BY <2>1, <2>2, <2>3, <1>3, <1>t DEF CommandFails, CronTypes, toolVars
<1> QED BY <1>1, <1>2, <1>3

LEMMA CallTypes ==
  ASSUME CronInv, NEW c \in Calls,
         CallBegins(c) \/ Look(c) \/ Displace(c) \/ Schedule(c) \/ Record(c) \/ SaveJobs(c)
  PROVE  CronTypes'
<1>t. CronTypes
  BY DEF CronInv
<1>c. PICK now \in JobCall : now = call[c]
  BY <1>t DEF CronTypes
<1>i. NoCall \in JobCall
  BY DEF NoCall, JobCall
<1>k. now.pc # "idle" => now.key \in Names
  BY <1>c DEF CronInv
<1>1. CASE CallBegins(c)
  <2>1. PICK name \in Names, adds \in BOOLEAN, when \in {"six", "five"} :
          /\ call' = [call EXCEPT ![c] = [NoCall EXCEPT !.pc = "look", !.key = name,
                                                        !.adds = adds, !.when = when]]
          /\ spoiled' = IF \E d \in Calls : call[d].pc # "idle" /\ call[d].key = name
                        THEN spoiled \cup {name} ELSE spoiled
    BY <1>1 DEF CallBegins
  <2>2. [NoCall EXCEPT !.pc = "look", !.key = name, !.adds = adds, !.when = when] \in JobCall
    BY <1>i DEF JobCall
  <2>3. call' \in [Calls -> JobCall] /\ spoiled' \subseteq Ids \cup Names
    BY <2>1, <2>2, <1>t DEF CronTypes
  <2>4. /\ loaded' \in BOOLEAN /\ entries' \subseteq (Names \cup {""}) \X Nat
        /\ nextID' \in Nat \ {0} /\ jobs' \in [Names \cup {""} -> Nat] /\ defs' \subseteq Commands
    <3>1. CASE loaded
      BY <3>1, <1>1, <1>t DEF CallBegins, CronTypes
    <3>2. CASE ~loaded
      <4>1. Persisted \subseteq Commands
        BY <1>t, ReadTypes
      <4>2. \A j \in Persisted : <<j.key, 1>> \in (Names \cup {""}) \X Nat
        BY <4>1 DEF Commands
      <4>3. DOMAIN jobs = Names \cup {""}
        BY <1>t DEF CronTypes
      <4>4. /\ loaded' = TRUE /\ defs' = Persisted /\ nextID' = 2
            /\ entries' = {<<j.key, 1>> : j \in Persisted}
            /\ jobs' = [n \in DOMAIN jobs |-> IF \E j \in Persisted : j.key = n THEN 1 ELSE 0]
        BY <3>2, <1>1 DEF CallBegins
      <4>5. entries' \subseteq (Names \cup {""}) \X Nat
        BY <4>2, <4>4
      <4>6. jobs' \in [Names \cup {""} -> Nat]
        BY <4>3, <4>4
      <4>7. loaded' \in BOOLEAN /\ defs' \subseteq Commands
        BY <4>1, <4>4
      <4>8. nextID' \in Nat \ {0}
        BY <4>4
      <4> QED BY <4>5, <4>6, <4>7, <4>8
    <3> QED BY <3>1, <3>2
  <2> QED BY <2>3, <2>4, <1>1, <1>t DEF CallBegins, CronTypes, othersVars
<1>2. CASE Look(c)
  <2>1. \/ call' = [call EXCEPT ![c] = [now EXCEPT !.pc = "displace", !.number = jobs[now.key]]]
        \/ call' = [call EXCEPT ![c] = [now EXCEPT !.pc = "schedule"]]
        \/ call' = [call EXCEPT ![c] = NoCall]
    <3>1. CASE jobs[now.key] # 0
      <4>1. call' = [call EXCEPT ![c] = [call[c] EXCEPT !.pc = "displace",
                                                        !.number = jobs[call[c].key]]]
        BY <3>1, <1>2, <1>c DEF Look
      <4> QED BY <4>1, <1>c
    <3>2. CASE jobs[now.key] = 0 /\ now.adds
      BY <3>2, <1>2, <1>c DEF Look
    <3>3. CASE jobs[now.key] = 0 /\ ~now.adds
      BY <3>3, <1>2, <1>c DEF Look
    <3> QED BY <3>1, <3>2, <3>3
  <2>2. [now EXCEPT !.pc = "schedule"] \in JobCall
    BY DEF JobCall
  <2>3. [now EXCEPT !.pc = "displace", !.number = jobs[now.key]] \in JobCall
    BY <1>t, now \in JobCall DEF CronTypes, JobCall
  <2>4. call' \in [Calls -> JobCall]
    BY <2>1, <2>2, <2>3, <1>i, <1>t DEF CronTypes
  <2> QED BY <2>4, <1>2, <1>t DEF Look, CronTypes, othersVars
<1>3. CASE Displace(c)
  <2>1. \A pc \in {"schedule", "save"} : [now EXCEPT !.pc = pc] \in JobCall
    BY DEF JobCall
  <2>2. call' = [call EXCEPT ![c] = [now EXCEPT !.pc = IF now.adds THEN "schedule" ELSE "save"]]
    BY <1>3, <1>c DEF Displace
  <2>3. call' \in [Calls -> JobCall]
    BY <2>1, <2>2, <1>t DEF CronTypes
  <2>4. jobs' \in [Names \cup {""} -> Nat]
    BY <1>3, <1>t DEF Displace, CronTypes
  <2> QED BY <2>3, <2>4, <1>3, <1>t DEF Displace, CronTypes, othersVars
<1>4. CASE Schedule(c)
  <2>n. nextID \in Nat /\ nextID + 1 \in Nat \ {0} /\ now.key \in Names
    <3>1. now.pc = "schedule"
      BY <1>4, <1>c DEF Schedule, CallAt
    <3>2. nextID \in Nat \ {0}
      BY <1>t DEF CronTypes
    <3> QED BY <3>1, <3>2, <1>k
  <2>1. CASE now.when = "five"
    <3>1. call' = [call EXCEPT ![c] = NoCall] /\ spoiled' = spoiled \cup {now.key}
          /\ UNCHANGED <<entries, nextID>>
      BY <2>1, <1>4, <1>c DEF Schedule
    <3>2. call' \in [Calls -> JobCall] /\ spoiled' \subseteq Ids \cup Names
      BY <3>1, <2>n, <1>i, <1>t DEF CronTypes
    <3> QED BY <3>1, <3>2, <1>4, <1>t DEF Schedule, CronTypes, othersVars
  <2>2. CASE now.when # "five"
    <3>1. /\ call' = [call EXCEPT ![c] = [now EXCEPT !.pc = "record", !.number = nextID]]
          /\ entries' = entries \cup {<<now.key, nextID>>} /\ nextID' = nextID + 1
          /\ UNCHANGED spoiled
      BY <2>2, <1>4, <1>c DEF Schedule
    <3>2. [now EXCEPT !.pc = "record", !.number = nextID] \in JobCall
      BY <2>n, now \in JobCall DEF JobCall
    <3>3. call' \in [Calls -> JobCall]
      BY <3>1, <3>2, <1>t DEF CronTypes
    <3>4. <<now.key, nextID>> \in (Names \cup {""}) \X Nat
      BY <2>n
    <3>5. entries' \subseteq (Names \cup {""}) \X Nat
      BY <3>1, <3>4, <1>t DEF CronTypes
    <3> QED BY <3>1, <3>3, <3>5, <2>n, <1>4, <1>t DEF Schedule, CronTypes, othersVars
  <2> QED BY <2>1, <2>2
<1>5. CASE Record(c)
  <2>1. /\ jobs' = [jobs EXCEPT ![now.key] = now.number]
        /\ defs' = {j \in defs : j.key # now.key} \cup {Job("command", now.key, "six")}
        /\ call' = [call EXCEPT ![c] = [now EXCEPT !.pc = "save"]]
    BY <1>5, <1>c DEF Record
  <2>2. [now EXCEPT !.pc = "save"] \in JobCall /\ now.number \in Nat /\ now.key \in Names \cup {""}
    BY now \in JobCall DEF JobCall
  <2>3. call' \in [Calls -> JobCall] /\ jobs' \in [Names \cup {""} -> Nat]
    BY <2>1, <2>2, <1>t DEF CronTypes
  <2>4. Job("command", now.key, "six") \in Commands
    BY <2>2 DEF Job, Commands
  <2>5. defs' \subseteq Commands
    BY <2>1, <2>4, <1>t DEF CronTypes
  <2> QED BY <2>3, <2>5, <1>5, <1>t DEF Record, CronTypes, othersVars
<1>6. CASE SaveJobs(c)
  <2>1. call' = [call EXCEPT ![c] = [now EXCEPT !.pc = "write", !.data = defs]]
    BY <1>6, <1>c DEF SaveJobs
  <2>2. [now EXCEPT !.pc = "write", !.data = defs] \in JobCall
    BY <1>t, now \in JobCall DEF CronTypes, JobCall
  <2>3. call' \in [Calls -> JobCall]
    BY <2>1, <2>2, <1>t DEF CronTypes
  <2> QED BY <2>3, <1>6, <1>t DEF SaveJobs, CronTypes, othersVars
<1> QED BY <1>1, <1>2, <1>3, <1>4, <1>5, <1>6

LEMMA SaveTypes ==
  ASSUME CronInv, NEW c \in Calls, WriteJobs(c) \/ SaveFails(c)
  PROVE  CronTypes'
<1>t. CronTypes
  BY DEF CronInv
<1>c. PICK now \in JobCall : now = call[c]
  BY <1>t DEF CronTypes
<1>k. now.key \in Names /\ now.data \subseteq Commands
  BY <1>c, now \in JobCall DEF CronInv, JobCall, WriteJobs, SaveFails, CallAt
<1>f. cronFile.jobs \subseteq Prompts \cup Commands
  BY <1>t DEF CronTypes
<1>1. call' \in [Calls -> JobCall]
  <2>1. NoCall \in JobCall
    BY DEF NoCall, JobCall
  <2> QED BY <2>1, <1>t DEF WriteJobs, SaveFails, CronTypes
<1>2. told' \subseteq Ids \cup Names
  BY <1>c, <1>k, <1>t DEF WriteJobs, SaveFails, ToldAfter, CronTypes
<1>3. CASE WriteJobs(c)
  <2>1. cronFile' \in [readable : BOOLEAN, jobs : SUBSET (Prompts \cup Commands)]
    BY <1>3, <1>c, <1>k DEF WriteJobs
  <2>2. \A js \in SUBSET (Prompts \cup Commands), kind \in {"prompt", "command"} :
          KeysOf(kind, js) \subseteq Ids \cup Names
    BY DEF KeysOf, Prompts, Commands
  <2>3. /\ KeysOf("prompt", cronFile.jobs) \subseteq Ids \cup Names
        /\ KeysOf("command", cronFile.jobs) \subseteq Ids \cup Names
        /\ KeysOf("command", now.data) \subseteq Ids \cup Names
        /\ KeysOf("command", defs) \subseteq Ids \cup Names
    BY <2>2, <1>f, <1>k, <1>t DEF CronTypes
  <2>4. Crossed(c) \subseteq Ids \cup Names
    BY <2>3, <1>c DEF Crossed, Unlike
  <2>5. spoiled' \subseteq Ids \cup Names
    BY <2>3, <2>4, <1>3, <1>t DEF WriteJobs, CronTypes
  <2> QED BY <2>1, <2>5, <1>1, <1>2, <1>3, <1>t DEF WriteJobs, CronTypes, othersVars
<1>4. CASE SaveFails(c)
  <2>1. cronFile' \in [readable : BOOLEAN, jobs : SUBSET (Prompts \cup Commands)]
    <3>1. [readable |-> FALSE, jobs |-> {}]
            \in [readable : BOOLEAN, jobs : SUBSET (Prompts \cup Commands)]
      OBVIOUS
    <3> QED BY <3>1, <1>4, <1>t DEF SaveFails, CronTypes
  <2>2. spoiled' \subseteq Ids \cup Names
    BY <1>4, <1>c, <1>k, <1>t DEF SaveFails, CronTypes
  <2> QED BY <2>1, <2>2, <1>1, <1>2, <1>4, <1>t DEF SaveFails, CronTypes, othersVars
<1> QED BY <1>3, <1>4

LEMMA CronTypeStep == CronInv /\ CronNext => CronTypes'
<1>1. ASSUME CronInv, DaemonStarts PROVE CronTypes'
  BY <1>1 DEF DaemonStarts, CronInv, CronTypes, toolVars
<1>2. ASSUME CronInv, DaemonEnds PROVE CronTypes'
  <2>1. NoCall \in JobCall
    BY DEF NoCall, JobCall
  <2>2. call' \in [Calls -> JobCall] /\ jobs' \in [Names \cup {""} -> Nat]
    BY <2>1, <1>2 DEF DaemonEnds
  <2>3. loaded' = FALSE /\ entries' = {} /\ defs' = {}
    BY <1>2 DEF DaemonEnds
  <2>4. nextID' \in Nat \ {0}
    <3>1. nextID' = 1
      BY <1>2 DEF DaemonEnds
    <3> QED BY <3>1
  <2>5. UNCHANGED <<cronFile, shell, told, spoiled>>
    BY <1>2 DEF DaemonEnds
  <2>6. loaded' \in BOOLEAN
    BY <2>3
  <2>7. entries' \subseteq (Names \cup {""}) \X Nat /\ defs' \subseteq Commands
    BY <2>3
  <2> QED BY <2>2, <2>4, <2>5, <2>6, <2>7, <1>2 DEF CronInv, CronTypes
<1> QED BY <1>1, <1>2, ShellTypes, CallTypes, SaveTypes DEF CronNext

-----------------------------------------------------------------------------
\* Where a call is after its step.
LEMMA CallsElsewhere ==
  ASSUME CronInv, NEW c \in Calls,
         \/ CallBegins(c) \/ Look(c) \/ Displace(c) \/ Schedule(c) \/ Record(c)
         \/ SaveJobs(c) \/ WriteJobs(c) \/ SaveFails(c)
  PROVE  /\ \A d \in Calls \ {c} : call'[d] = call[d]
         /\ call'[c].pc # "idle" => call'[c].key \in Names
         /\ loaded' = TRUE
         /\ ~CallBegins(c) => /\ call[c].pc # "idle" /\ call[c].key \in Names /\ UNCHANGED loaded
                              /\ call'[c].pc # "idle" => call'[c].key = call[c].key
<1>t. CronTypes
  BY DEF CronInv
<1>1. PICK now \in JobCall : now = call[c]
  BY <1>t DEF CronTypes
<1>2. \A d \in Calls \ {c} : call'[d] = call[d]
  BY <1>t DEF CronTypes, CallBegins, Look, Displace, Schedule, Record, SaveJobs, WriteJobs,
     SaveFails
<1>3. CASE CallBegins(c)
  <2>1. call'[c].key \in Names
    <3>1. PICK name \in Names, adds \in BOOLEAN, when \in {"six", "five"} :
            call' = [call EXCEPT ![c] = [NoCall EXCEPT !.pc = "look", !.key = name,
                                                       !.adds = adds, !.when = when]]
      BY <1>3 DEF CallBegins
    <3>2. [NoCall EXCEPT !.pc = "look", !.key = name, !.adds = adds, !.when = when].key = name
      BY DEF NoCall
    <3> QED BY <3>1, <3>2, <1>t DEF CronTypes
  <2>2. loaded' = TRUE
    BY <1>3, <1>t DEF CallBegins, CronTypes
  <2> QED BY <1>2, <1>3, <2>1, <2>2
<1>4. CASE ~CallBegins(c)
  <2>1. call[c].pc # "idle" /\ UNCHANGED loaded
    BY <1>4 DEF CallAt, Look, Displace, Schedule, Record, SaveJobs, WriteJobs, SaveFails, othersVars
  <2>2. call[c].key \in Names /\ loaded = TRUE
    BY <2>1, <1>t DEF CronInv, CronTypes
  <2>3. NoCall.pc = "idle"
    BY DEF NoCall
  <2>4. call'[c].pc # "idle" => call'[c].key = call[c].key
    <3>0. DOMAIN call = Calls
      BY <1>t DEF CronTypes
    <3>1. CASE Look(c)
      BY <3>0, <3>1, <2>3, <1>1, now \in JobCall DEF JobCall, Look
    <3>2. CASE Displace(c)
      BY <3>0, <3>2, <2>3, <1>1, now \in JobCall DEF JobCall, Displace
    <3>3. CASE Schedule(c)
      BY <3>0, <3>3, <2>3, <1>1, now \in JobCall DEF JobCall, Schedule
    <3>4. CASE Record(c) \/ SaveJobs(c)
      BY <3>0, <3>4, <2>3, <1>1, now \in JobCall DEF JobCall, Record, SaveJobs
    <3>5. CASE WriteJobs(c) \/ SaveFails(c)
      BY <3>0, <3>5, <2>3 DEF WriteJobs, SaveFails
    <3> QED BY <3>1, <3>2, <3>3, <3>4, <3>5, <1>4
  <2> QED BY <1>2, <1>4, <2>1, <2>2, <2>4
<1> QED BY <1>3, <1>4

\* Nothing happened to a job.
LEMMA NameUntouched ==
  ASSUME NEW n, NameKept(n), UNCHANGED <<entries, jobs, defs>> \/
           (EntriesOf(n)' = EntriesOf(n) /\ jobs'[n] = jobs[n] /\ (Defined(n)' <=> Defined(n))),
         InFile("command", n)' <=> InFile("command", n), n \in told' <=> n \in told,
         loaded' => loaded,
         \A c \in Calls : /\ Works(c, n)' <=> Works(c, n)
                          /\ Works(c, n) => call'[c] = call[c]
  PROVE  NameKept(n)'
<1>1. EntriesOf(n)' = EntriesOf(n) /\ jobs'[n] = jobs[n] /\ (Defined(n)' <=> Defined(n))
  BY DEF EntriesOf, Defined
<1>2. Settled(n)' <=> Settled(n)
  BY <1>1 DEF Settled
<1>3. \A c \in Calls : Works(c, n)' /\ Under(c, n) => Under(c, n)'
  BY <1>1, <1>2 DEF Under
<1> QED BY <1>2, <1>3 DEF NameKept

\* What the readers of the file find of the jobs of their own schema.
LEMMA KeysRead ==
  ASSUME CronInv
  PROVE  /\ \A id \in Ids :
              id \in KeysOf("prompt", Read("prompt", cronFile)) <=> InFile("prompt", id)
         /\ \A n \in Names : n \in KeysOf("command", Persisted) <=> InFile("command", n)
         /\ \A n \in Names : (\E j \in Persisted : j.key = n) <=> InFile("command", n)
<1> DEFINE js == cronFile.jobs
<1>1. js \subseteq Prompts \cup Commands /\ (~cronFile.readable => js = {})
  BY DEF CronInv, CronTypes
<1>2. \A kind \in {"prompt", "command"} : Read(kind, cronFile) =
        {IF j.kind = kind THEN j ELSE Job(kind, "", j.when) : j \in js}
  BY <1>1 DEF Read
<1>3. \A kind, when : Job(kind, "", when).key = "" /\ Job(kind, "", when).kind = kind
  BY DEF Job
<1>4. "" \notin Ids /\ "" \notin Names
  BY CronConfig
<1>5. \A j \in js : j.kind = "command" => j.when = "six"
  BY <1>1 DEF Prompts, Commands
<1> HIDE DEF js
<1>6. ASSUME NEW kind \in {"prompt", "command"}, NEW k, k.key # ""
      PROVE  k \in Read(kind, cronFile) <=> k \in js /\ k.kind = kind
  <2>1. Read(kind, cronFile) = {IF j.kind = kind THEN j ELSE Job(kind, "", j.when) : j \in js}
    BY <1>2
  <2>2. ASSUME k \in Read(kind, cronFile) PROVE k \in js /\ k.kind = kind
    <3>1. PICK j \in js : k = IF j.kind = kind THEN j ELSE Job(kind, "", j.when)
      BY <2>1, <2>2
    <3> QED BY <3>1, <1>3, <1>6
  <2>3. ASSUME k \in js, k.kind = kind PROVE k \in Read(kind, cronFile)
    BY <2>1, <2>3
  <2> QED BY <2>2, <2>3
<1>7. \A id \in Ids : id \in KeysOf("prompt", Read("prompt", cronFile)) <=> InFile("prompt", id)
  BY <1>4, <1>6 DEF KeysOf, InFile, js
<1>8. ASSUME NEW n \in Names
      PROVE  (\E j \in Persisted : j.key = n) <=> InFile("command", n)
  <2>1. \A j : j.key = n => (j \in Persisted <=> j \in js /\ j.kind = "command")
    BY <1>4, <1>5, <1>6 DEF Persisted
  <2> QED BY <2>1, <1>4 DEF InFile, KeysOf, js
<1>9. ASSUME NEW n \in Names
      PROVE  n \in KeysOf("command", Persisted) <=> InFile("command", n)
  <2>1. \A j \in Persisted : j.kind = "command"
    BY ReadTypes DEF CronInv, Commands
  <2> QED BY <2>1, <1>4, <1>8 DEF KeysOf
<1> QED BY <1>7, <1>8, <1>9

LEMMA ShellStep == CronInv /\ CronNext => ShellInv'
<1> SUFFICES ASSUME CronInv, CronNext PROVE ShellInv'
  OBVIOUS
<1>t. CronTypes /\ ShellInv
  BY DEF CronInv
<1>f. cronFile.jobs \subseteq Prompts \cup Commands
  BY <1>t DEF CronTypes
<1>n. "" \notin Ids /\ "" \notin Names /\ Ids \cap Names = {}
  BY CronConfig
<1>1. CASE CommandReads
  <2> DEFINE base == Read("prompt", cronFile)
  <2>1. UNCHANGED <<cronFile, told, spoiled>>
    BY <1>1 DEF CommandReads
  <2>2. \A id \in Ids : id \in KeysOf("prompt", base) <=> id \in KeysOf("prompt", cronFile.jobs)
    BY KeysRead DEF InFile
  <2>3. base \subseteq Prompts
    BY <1>t, ReadTypes
  <2>4. KeysOf("prompt", base) \subseteq Ids
    BY <2>3 DEF KeysOf, Prompts
  <2>5. shell'.base = cronFile.jobs /\ shell'.key \in Ids
    BY <2>4, <1>1 DEF CommandReads
  <2>6. ASSUME NEW id \in Ids
        PROVE  id \in KeysOf("prompt", shell'.next) <=>
                 IF id = shell'.key THEN shell'.adds ELSE id \in KeysOf("prompt", base)
    <3>1. CASE \E key \in Ids, when \in {"six", "five"} :
                 shell' = [pc |-> "write", key |-> key, adds |-> TRUE, base |-> cronFile.jobs,
                           next |-> base \cup {Job("prompt", key, when)}]
      <4>1. PICK key \in Ids, when \in {"six", "five"} :
              shell' = [pc |-> "write", key |-> key, adds |-> TRUE, base |-> cronFile.jobs,
                        next |-> base \cup {Job("prompt", key, when)}]
        BY <3>1
      <4>2. shell'.next = base \cup {Job("prompt", key, when)} /\ shell'.key = key /\ shell'.adds
        BY <4>1
      <4>3. Job("prompt", key, when).key = key /\ Job("prompt", key, when).kind = "prompt"
        BY DEF Job
      <4> HIDE DEF base
      <4> QED BY <4>2, <4>3, <1>n DEF KeysOf
    <3>2. CASE \E key \in Ids :
                 shell' = [pc |-> "write", key |-> key, adds |-> FALSE, base |-> cronFile.jobs,
                           next |-> {j \in base : j.key # key}]
      <4>1. PICK key \in Ids :
              shell' = [pc |-> "write", key |-> key, adds |-> FALSE, base |-> cronFile.jobs,
                        next |-> {j \in base : j.key # key}]
        BY <3>2
      <4>2. shell'.next = {j \in base : j.key # key} /\ shell'.key = key /\ ~shell'.adds
        BY <4>1
      <4> HIDE DEF base
      <4> QED BY <4>2, <1>n DEF KeysOf
    <3> QED BY <3>1, <3>2, <2>4, <1>1 DEF CommandReads
  <2> HIDE DEF base
  <2> QED BY <2>1, <2>2, <2>5, <2>6, <1>t DEF ShellInv, InFile
<1>2. CASE CommandWrites
  <2>1. /\ cronFile'.jobs = shell.next /\ shell.pc = "write" /\ shell'.pc = "idle"
        /\ spoiled' = spoiled \cup KeysOf("command", cronFile.jobs \cup shell.base)
                        \cup Unlike(Keys(cronFile.jobs), Keys(shell.base))
        /\ told' = IF shell.adds THEN told \cup {shell.key} ELSE told \ {shell.key}
    BY <1>2 DEF CommandWrites, NoShell
  <2>2. ASSUME NEW id \in Ids \ spoiled' PROVE InFile("prompt", id)' <=> id \in told'
    <3>1. id \in Keys(cronFile.jobs) <=> id \in Keys(shell.base)
      BY <2>1 DEF Unlike
    <3>2. shell.base \subseteq Prompts \cup Commands
      BY <1>t DEF CronTypes
    <3>3. \A js \in SUBSET (Prompts \cup Commands) : id \notin KeysOf("command", js)
      BY <1>n DEF KeysOf, Prompts, Commands
    <3>4. id \in KeysOf("prompt", cronFile.jobs) <=> id \in KeysOf("prompt", shell.base)
      BY <3>1, <3>2, <3>3, <1>f DEF Keys
    <3>5. id \notin spoiled
      BY <2>1
    <3>6. id \in KeysOf("prompt", cronFile.jobs) <=> id \in told
      BY <3>5, <1>t DEF ShellInv, InFile
    <3>7. id \in KeysOf("prompt", shell.next) <=>
            IF id = shell.key THEN shell.adds ELSE id \in KeysOf("prompt", shell.base)
      BY <2>1, <1>t DEF ShellInv
    <3> QED BY <2>1, <3>4, <3>6, <3>7 DEF InFile
  <2> QED BY <2>1, <2>2 DEF ShellInv
<1>3. ASSUME NEW c \in Calls, WriteJobs(c) \/ SaveFails(c),
             \A id \in Ids \ spoiled' : ~InFile("prompt", id)' <=> ~InFile("prompt", id)
      PROVE  ShellInv'
  <2>1. call[c].key \in Names
    <3>1. call[c].pc = "write" /\ ~CallBegins(c)
      BY <1>3 DEF WriteJobs, SaveFails, CallAt, CallBegins
    <3> QED BY <3>1, <1>3, CallsElsewhere
  <2>2. \A id \in Ids : id \in told' <=> id \in told
    BY <2>1, <1>3, <1>n DEF WriteJobs, SaveFails, ToldAfter
  <2>3. UNCHANGED shell /\ (spoiled \subseteq spoiled' \/ spoiled' = Ids \cup Names)
    BY <1>3 DEF WriteJobs, SaveFails, othersVars
  <2> QED BY <2>2, <2>3, <1>3, <1>t DEF ShellInv
<1>4. ASSUME NEW c \in Calls, WriteJobs(c) PROVE ShellInv'
  <2>1. cronFile'.jobs = call[c].data /\ KeysOf("prompt", cronFile.jobs) \subseteq spoiled'
    BY <1>4 DEF WriteJobs
  <2>2. \A j \in call[c].data : j.kind = "command"
    <3>1. PICK now \in JobCall : now = call[c]
      BY <1>t DEF CronTypes
    <3> QED BY <3>1, now \in JobCall DEF JobCall, Commands
  <2>3. KeysOf("prompt", cronFile'.jobs) = {}
    BY <2>1, <2>2 DEF KeysOf
  <2>4. \A id \in Ids \ spoiled' : ~InFile("prompt", id)' /\ ~InFile("prompt", id)
    BY <2>1, <2>3 DEF InFile
  <2> QED BY <2>4, <1>3, <1>4
<1>5. ASSUME NEW c \in Calls, SaveFails(c) PROVE ShellInv'
  <2>1. \A id \in Ids \ spoiled' : ~InFile("prompt", id)' <=> ~InFile("prompt", id)
    BY <1>5 DEF SaveFails, InFile
  <2> QED BY <2>1, <1>3, <1>5
<1>6. CASE UNCHANGED <<cronFile, shell, told>> /\ spoiled \subseteq spoiled'
  BY <1>6, <1>t DEF ShellInv, InFile
<1>7. ASSUME NEW c \in Calls,
             \/ CallBegins(c) \/ Look(c) \/ Displace(c) \/ Schedule(c) \/ Record(c) \/ SaveJobs(c)
      PROVE  UNCHANGED <<cronFile, shell, told>> /\ spoiled \subseteq spoiled'
  BY <1>7 DEF CallBegins, Look, Displace, Schedule, Record, SaveJobs, othersVars
<1>8. CASE CommandFails
  <2>1. shell'.pc = "idle" /\ UNCHANGED told
    BY <1>8 DEF CommandFails, NoShell
  <2>2. UNCHANGED <<cronFile, spoiled>> \/ Ids \subseteq spoiled'
    BY <1>8 DEF CommandFails
  <2> QED BY <2>1, <2>2, <1>t DEF ShellInv, InFile
<1> QED BY <1>1, <1>2, <1>4, <1>5, <1>6, <1>7, <1>8 DEF CronNext, DaemonStarts, DaemonEnds

\* The first call after a start of the daemon takes over the jobs of the file.
LEMMA LoadSettles ==
  ASSUME CronInv, NEW n \in Names \ spoiled, ~loaded, UNCHANGED told, defs' = Persisted,
         entries' = {<<j.key, 1>> : j \in Persisted},
         jobs' = [m \in DOMAIN jobs |-> IF \E j \in Persisted : j.key = m THEN 1 ELSE 0]
  PROVE  Settled(n)'
<1>1. InFile("command", n) <=> n \in told
  BY DEF CronInv, NamesInv, NameKept
<1>2. /\ n \in KeysOf("command", Persisted) <=> n \in told
      /\ (\E j \in Persisted : j.key = n) <=> n \in told
  BY <1>1, KeysRead
<1>3. n \in DOMAIN jobs
  BY DEF CronInv, CronTypes
<1>4. jobs'[n] = IF n \in told THEN 1 ELSE 0
  BY <1>2, <1>3
<1>5. \A e : e \in EntriesOf(n)' <=> e = <<n, 1>> /\ n \in told
  <2>1. ASSUME NEW e, e \in EntriesOf(n)' PROVE e = <<n, 1>> /\ n \in told
    <3>1. PICK j \in Persisted : e = <<j.key, 1>> /\ e[1] = n
      BY <2>1 DEF EntriesOf
    <3> QED BY <3>1, <1>2
  <2>2. ASSUME n \in told PROVE <<n, 1>> \in EntriesOf(n)'
    <3>1. PICK j \in Persisted : j.key = n
      BY <2>2, <1>2
    <3> QED BY <3>1 DEF EntriesOf
  <2> QED BY <2>1, <2>2
<1>6. Defined(n)' <=> n \in told
  BY <1>2 DEF Defined
<1>7. EntriesOf(n)' = IF n \in told THEN {<<n, 1>>} ELSE {}
  BY <1>5
<1>8. CASE n \in told
  <2>1. EntriesOf(n)' = {<<n, jobs'[n]>>} /\ jobs'[n] # 0 /\ Defined(n)'
    BY <1>4, <1>6, <1>7, <1>8
  <2> QED BY <2>1, <1>8 DEF Settled
<1>9. CASE n \notin told
  <2>1. EntriesOf(n)' = {} /\ jobs'[n] = 0 /\ ~Defined(n)'
    BY <1>4, <1>6, <1>7, <1>9
  <2> QED BY <2>1, <1>9 DEF Settled
<1> QED BY <1>8, <1>9

\* A call's step leaves the jobs of the other names alone.
LEMMA OtherNames ==
  ASSUME CronInv, NEW c \in Calls, NEW n \in Names \ spoiled', n # call[c].key,
         \/ Look(c) \/ Displace(c) \/ Schedule(c) \/ Record(c)
         \/ SaveJobs(c) \/ WriteJobs(c) \/ SaveFails(c)
  PROVE  NameKept(n)'
<1>t. CronTypes
  BY DEF CronInv
<1> DEFINE k == call[c].key
<1>1. /\ \A d \in Calls \ {c} : call'[d] = call[d]
      /\ UNCHANGED loaded /\ call[c].pc # "idle" /\ k \in Names
      /\ call'[c].pc # "idle" => call'[c].key = k
  <2>1. ~CallBegins(c)
    BY DEF CallAt, CallBegins, Look, Displace, Schedule, Record, SaveJobs, WriteJobs, SaveFails
  <2> QED BY <2>1, CallsElsewhere
<1>2. \A d \in Calls : /\ Works(d, n)' <=> Works(d, n)
                       /\ Works(d, n) => call'[d] = call[d]
  BY <1>1 DEF Works
<1>3. EntriesOf(n)' = EntriesOf(n)
  <2>1. CASE UNCHANGED entries
    BY <2>1 DEF EntriesOf
  <2>2. CASE \E x : entries' = entries \cup {<<k, x>>} \/ entries' = entries \ {<<k, x>>}
    <3>1. PICK x : entries' = entries \cup {<<k, x>>} \/ entries' = entries \ {<<k, x>>}
      BY <2>2
    <3>2. \A e : e[1] = n => e # <<k, x>>
      OBVIOUS
    <3> HIDE DEF k
    <3> QED BY <3>1, <3>2 DEF EntriesOf
  <2> QED BY <2>1, <2>2 DEF Look, Displace, Schedule, Record, SaveJobs, WriteJobs, SaveFails
<1>4. jobs'[n] = jobs[n]
  BY <1>t DEF CronTypes, Look, Displace, Schedule, Record, SaveJobs, WriteJobs, SaveFails
<1>5. Defined(n)' <=> Defined(n)
  <2>1. CASE UNCHANGED defs
    BY <2>1 DEF Defined
  <2>2. CASE Displace(c)
    BY <2>2 DEF Displace, Defined, KeysOf
  <2>3. CASE Record(c)
    <3>1. defs' = {j \in defs : j.key # k} \cup {Job("command", k, "six")}
      BY <2>3 DEF Record
    <3>2. Job("command", k, "six").key = k
      BY DEF Job
    <3> HIDE DEF k
    <3> QED BY <3>1, <3>2 DEF Defined, KeysOf, k
  <2> QED BY <2>1, <2>2, <2>3 DEF Look, Schedule, SaveJobs, WriteJobs, SaveFails
<1>6. n \in told' <=> n \in told
  BY DEF Look, Displace, Schedule, Record, SaveJobs, WriteJobs, SaveFails, ToldAfter
<1>7. InFile("command", n)' <=> InFile("command", n)
  <2>1. CASE UNCHANGED cronFile
    BY <2>1 DEF InFile
  <2>2. CASE WriteJobs(c)
    <3>1. cronFile'.jobs = call[c].data /\ n \notin Crossed(c)
      BY <2>2 DEF WriteJobs
    <3>2. n \in KeysOf("command", call[c].data) <=> n \in KeysOf("command", cronFile.jobs)
      BY <3>1 DEF Crossed, Unlike
    <3> QED BY <3>1, <3>2 DEF InFile
  <2>3. CASE SaveFails(c) /\ ~UNCHANGED cronFile
    BY <2>3 DEF SaveFails
  <2> QED BY <2>1, <2>2, <2>3 DEF Look, Displace, Schedule, Record, SaveJobs
<1>8. n \notin spoiled
  BY DEF Look, Displace, Schedule, Record, SaveJobs, WriteJobs, SaveFails
<1>9. NameKept(n)
  BY <1>8 DEF CronInv, NamesInv
<1> HIDE DEF k
<1> QED BY <1>1, <1>2, <1>3, <1>4, <1>5, <1>6, <1>7, <1>9, NameUntouched

\* A call's step with the job it is about.
LEMMA OwnName ==
  ASSUME CronInv, NEW c \in Calls, NEW n \in Names \ spoiled', n = call[c].key,
         \/ Look(c) \/ Displace(c) \/ Schedule(c) \/ Record(c)
         \/ SaveJobs(c) \/ WriteJobs(c) \/ SaveFails(c)
  PROVE  NameKept(n)'
<1>t. CronTypes
  BY DEF CronInv
<1>o. PICK now \in JobCall : now = call[c]
  BY <1>t DEF CronTypes
<1>1. /\ \A d \in Calls \ {c} : call'[d] = call[d]
      /\ loaded = TRUE /\ loaded' = TRUE /\ call[c].pc # "idle"
      /\ call'[c].pc # "idle" => call'[c].key = n
  <2>1. ~CallBegins(c)
    BY DEF CallAt, CallBegins, Look, Displace, Schedule, Record, SaveJobs, WriteJobs, SaveFails
  <2> QED BY <2>1, <1>t, CallsElsewhere DEF CronTypes
<1>2. n \notin spoiled
  BY DEF Look, Displace, Schedule, Record, SaveJobs, WriteJobs, SaveFails
<1>3. /\ InFile("command", n) <=> n \in told
      /\ Under(c, n) /\ \A d \in Calls \ {c} : ~Works(d, n)
  BY <1>1, <1>2 DEF CronInv, NamesInv, NameKept, Works
<1>4. \A d \in Calls \ {c} : ~Works(d, n)'
  BY <1>1, <1>3 DEF Works
\* What is left to show.
<1>5. ASSUME InFile("command", n)' <=> n \in told',
             IF call'[c].pc = "idle" THEN Settled(n)' ELSE Under(c, n)'
      PROVE  NameKept(n)'
  BY <1>1, <1>4, <1>5 DEF NameKept, Works
<1>d. DOMAIN call = Calls /\ n \in DOMAIN jobs /\ NoCall.pc = "idle"
  BY <1>t DEF CronTypes, NoCall
<1>6. CASE Look(c)
  <2>1. UNCHANGED <<cronFile, told, entries, jobs, defs>> /\ now.pc = "look"
    BY <1>6, <1>o DEF Look, CallAt
  <2>2. Settled(n) /\ Settled(n)' /\ (InFile("command", n)' <=> n \in told')
    BY <2>1, <1>3, <1>o DEF Under, Settled, EntriesOf, Defined, InFile
  <2>3. CASE jobs[n] # 0
    <3>1. call'[c] = [now EXCEPT !.pc = "displace", !.number = jobs[n]]
      BY <2>3, <1>6, <1>o, <1>d DEF Look
    <3>2. call'[c].pc = "displace" /\ call'[c].number = jobs'[n]
      BY <3>1, <2>1, now \in JobCall DEF JobCall
    <3> QED BY <3>2, <2>1, <2>2, <2>3, <1>5 DEF Under
  <2>4. CASE jobs[n] = 0 /\ now.adds
    <3>1. call'[c].pc = "schedule" /\ call'[c].adds
      BY <2>4, <1>6, <1>o, <1>d, now \in JobCall DEF Look, JobCall
    <3>2. EntriesOf(n)' = {}
      BY <2>1, <2>2, <2>4 DEF Settled
    <3> QED BY <3>1, <3>2, <2>2, <1>5 DEF Under
  <2>5. CASE jobs[n] = 0 /\ ~now.adds
    <3>1. call'[c].pc = "idle"
      BY <2>5, <1>6, <1>o, <1>d DEF Look
    <3> QED BY <3>1, <2>2, <1>5
  <2> QED BY <2>3, <2>4, <2>5
<1>7. CASE Displace(c)
  <2>1. /\ UNCHANGED <<cronFile, told>> /\ now.pc = "displace"
        /\ entries' = entries \ {<<n, now.number>>} /\ jobs' = [jobs EXCEPT ![n] = 0]
        /\ defs' = IF now.adds THEN defs ELSE {j \in defs : j.key # n}
        /\ call' = [call EXCEPT ![c] = [now EXCEPT !.pc = IF now.adds THEN "schedule" ELSE "save"]]
    BY <1>7, <1>o DEF Displace, CallAt
  <2>2. Settled(n) /\ jobs[n] # 0 /\ now.number = jobs[n]
    BY <2>1, <1>3, <1>o DEF Under
  <2>3. EntriesOf(n) = {<<n, now.number>>}
    BY <2>2 DEF Settled
  <2>4. EntriesOf(n)' = {}
    BY <2>1, <2>3 DEF EntriesOf
  <2>5. /\ call'[c].pc = IF now.adds THEN "schedule" ELSE "save"
        /\ call'[c].adds = now.adds
    BY <2>1, <1>d, now \in JobCall DEF JobCall
  <2>6. jobs'[n] = 0 /\ (InFile("command", n)' <=> n \in told')
    BY <2>1, <1>d, <1>3 DEF InFile
  <2>7. ~now.adds => ~Defined(n)'
    BY <2>1 DEF Defined, KeysOf
  <2> QED BY <2>4, <2>5, <2>6, <2>7, <1>5 DEF Under
<1>8. CASE Schedule(c)
  <2>1. now.when # "five"
    BY <1>8, <1>o DEF Schedule
  <2>2. /\ UNCHANGED <<cronFile, told>> /\ now.pc = "schedule"
        /\ entries' = entries \cup {<<n, nextID>>}
        /\ call' = [call EXCEPT ![c] = [now EXCEPT !.pc = "record", !.number = nextID]]
    BY <2>1, <1>8, <1>o DEF Schedule, CallAt
  <2>3. now.adds /\ EntriesOf(n) = {}
    BY <2>2, <1>3, <1>o DEF Under
  <2>4. EntriesOf(n)' = {<<n, nextID>>}
    BY <2>2, <2>3 DEF EntriesOf
  <2>5. call'[c].pc = "record" /\ call'[c].adds /\ call'[c].number = nextID
    BY <2>2, <2>3, <1>d, now \in JobCall DEF JobCall
  <2>6. nextID # 0
    BY <1>t DEF CronTypes
  <2>7. InFile("command", n)' <=> n \in told'
    BY <2>2, <1>3 DEF InFile
  <2> QED BY <2>4, <2>5, <2>6, <2>7, <1>5 DEF Under
<1>9. CASE Record(c)
  <2>1. /\ UNCHANGED <<cronFile, told, entries>> /\ now.pc = "record"
        /\ jobs' = [jobs EXCEPT ![n] = now.number]
        /\ defs' = {j \in defs : j.key # n} \cup {Job("command", n, "six")}
        /\ call' = [call EXCEPT ![c] = [now EXCEPT !.pc = "save"]]
    BY <1>9, <1>o DEF Record, CallAt
  <2>2. now.adds /\ now.number # 0 /\ EntriesOf(n) = {<<n, now.number>>}
    BY <2>1, <1>3, <1>o DEF Under
  <2>3. EntriesOf(n)' = {<<n, jobs'[n]>>} /\ jobs'[n] # 0
    BY <2>1, <2>2, <1>d DEF EntriesOf
  <2>4. Job("command", n, "six").key = n /\ Job("command", n, "six").kind = "command" /\ n # ""
    BY CronConfig DEF Job
  <2>5. Defined(n)'
    BY <2>1, <2>4 DEF Defined, KeysOf
  <2>6. call'[c].pc = "save" /\ call'[c].adds
    BY <2>1, <2>2, <1>d, now \in JobCall DEF JobCall
  <2>7. InFile("command", n)' <=> n \in told'
    BY <2>1, <1>3 DEF InFile
  <2> QED BY <2>3, <2>5, <2>6, <2>7, <1>5 DEF Under
<1>10. CASE SaveJobs(c)
  <2>1. /\ UNCHANGED <<cronFile, told, entries, jobs, defs>> /\ now.pc = "save"
        /\ call' = [call EXCEPT ![c] = [now EXCEPT !.pc = "write", !.data = defs]]
    BY <1>10, <1>o DEF SaveJobs, CallAt
  <2>2. call'[c] = [now EXCEPT !.pc = "write", !.data = defs]
    BY <2>1, <1>d
  <2>3. call'[c].pc = "write" /\ call'[c].adds = now.adds
    BY <2>2, now \in JobCall DEF JobCall
  <2>4. Under(c, n)' /\ (InFile("command", n)' <=> n \in told')
    BY <2>1, <2>3, <1>3, <1>o DEF Under, EntriesOf, Defined, InFile
  <2> QED BY <2>3, <2>4, <1>5
<1>11. CASE WriteJobs(c)
  <2>1. /\ UNCHANGED <<entries, jobs, defs>> /\ now.pc = "write"
        /\ cronFile'.jobs = now.data /\ told' = IF now.adds THEN told \cup {n} ELSE told \ {n}
        /\ n \notin Crossed(c) /\ call'[c].pc = "idle"
    BY <1>11, <1>o, <1>d DEF WriteJobs, CallAt, ToldAfter
  <2>2. IF now.adds THEN EntriesOf(n) = {<<n, jobs[n]>>} /\ jobs[n] # 0 /\ Defined(n)
                    ELSE EntriesOf(n) = {} /\ jobs[n] = 0 /\ ~Defined(n)
    BY <2>1, <1>3, <1>o DEF Under
  <2>3. InFile("command", n)' <=> Defined(n)
    BY <2>1, <1>o DEF InFile, Defined, Crossed, Unlike
  <2>4. EntriesOf(n)' = EntriesOf(n) /\ (Defined(n)' <=> Defined(n)) /\ jobs'[n] = jobs[n]
    BY <2>1 DEF EntriesOf, Defined
  <2>5. Settled(n)' /\ (InFile("command", n)' <=> n \in told')
    BY <2>1, <2>2, <2>3, <2>4 DEF Settled
  <2> QED BY <2>1, <2>5, <1>5
<1>12. CASE SaveFails(c)
  BY <1>12 DEF SaveFails
<1> QED BY <1>6, <1>7, <1>8, <1>9, <1>10, <1>11, <1>12

\* A new call finds the job as the users were told, unless it races another.
LEMMA BeginKeeps ==
  ASSUME CronInv, NEW c \in Calls, CallBegins(c), NEW n \in Names \ spoiled'
  PROVE  NameKept(n)'
<1>t. CronTypes
  BY DEF CronInv
<1>1. PICK name \in Names, adds \in BOOLEAN, when \in {"six", "five"} :
        /\ call' = [call EXCEPT ![c] = [NoCall EXCEPT !.pc = "look", !.key = name,
                                                      !.adds = adds, !.when = when]]
        /\ spoiled' = IF \E d \in Calls : call[d].pc # "idle" /\ call[d].key = name
                      THEN spoiled \cup {name} ELSE spoiled
  BY DEF CallBegins
<1>2. call'[c].pc = "look" /\ call'[c].key = name
  <2>1. [NoCall EXCEPT !.pc = "look", !.key = name, !.adds = adds, !.when = when].pc = "look"
    BY DEF NoCall
  <2>2. [NoCall EXCEPT !.pc = "look", !.key = name, !.adds = adds, !.when = when].key = name
    BY DEF NoCall
  <2> QED BY <1>1, <1>t, <2>1, <2>2 DEF CronTypes
<1>3. \A d \in Calls \ {c} : call'[d] = call[d]
  BY <1>1, <1>t DEF CronTypes
<1>4. call[c].pc = "idle" /\ UNCHANGED <<cronFile, told>>
  BY DEF CallBegins, CallAt, othersVars
<1>5. n \notin spoiled /\ NameKept(n)
  BY <1>1 DEF CronInv, NamesInv
<1>6. ASSUME n = name PROVE \A d \in Calls : ~Works(d, n)
  BY <1>1, <1>6 DEF Works
<1>7. InFile("command", n)' <=> n \in told'
  BY <1>4, <1>5 DEF NameKept, InFile
<1>8. ASSUME \A d \in Calls : ~Works(d, n) PROVE Settled(n)'
  <2>1. CASE loaded
    <3>1. UNCHANGED <<entries, jobs, defs, told>>
      BY <2>1 DEF CallBegins
    <3>2. Settled(n)
      BY <2>1, <1>5, <1>8 DEF NameKept
    <3> QED BY <3>1, <3>2 DEF Settled, EntriesOf, Defined
  <2>2. CASE ~loaded
    <3>1. /\ UNCHANGED told /\ defs' = Persisted
          /\ entries' = {<<j.key, 1>> : j \in Persisted}
          /\ jobs' = [m \in DOMAIN jobs |-> IF \E j \in Persisted : j.key = m THEN 1 ELSE 0]
      BY <2>2 DEF CallBegins
    <3> QED BY <3>1, <2>2, <1>5, LoadSettles
  <2> QED BY <2>1, <2>2
<1>9. CASE n = name
  <2>1. \A d \in Calls \ {c} : ~Works(d, n)'
    BY <1>3, <1>6, <1>9 DEF Works
  <2>2. Works(c, n)' /\ Under(c, n)'
    BY <1>2, <1>6, <1>8, <1>9 DEF Works, Under
  <2> QED BY <2>1, <2>2, <1>7 DEF NameKept
<1>10. CASE n # name /\ loaded
  <2>1. ~Works(c, n)' /\ ~Works(c, n)
    BY <1>2, <1>4, <1>10 DEF Works
  <2>2. \A d \in Calls : /\ Works(d, n)' <=> Works(d, n)
                         /\ Works(d, n) => call'[d] = call[d]
    BY <2>1, <1>3 DEF Works
  <2>3. UNCHANGED <<entries, jobs, defs>> /\ UNCHANGED loaded
    BY <1>10 DEF CallBegins
  <2> QED BY <2>2, <2>3, <1>4, <1>5, NameUntouched DEF InFile
<1>11. CASE n # name /\ ~loaded
  <2>1. \A d \in Calls : ~Works(d, n)
    BY <1>11 DEF CronInv, Works
  <2>2. \A d \in Calls : ~Works(d, n)'
    BY <2>1, <1>2, <1>3, <1>11 DEF Works
  <2> QED BY <2>1, <2>2, <1>7, <1>8 DEF NameKept
<1> QED BY <1>9, <1>10, <1>11

LEMMA NamesStep == CronInv /\ CronNext => NamesInv'
<1> SUFFICES ASSUME CronInv, CronNext, NEW n \in Names \ spoiled' PROVE NameKept(n)'
  BY DEF NamesInv
<1>n. n \notin Ids
  BY CronConfig
<1>1. CASE CommandReads \/ DaemonStarts
  <2>1. UNCHANGED <<cronFile, toolVars, told, spoiled>>
    BY <1>1 DEF CommandReads, DaemonStarts
  <2>2. NameKept(n)
    BY <2>1 DEF CronInv, NamesInv
  <2> QED BY <2>1, <2>2, NameUntouched DEF InFile, Works, toolVars
<1>2. CASE CommandWrites
  <2>1. /\ cronFile'.jobs = shell.next /\ UNCHANGED toolVars
        /\ n \notin spoiled /\ n \notin KeysOf("command", cronFile.jobs)
        /\ told' = told \cup {shell.key} \/ told' = told \ {shell.key}
    BY <1>2 DEF CommandWrites, KeysOf
  <2>2. shell.key \in Ids
    BY <1>2 DEF CommandWrites, CronInv, ShellInv
  <2>3. n \in told' <=> n \in told
    BY <2>1, <2>2, <1>n
  <2>4. shell.next \subseteq Prompts
    BY DEF CronInv, CronTypes
  <2>5. n \notin KeysOf("command", shell.next)
    BY <2>4 DEF KeysOf, Prompts
  <2>6. NameKept(n)
    BY <2>1 DEF CronInv, NamesInv
  <2> QED BY <2>1, <2>3, <2>5, <2>6, NameUntouched DEF InFile, Works, toolVars
<1>3. CASE DaemonEnds
  <2>1. /\ \A c \in Calls : call'[c].pc = "idle"
        /\ loaded' = FALSE /\ UNCHANGED <<cronFile, told, spoiled>>
    BY <1>3 DEF DaemonEnds, NoCall
  <2>2. NameKept(n)
    BY <2>1 DEF CronInv, NamesInv
  <2> QED BY <2>1, <2>2 DEF NameKept, Works, InFile
<1>4. ASSUME NEW c \in Calls,
             \/ Look(c) \/ Displace(c) \/ Schedule(c) \/ Record(c)
             \/ SaveJobs(c) \/ WriteJobs(c) \/ SaveFails(c)
      PROVE  NameKept(n)'
  BY <1>4, OtherNames, OwnName
<1>5. CASE CommandFails
  <2>1. UNCHANGED <<cronFile, toolVars, told, spoiled>>
    BY <1>5 DEF CommandFails
  <2>2. NameKept(n)
    BY <2>1 DEF CronInv, NamesInv
  <2> QED BY <2>1, <2>2, NameUntouched DEF InFile, Works, toolVars
<1> QED BY <1>1, <1>2, <1>3, <1>4, <1>5, BeginKeeps DEF CronNext

LEMMA CronStep == CronInv /\ [CronNext]_cronVars => CronInv'
<1> SUFFICES ASSUME CronInv, [CronNext]_cronVars PROVE CronInv'
  OBVIOUS
<1>1. CASE UNCHANGED cronVars
  <2>1. UNCHANGED <<cronFile, shell, call, loaded, entries, nextID, jobs, defs, told, spoiled>>
    BY <1>1 DEF cronVars
  <2>2. CronTypes' /\ ShellInv'
    BY <2>1 DEF CronInv, CronTypes, ShellInv, InFile
  <2>3. ASSUME NEW n \in Names \ spoiled' PROVE NameKept(n)'
    <3>1. NameKept(n)
      BY <2>1 DEF CronInv, NamesInv
    <3> QED BY <2>1, <3>1, NameUntouched DEF InFile, Works
  <2> QED BY <2>1, <2>2, <2>3 DEF CronInv, NamesInv
<1>2. CASE CronNext
  <2>1. ~cronFile'.readable => cronFile'.jobs = {}
    <3>1. CASE UNCHANGED cronFile
      BY <3>1 DEF CronInv
    <3>2. CASE CommandWrites
      BY <3>2 DEF CommandWrites
    <3>3. ASSUME NEW c \in Calls, WriteJobs(c) PROVE cronFile'.readable
      BY <3>3 DEF WriteJobs
    <3>4. ASSUME NEW c \in Calls, SaveFails(c), ~UNCHANGED cronFile PROVE cronFile'.jobs = {}
      BY <3>4 DEF SaveFails
    <3>5. CommandReads \/ DaemonStarts \/ DaemonEnds => UNCHANGED cronFile
      BY DEF CommandReads, DaemonStarts, DaemonEnds
    <3>6. ASSUME NEW c \in Calls,
                 CallBegins(c) \/ Look(c) \/ Displace(c) \/ Schedule(c) \/ Record(c) \/ SaveJobs(c)
          PROVE  UNCHANGED cronFile
      BY <3>6 DEF CallBegins, Look, Displace, Schedule, Record, SaveJobs
    <3>7. CASE CommandFails /\ ~UNCHANGED cronFile
      BY <3>7 DEF CommandFails
    <3> QED BY <3>1, <3>2, <3>3, <3>4, <3>5, <3>6, <3>7, <1>2 DEF CronNext
  <2>2. /\ ~loaded' => \A c \in Calls : call'[c].pc = "idle"
        /\ \A c \in Calls : call'[c].pc # "idle" => call'[c].key \in Names
    <3>1. CASE UNCHANGED <<call, loaded>>
      BY <3>1 DEF CronInv
    <3>2. CASE DaemonEnds
      BY <3>2 DEF DaemonEnds, NoCall
    <3>3. ASSUME NEW c \in Calls,
                 \/ CallBegins(c) \/ Look(c) \/ Displace(c) \/ Schedule(c) \/ Record(c)
                 \/ SaveJobs(c) \/ WriteJobs(c) \/ SaveFails(c)
          PROVE  /\ loaded' = TRUE
                 /\ \A d \in Calls : call'[d].pc # "idle" => call'[d].key \in Names
      BY <3>3, CallsElsewhere DEF CronInv
    <3> QED BY <3>1, <3>2, <3>3, <1>2 DEF CronNext, CommandReads, CommandWrites, CommandFails,
            DaemonStarts, toolVars
  <2>3. CronTypes' /\ ShellInv' /\ NamesInv'
    BY <1>2, CronTypeStep, ShellStep, NamesStep
  <2> QED BY <2>1, <2>2, <2>3 DEF CronInv
<1> QED BY <1>1, <1>2

LEMMA CronKept == CronInv => CronJobsKept
<1> SUFFICES ASSUME CronInv, AtRest
             PROVE  /\ Keys(cronFile.jobs) \ spoiled = told \ spoiled
                    /\ loaded => \A n \in Names \ spoiled :
                         {e \in entries : e[1] = n} = IF n \in told THEN {<<n, jobs[n]>>} ELSE {}
  BY DEF CronJobsKept
<1>1. cronFile.jobs \subseteq Prompts \cup Commands /\ told \subseteq Ids \cup Names
  BY DEF CronInv, CronTypes
<1>2. \A key : key \in Keys(cronFile.jobs) <=>
               \/ key \in Ids /\ InFile("prompt", key)
               \/ key \in Names /\ InFile("command", key)
  BY <1>1 DEF Keys, InFile, KeysOf, Prompts, Commands
<1>3. \A id \in Ids \ spoiled : InFile("prompt", id) <=> id \in told
  BY DEF CronInv, ShellInv
<1>4. \A n \in Names \ spoiled : NameKept(n)
  BY DEF CronInv, NamesInv
<1>5. \A n \in Names \ spoiled : InFile("command", n) <=> n \in told
  BY <1>4 DEF NameKept
<1>6. Keys(cronFile.jobs) \ spoiled = told \ spoiled
  BY <1>1, <1>2, <1>3, <1>5
<1>7. \A c \in Calls : \A n : ~Works(c, n)
  BY DEF AtRest, Works
<1>8. loaded => \A n \in Names \ spoiled : Settled(n)
  BY <1>4, <1>7 DEF NameKept
<1> QED BY <1>6, <1>8 DEF Settled, EntriesOf

-----------------------------------------------------------------------------
(* The rules *)

RuleCommand == [pc : {"idle", "open", "write"}, base : SUBSET FileRules, next : SUBSET FileRules,
                id : RuleNames \cup {"none"}]

RuleTypes ==
  /\ ruleFile \in [state : {"missing", "empty", "ok", "unparsable"}, rules : SUBSET FileRules]
  /\ command \in [Shells -> RuleCommand]
  /\ watcher \in {"off", "loading", "on"} /\ notices \in Nat
  /\ promised \subseteq FileRules /\ disturbed \subseteq RuleNames

\* Rules that no named hazard has met and that are not about id are in both or in neither.
AgreeBut(a, b, id) == \A r \in FileRules : r.id \in disturbed \cup {id} \/ (r \in a <=> r \in b)

\* A command changes the rule it is about.  The file agrees with what was promised while no
\* command is about to write it, and will again after a write that nothing came in between
\* its truncation and it.
FileInv ==
  /\ \A c \in Shells : command[c].pc # "idle" =>
       \A r \in FileRules : r.id = command[c].id \/
                              (r \in command[c].next <=> r \in command[c].base)
  /\ (\A c \in Shells : command[c].pc # "write") =>
       \A r \in FileRules : r.id \in disturbed \/ (r \in ruleFile.rules <=> r \in promised)
  /\ \A c \in Shells :
       /\ command[c].pc = "write" /\ ruleFile.state = "empty"
       /\ \A d \in Shells \ {c} : command[d].pc # "write"
       => AgreeBut(command[c].next, promised, command[c].id)

\* With nothing left to read, the engine goes by the file.
ReadInForce ==
  (watcher = "on" /\ notices = 0 /\ Acceptable(ruleFile)) => inForce = ruleFile.rules

RuleInv == RuleTypes /\ FileInv /\ ReadInForce

LEMMA RulesBegin == RuleFileInit => RuleInv
<1> SUFFICES ASSUME RuleFileInit PROVE RuleInv
  OBVIOUS
<1>1. NoCommand \in RuleCommand /\ NoCommand.pc = "idle"
  BY DEF NoCommand, RuleCommand
<1>2. command \in [Shells -> RuleCommand] /\ \A c \in Shells : command[c].pc = "idle"
  BY <1>1 DEF RuleFileInit
<1>3. ruleFile \in [state : {"missing", "empty", "ok", "unparsable"}, rules : SUBSET FileRules]
  BY DEF RuleFileInit, RuleSets
<1>4. promised = ruleFile.rules /\ ruleFile.rules \subseteq FileRules /\ disturbed = {}
  BY <1>3 DEF RuleFileInit
<1>5. watcher = "off" /\ notices = 0
  BY DEF RuleFileInit
<1> QED BY <1>2, <1>3, <1>4, <1>5 DEF RuleInv, RuleTypes, FileInv, ReadInForce

LEMMA RuleTypeStep == RuleInv /\ RuleFileNext => RuleTypes'
<1> SUFFICES ASSUME RuleInv, RuleFileNext PROVE RuleTypes'
  OBVIOUS
<1> DEFINE FileStates == [state : {"missing", "empty", "ok", "unparsable"},
                          rules : SUBSET FileRules]
<1>t. RuleTypes
  BY DEF RuleInv
<1>r. ruleFile.rules \subseteq FileRules
  BY <1>t DEF RuleTypes
<1>a. \A n \in Nat : n + 1 \in Nat
  OBVIOUS
<1>1. ASSUME NEW c \in Shells, NEW id \in RuleNames, AddRule(c, id) PROVE RuleTypes'
  <2>1. PICK looked \in BOOLEAN :
          ReadRules(c, id, ruleFile.rules \cup {[id |-> id, known |-> looked, on |-> TRUE]})
    BY <1>1 DEF AddRule
  <2>2. [id |-> id, known |-> looked, on |-> TRUE] \in FileRules
    BY DEF FileRules
  <2>3. command' \in [Shells -> RuleCommand]
    BY <2>1, <2>2, <1>r, <1>t DEF ReadRules, RuleCommand, RuleTypes
  <2> QED BY <2>3, <1>1, <1>t DEF AddRule, RuleTypes
<1>2. ASSUME NEW c \in Shells, NEW id \in RuleNames, NEW on \in BOOLEAN, SetRuleEnabled(c, id, on)
      PROVE  RuleTypes'
  <2>1. Switched(ruleFile.rules, id, on) \subseteq FileRules
    BY <1>r DEF Switched, FileRules
  <2>2. command' \in [Shells -> RuleCommand]
    BY <2>1, <1>2, <1>r, <1>t DEF SetRuleEnabled, ReadRules, RuleCommand, RuleTypes
  <2> QED BY <2>2, <1>2, <1>t DEF SetRuleEnabled, RuleTypes
<1>3. ASSUME NEW c \in Shells, TruncateRules(c) PROVE RuleTypes'
  <2>1. command[c] \in RuleCommand
    BY <1>t DEF RuleTypes
  <2>2. command' \in [Shells -> RuleCommand]
    BY <2>1, <1>3, <1>t DEF TruncateRules, RuleCommand, RuleTypes
  <2>3. ruleFile' \in FileStates
    BY <1>3 DEF TruncateRules
  <2>4. RulesApart(ruleFile.rules, command[c].base) \subseteq RuleNames
    BY <2>1, <1>r DEF RulesApart, IdsOf, RuleCommand, FileRules
  <2>5. disturbed' \subseteq RuleNames
    BY <2>4, <1>3, <1>t DEF TruncateRules, RuleTypes
  <2>6. notices' \in Nat
    BY <1>3, <1>t, <1>a DEF TruncateRules, Noticed, RuleTypes
  <2> QED BY <2>2, <2>3, <2>5, <2>6, <1>3, <1>t DEF TruncateRules, RuleTypes
<1>4. ASSUME NEW c \in Shells, WriteRules(c) PROVE RuleTypes'
  <2>1. command[c] \in RuleCommand /\ command[c].next \subseteq FileRules
    BY <1>t DEF RuleTypes, RuleCommand
  <2>2. command' \in [Shells -> RuleCommand]
    BY <1>4, <1>t DEF WriteRules, RuleCommand, NoCommand, RuleTypes
  <2>3. ruleFile' \in FileStates
    BY <2>1, <1>4, <1>t DEF WriteRules, RuleTypes
  <2>4. promised' \subseteq FileRules /\ disturbed' \subseteq RuleNames
    BY <2>1, <1>4, <1>t DEF WriteRules, RuleTypes
  <2>5. notices' \in Nat
    BY <1>4, <1>t, <1>a DEF WriteRules, Noticed, RuleTypes
  <2> QED BY <2>2, <2>3, <2>4, <2>5, <1>4, <1>t DEF WriteRules, RuleTypes
<1>5. ASSUME NEW c \in Shells, WriteRulesLost(c) PROVE RuleTypes'
  <2>1. command' \in [Shells -> RuleCommand]
    BY <1>5, <1>t DEF WriteRulesLost, RuleCommand, NoCommand, RuleTypes
  <2> QED BY <2>1, <1>5, <1>t DEF WriteRulesLost, RuleTypes
<1>6. CASE EditByHand
  <2>1. ruleFile' \in FileStates
    BY <1>6 DEF EditByHand
  <2>2. notices' \in Nat
    BY <1>6, <1>t, <1>a DEF EditByHand, Noticed, RuleTypes
  <2> QED BY <2>1, <2>2, <1>6, <1>t DEF EditByHand, RuleTypes
<1>7. CASE LoadAtStart
  BY <1>7, <1>t DEF LoadAtStart, RuleTypes
<1>8. CASE StartWatching
  BY <1>8, <1>t DEF StartWatching, RuleTypes
<1>9. CASE Reload
  BY <1>9, <1>t DEF Reload, RuleTypes
<1>10. CASE StopWatching
  BY <1>10, <1>t DEF StopWatching, RuleTypes
<1> QED BY <1>1, <1>2, <1>3, <1>4, <1>5, <1>6, <1>7, <1>8, <1>9, <1>10 DEF RuleFileNext

\* A command that reads the file edits one rule of what it read, and touches nothing else.
LEMMA ReadingKeeps ==
  ASSUME RuleInv, NEW c \in Shells, NEW id, NEW next, command[c].pc = "idle",
         ReadRules(c, id, next), UNCHANGED <<ruleFile, promised>>, disturbed \subseteq disturbed',
         \A r \in FileRules : r.id = id \/ (r \in next <=> r \in ruleFile.rules)
  PROVE  FileInv'
<1>1. /\ command'[c].pc = "open" /\ command'[c].base = ruleFile.rules
      /\ command'[c].next = next /\ command'[c].id = id
      /\ \A d \in Shells \ {c} : command'[d] = command[d]
  BY DEF RuleInv, RuleTypes, ReadRules
<1>2. \A d \in Shells : command'[d].pc # "idle" =>
        \A r \in FileRules : r.id = command'[d].id \/
                               (r \in command'[d].next <=> r \in command'[d].base)
  BY <1>1 DEF RuleInv, FileInv
<1>3. (\A d \in Shells : command'[d].pc # "write") =>
        \A r \in FileRules : r.id \in disturbed' \/ (r \in ruleFile'.rules <=> r \in promised')
  <2>1. SUFFICES ASSUME \A d \in Shells : command'[d].pc # "write"
                 PROVE  \A r \in FileRules :
                          r.id \in disturbed \/ (r \in ruleFile.rules <=> r \in promised)
    OBVIOUS
  <2>2. \A d \in Shells : command[d].pc # "write"
    BY <2>1, <1>1
  <2> QED BY <2>2 DEF RuleInv, FileInv
<1>4. ASSUME NEW d \in Shells, command'[d].pc = "write", ruleFile'.state = "empty",
             \A e \in Shells \ {d} : command'[e].pc # "write"
      PROVE  AgreeBut(command[d].next, promised, command[d].id)'
  <2>1. /\ command[d].pc = "write" /\ command'[d] = command[d]
        /\ \A e \in Shells \ {d} : command[e].pc # "write"
    BY <1>1, <1>4
  <2>2. AgreeBut(command[d].next, promised, command[d].id)
    BY <2>1, <1>4 DEF RuleInv, FileInv
  <2> QED BY <2>1, <2>2 DEF AgreeBut
<1> QED BY <1>2, <1>3, <1>4 DEF FileInv

\* Where every rule may be lost, the commands alone matter.
LEMMA AllDisturbed ==
  ASSUME RuleInv, disturbed' = RuleNames,
         \A d \in Shells : command'[d] = command[d] \/ command'[d].pc = "idle"
  PROVE  FileInv'
<1>1. \A r \in FileRules : r.id \in disturbed'
  BY DEF FileRules
<1>2. \A d \in Shells : command'[d].pc # "idle" =>
        \A r \in FileRules : r.id = command'[d].id \/
                               (r \in command'[d].next <=> r \in command'[d].base)
  BY DEF RuleInv, FileInv
<1> QED BY <1>1, <1>2 DEF FileInv, AgreeBut

\* Not disturbed, a rule of the file is one of what the command has read.
LEMMA RulesAgree ==
  ASSUME NEW a, NEW b, NEW r, r.id \notin RulesApart(a, b)
  PROVE  r \in a <=> r \in b
  BY DEF RulesApart, IdsOf

LEMMA FileStep == RuleInv /\ RuleFileNext => FileInv'
<1> SUFFICES ASSUME RuleInv, RuleFileNext PROVE FileInv'
  OBVIOUS
<1>t. RuleTypes /\ FileInv
  BY DEF RuleInv
<1>1. ASSUME NEW c \in Shells, NEW id \in RuleNames, AddRule(c, id) PROVE FileInv'
  <2>1. PICK looked \in BOOLEAN :
          ReadRules(c, id, ruleFile.rules \cup {[id |-> id, known |-> looked, on |-> TRUE]})
    BY <1>1 DEF AddRule
  <2> DEFINE next == ruleFile.rules \cup {[id |-> id, known |-> looked, on |-> TRUE]}
  <2>2. \A r \in FileRules : r.id = id \/ (r \in next <=> r \in ruleFile.rules)
    OBVIOUS
  <2>3. disturbed \subseteq disturbed'
    BY <1>1, <1>t DEF AddRule, RuleTypes
  <2>4. command[c].pc = "idle" /\ UNCHANGED <<ruleFile, promised>>
    BY <1>1 DEF AddRule
  <2> HIDE DEF next
  <2> QED BY <2>1, <2>2, <2>3, <2>4, ReadingKeeps DEF next
<1>2. ASSUME NEW c \in Shells, NEW id \in RuleNames, NEW on \in BOOLEAN, SetRuleEnabled(c, id, on)
      PROVE  FileInv'
  <2> DEFINE next == Switched(ruleFile.rules, id, on)
  <2>1. ASSUME NEW r \in FileRules, r.id # id PROVE r \in next <=> r \in ruleFile.rules
    <3>1. ruleFile.rules \subseteq FileRules
      BY <1>t DEF RuleTypes
    <3>2. ASSUME NEW q \in ruleFile.rules, q.id = id PROVE [q EXCEPT !.on = on].id = id
      BY <3>1, <3>2 DEF FileRules
    <3> QED BY <2>1, <3>2 DEF Switched
  <2>2. /\ command[c].pc = "idle" /\ UNCHANGED <<ruleFile, promised, disturbed>>
        /\ ReadRules(c, id, next)
    BY <1>2 DEF SetRuleEnabled
  <2> HIDE DEF next
  <2>3. disturbed \subseteq disturbed'
    BY <2>2
  <2> QED BY <2>1, <2>2, <2>3, ReadingKeeps
<1>3. ASSUME NEW c \in Shells, TruncateRules(c) PROVE FileInv'
  <2>1. /\ command[c].pc = "open" /\ command'[c].pc = "write"
        /\ command'[c].base = command[c].base /\ command'[c].next = command[c].next
        /\ command'[c].id = command[c].id /\ UNCHANGED promised
        /\ \A d \in Shells \ {c} : command'[d] = command[d]
    BY <1>3, <1>t DEF TruncateRules, RuleTypes, RuleCommand
  <2>2. \A d \in Shells : command'[d].pc # "idle" =>
          \A r \in FileRules : r.id = command'[d].id \/
                                 (r \in command'[d].next <=> r \in command'[d].base)
    BY <2>1, <1>t DEF FileInv
  <2>3. ASSUME NEW d \in Shells, command'[d].pc = "write",
               \A e \in Shells \ {d} : command'[e].pc # "write"
        PROVE  AgreeBut(command[d].next, promised, command[d].id)'
    <3>1. d = c /\ \A e \in Shells : command[e].pc # "write"
      BY <2>1, <2>3
    <3>2. \A r \in FileRules : r.id \in disturbed \/ (r \in ruleFile.rules <=> r \in promised)
      BY <3>1, <1>t DEF FileInv
    <3>3. disturbed \cup RulesApart(ruleFile.rules, command[c].base) \subseteq disturbed'
      BY <1>3 DEF TruncateRules
    <3>4. \A r \in FileRules : r.id = command[c].id \/
                                 (r \in command[c].next <=> r \in command[c].base)
      BY <2>1, <1>t DEF FileInv
    <3>5. ASSUME NEW r \in FileRules, r.id \notin disturbed', r.id # command[c].id
          PROVE  r \in command[c].next <=> r \in promised
      <4>1. r \in ruleFile.rules <=> r \in command[c].base
        BY <3>3, <3>5, RulesAgree
      <4> QED BY <4>1, <3>2, <3>3, <3>4, <3>5
    <3> QED BY <3>1, <3>5, <2>1 DEF AgreeBut
  <2> QED BY <2>1, <2>2, <2>3 DEF FileInv
<1>4. ASSUME NEW c \in Shells, WriteRules(c) PROVE FileInv'
  <2>1. /\ command[c].pc = "write" /\ command'[c].pc = "idle"
        /\ \A d \in Shells \ {c} : command'[d] = command[d]
    BY <1>4, <1>t DEF WriteRules, RuleTypes, NoCommand
  <2>2. CASE ruleFile.state # "empty"
    BY <2>1, <2>2, <1>4, AllDisturbed DEF WriteRules
  <2>3. CASE ruleFile.state = "empty"
    <3>1. /\ ruleFile'.state = "ok" /\ ruleFile'.rules = command[c].next
          /\ disturbed' = disturbed \ {command[c].id}
          /\ promised' = {r \in promised : r.id # command[c].id}
                            \cup {r \in command[c].next : r.id = command[c].id}
      BY <2>3, <1>4 DEF WriteRules
    <3>2. \A d \in Shells : command'[d].pc # "idle" =>
            \A r \in FileRules : r.id = command'[d].id \/
                                   (r \in command'[d].next <=> r \in command'[d].base)
      BY <2>1, <1>t DEF FileInv
    <3>3. ASSUME \A d \in Shells : command'[d].pc # "write"
          PROVE  \A r \in FileRules :
                   r.id \in disturbed' \/ (r \in ruleFile'.rules <=> r \in promised')
      <4>1. \A d \in Shells \ {c} : command[d].pc # "write"
        BY <2>1, <3>3
      <4>2. AgreeBut(command[c].next, promised, command[c].id)
        BY <4>1, <2>1, <2>3, <1>t DEF FileInv
      <4> QED BY <4>2, <3>1 DEF AgreeBut
    <3> QED BY <3>1, <3>2, <3>3 DEF FileInv
  <2> QED BY <2>2, <2>3
<1>5. ASSUME NEW c \in Shells, WriteRulesLost(c) PROVE FileInv'
  <2>1. /\ command'[c].pc = "idle" /\ \A d \in Shells \ {c} : command'[d] = command[d]
        /\ disturbed' = RuleNames
    BY <1>5, <1>t DEF WriteRulesLost, RuleTypes, NoCommand
  <2> QED BY <2>1, AllDisturbed
<1>6. CASE EditByHand
  BY <1>6, AllDisturbed DEF EditByHand
<1>7. CASE LoadAtStart \/ StartWatching \/ Reload \/ StopWatching
  BY <1>7, <1>t DEF LoadAtStart, StartWatching, Reload, StopWatching, FileInv, AgreeBut
<1> QED BY <1>1, <1>2, <1>3, <1>4, <1>5, <1>6, <1>7 DEF RuleFileNext

LEMMA InForceStep == RuleInv /\ RuleFileNext => ReadInForce'
<1> SUFFICES ASSUME RuleInv, RuleFileNext, (watcher = "on" /\ notices = 0 /\ Acceptable(ruleFile))'
             PROVE  inForce' = ruleFile'.rules
  BY DEF ReadInForce
<1>t. RuleTypes /\ ReadInForce
  BY DEF RuleInv
<1>n. notices \in Nat /\ notices + 1 # 0 /\ notices + 0 = notices
  BY <1>t DEF RuleTypes
<1>1. CASE UNCHANGED <<ruleFile, watcher, notices, inForce>>
  BY <1>1, <1>t DEF ReadInForce, Acceptable
<1>2. ASSUME NEW c \in Shells, TruncateRules(c) PROVE FALSE
  BY <1>2, <1>n DEF TruncateRules, Noticed
<1>3. ASSUME NEW c \in Shells, WriteRules(c) PROVE UNCHANGED <<ruleFile, watcher, notices, inForce>>
  BY <1>3, <1>n DEF WriteRules, Noticed
<1>4. CASE EditByHand
  BY <1>4, <1>n DEF EditByHand, Noticed, Acceptable
<1>5. CASE LoadAtStart \/ StartWatching \/ StopWatching
  BY <1>5 DEF LoadAtStart, StartWatching, StopWatching
<1>6. CASE Reload
  BY <1>6 DEF Reload, Reloaded, Acceptable
<1> QED BY <1>1, <1>2, <1>3, <1>4, <1>5, <1>6
        DEF RuleFileNext, AddRule, SetRuleEnabled, WriteRulesLost

LEMMA RuleStep == RuleInv /\ [RuleFileNext]_ruleFileVars => RuleInv'
<1>1. RuleInv /\ RuleFileNext => RuleInv'
  BY RuleTypeStep, FileStep, InForceStep DEF RuleInv
<1>2. RuleInv /\ UNCHANGED ruleFileVars => RuleInv'
  BY DEF RuleInv, RuleTypes, FileInv, AgreeBut, ReadInForce, Acceptable, ruleFileVars
<1> QED BY <1>1, <1>2

LEMMA RulesStayKept == RuleInv => RulesKept
<1> SUFFICES ASSUME RuleInv, ruleFile.state = "ok", \A c \in Shells : command[c].pc = "idle"
             PROVE  {r \in ruleFile.rules : r.id \notin disturbed}
                      = {r \in promised : r.id \notin disturbed}
  BY DEF RuleInv, ReadInForce, RulesKept
<1>1. \A r \in FileRules : r.id \in disturbed \/ (r \in ruleFile.rules <=> r \in promised)
  BY DEF RuleInv, FileInv
<1>2. ruleFile.rules \subseteq FileRules /\ promised \subseteq FileRules
  BY DEF RuleInv, RuleTypes
<1> QED BY <1>1, <1>2

-----------------------------------------------------------------------------
(* A skill's directory *)

InstallPlaces == {"idle", "fetch", "download", "mkdir", "open", "write"}

InstallCall == [pc : InstallPlaces, from : {"none", "path", "bundle", "git", "archive", "url"},
            next : SkillFiles]

SkillTypes ==
  /\ onDisk \in [there : BOOLEAN, file : [SkillFiles -> {"absent", "torn", "whole"}],
                 repo : BOOLEAN]
  /\ installer \in [Installers -> InstallCall]
  /\ bundled \in BOOLEAN /\ installs \in 0..MaxInstalls /\ mishap \in BOOLEAN

\* An install that is still to bring file f, or the whole repository.
Brings(p, f) ==
  /\ installer[p].pc \in {"open", "write"}
  /\ installer[p].from = "archive" \/ installer[p].next <= f

WorkInv ==
  /\ \A p \in Installers :
       /\ installer[p].pc \in {"open", "write"} => onDisk.there
       /\ installer[p].pc = "write" /\ installer[p].from # "archive" =>
            onDisk.file[installer[p].next] # "absent"
  /\ onDisk.there => \A f \in SkillFiles :
       onDisk.file[f] = "whole" \/ \E p \in Installers : Brings(p, f)
  /\ onDisk.repo => \E p \in Installers : installer[p].pc = "write" /\ installer[p].from = "archive"

SkillInv == SkillTypes /\ (~onDisk.there => onDisk = Nothing) /\ (~mishap => WorkInv)

LEMMA SkillBegins == SkillStoreInit => SkillInv
<1> SUFFICES ASSUME SkillStoreInit PROVE SkillInv
  OBVIOUS
<1>1. 1 \in SkillFiles
  BY SkillStoreConfig DEF SkillFiles
<1>2. NoInstaller \in InstallCall
  BY <1>1 DEF NoInstaller, InstallCall, InstallPlaces
<1>3. installer \in [Installers -> InstallCall] /\ \A p \in Installers : installer[p].pc = "idle"
  BY <1>2 DEF SkillStoreInit, NoInstaller
<1>4. Nothing \in [there : BOOLEAN, file : [SkillFiles -> {"absent", "torn", "whole"}],
                   repo : BOOLEAN]
  BY DEF Nothing
<1>5. onDisk = Nothing /\ onDisk.there = FALSE /\ onDisk.repo = FALSE
  BY DEF SkillStoreInit, Nothing
<1>6. SkillTypes
  <2>1. installs = 0 /\ 0 \in 0..MaxInstalls
    BY SkillStoreConfig DEF SkillStoreInit
  <2>2. bundled \in BOOLEAN /\ mishap \in BOOLEAN
    BY DEF SkillStoreInit
  <2> QED BY <1>3, <1>4, <1>5, <2>1, <2>2 DEF SkillTypes
<1> QED BY <1>3, <1>5, <1>6 DEF SkillInv, WorkInv

LEMMA InstallerStops ==
  ASSUME NEW p \in Installers, SkillTypes, Ends(p)
  PROVE  /\ installer'[p].pc = "idle"
         /\ \A q \in Installers \ {p} : installer'[q] = installer[q]
         /\ installer' \in [Installers -> InstallCall]
<1>1. NoInstaller \in InstallCall /\ NoInstaller.pc = "idle"
  BY SkillStoreConfig DEF NoInstaller, InstallCall, InstallPlaces, SkillFiles
<1> QED BY <1>1 DEF Ends, SkillTypes

LEMMA SkillTypeStep == SkillInv /\ SkillStoreNext => SkillTypes'
<1> SUFFICES ASSUME SkillInv, SkillStoreNext PROVE SkillTypes'
  OBVIOUS
<1> DEFINE Disk == [there : BOOLEAN, file : [SkillFiles -> {"absent", "torn", "whole"}],
                    repo : BOOLEAN]
<1>t. SkillTypes
  BY DEF SkillInv
<1>n. NumFiles \in Nat \ {0} /\ MaxInstalls \in Nat /\ 1 \in SkillFiles
  BY SkillStoreConfig DEF SkillFiles
<1>d. onDisk \in Disk
  BY <1>t DEF SkillTypes
<1>1. CASE RemoveSkill
  BY <1>1, <1>t, <1>n DEF RemoveSkill, SkillTypes, Nothing
<1> SUFFICES ASSUME NEW p \in Installers,
                    \/ Install(p) \/ FetchIndex(p) \/ Download(p)
                    \/ MakeDir(p) \/ OpenCopy(p) \/ WriteCopy(p) \/ CopyFails(p)
                    \/ InstallerDies(p)
             PROVE  SkillTypes'
  BY <1>1 DEF SkillStoreNext
<1>c. installer[p] \in InstallCall
  BY <1>t DEF SkillTypes
<1>2. ASSUME InstallerGoes(p, "fetch", "git", 1) \/ InstallerGoes(p, "mkdir", "git", 1) \/
             (\E way \in {"path", "bundle"} : InstallerGoes(p, "mkdir", way, 1)) \/
             (\E way \in {"archive", "url"} : InstallerGoes(p, "download", way, 1)) \/
             InstallerGoes(p, "mkdir", installer[p].from, 1) \/
             InstallerGoes(p, "open", installer[p].from, 1) \/
             InstallerGoes(p, "write", installer[p].from, installer[p].next) \/
             (installer[p].next + 1 \in SkillFiles /\
                InstallerGoes(p, "open", installer[p].from, installer[p].next + 1)) \/
             Ends(p) \/ UNCHANGED installer
      PROVE  installer' \in [Installers -> InstallCall]
  <2>1. \A pc \in InstallPlaces, way \in {"none", "path", "bundle", "git", "archive", "url"},
          next \in SkillFiles : [pc |-> pc, from |-> way, next |-> next] \in InstallCall
    BY DEF InstallCall
  <2>2. \A pc \in InstallPlaces, way \in {"none", "path", "bundle", "git", "archive", "url"},
          next \in SkillFiles :
            InstallerGoes(p, pc, way, next) => installer' \in [Installers -> InstallCall]
    <3> TAKE pc \in InstallPlaces, way \in {"none", "path", "bundle", "git", "archive", "url"},
             next \in SkillFiles
    <3> HAVE InstallerGoes(p, pc, way, next)
    <3> QED BY <2>1, <1>t DEF InstallerGoes, SkillTypes
  <2>3. installer[p].from \in {"none", "path", "bundle", "git", "archive", "url"} /\
        installer[p].next \in SkillFiles
    BY <1>c DEF InstallCall
  <2>4. {"fetch", "mkdir", "download", "open", "write"} \subseteq InstallPlaces
    BY DEF InstallPlaces
  <2>5. CASE Ends(p)
    BY <2>5, <1>t, InstallerStops
  <2>6. CASE UNCHANGED installer
    BY <2>6, <1>t DEF SkillTypes
  <2> QED BY <2>2, <2>3, <2>4, <2>5, <2>6, <1>2, <1>n
<1>3. CASE Install(p)
  <2>1. installer' \in [Installers -> InstallCall]
    BY <1>2, <1>3 DEF Install
  <2> QED BY <2>1, <1>3, <1>t, <1>n DEF Install, SkillTypes
<1>4. CASE FetchIndex(p)
  <2>1. installer' \in [Installers -> InstallCall]
    BY <1>2, <1>4 DEF FetchIndex
  <2> QED BY <2>1, <1>4, <1>t DEF FetchIndex, SkillTypes
<1>5. CASE Download(p)
  <2>1. installer' \in [Installers -> InstallCall]
    BY <1>2, <1>5 DEF Download
  <2> QED BY <2>1, <1>5, <1>t DEF Download, SkillTypes
<1>6. CASE MakeDir(p)
  <2>1. installer' \in [Installers -> InstallCall]
    BY <1>2, <1>6 DEF MakeDir
  <2>2. onDisk' \in Disk
    BY <1>6, <1>d DEF MakeDir
  <2> QED BY <2>1, <2>2, <1>6, <1>t DEF MakeDir, SkillTypes
<1>7. CASE OpenCopy(p)
  <2>1. installer' \in [Installers -> InstallCall]
    BY <1>2, <1>7 DEF OpenCopy
  <2>2. PICK file \in [SkillFiles -> {"absent", "torn", "whole"}] : file = onDisk.file
    BY <1>d
  <2>3. onDisk' \in Disk
    BY <2>2, <1>7, <1>d, <1>c DEF OpenCopy, InstallCall
  <2> QED BY <2>1, <2>3, <1>7, <1>t DEF OpenCopy, SkillTypes
<1>8. CASE WriteCopy(p)
  <2>1. installer[p].next # NumFiles => installer[p].next + 1 \in SkillFiles
    BY <1>c, <1>n DEF InstallCall, SkillFiles
  <2>2. installer' \in [Installers -> InstallCall]
    BY <2>1, <1>2, <1>8 DEF WriteCopy, LastFile
  <2>3. PICK file \in [SkillFiles -> {"absent", "torn", "whole"}] : file = onDisk.file
    BY <1>d
  <2>4. onDisk' \in Disk
    BY <2>3, <1>8, <1>d, <1>c DEF WriteCopy, InstallCall
  <2> QED BY <2>2, <2>4, <1>8, <1>t DEF WriteCopy, SkillTypes
<1>9. CASE CopyFails(p)
  <2>1. installer' \in [Installers -> InstallCall]
    BY <1>2, <1>9 DEF CopyFails
  <2> QED BY <2>1, <1>9, <1>t, <1>d DEF CopyFails, SkillTypes
<1>10. CASE InstallerDies(p)
  <2>1. installer' \in [Installers -> InstallCall]
    BY <1>2, <1>10 DEF InstallerDies
  <2> QED BY <2>1, <1>10, <1>t, <1>d DEF InstallerDies, SkillTypes
<1> QED BY <1>3, <1>4, <1>5, <1>6, <1>7, <1>8, <1>9, <1>10

LEMMA SkillWorkStep == SkillInv /\ SkillStoreNext => (~onDisk.there => onDisk = Nothing)'
<1> SUFFICES ASSUME SkillInv, SkillStoreNext PROVE (~onDisk.there => onDisk = Nothing)'
  OBVIOUS
<1> DEFINE Disk == [there : BOOLEAN, file : [SkillFiles -> {"absent", "torn", "whole"}],
                    repo : BOOLEAN]
<1>t. onDisk \in Disk
  BY DEF SkillInv, SkillTypes
<1>1. CASE RemoveSkill
  BY <1>1 DEF RemoveSkill
<1>2. CASE UNCHANGED onDisk
  BY <1>2 DEF SkillInv, Nothing
<1>3. ASSUME NEW p \in Installers, MakeDir(p) \/ OpenCopy(p) PROVE onDisk'.there = TRUE
  BY <1>3, <1>t DEF MakeDir, OpenCopy
<1>4. ASSUME NEW p \in Installers, WriteCopy(p)
      PROVE  ~onDisk'.there => onDisk' = Nothing
  <2>1. CASE onDisk.there
    BY <2>1, <1>4, <1>t DEF WriteCopy
  <2>2. CASE ~onDisk.there /\ installer[p].from # "archive"
    <3>1. onDisk = Nothing /\ installer[p].next \in SkillFiles
      BY <2>2 DEF SkillInv, SkillTypes, InstallCall
    <3>2. onDisk.file[installer[p].next] # "torn"
      BY <3>1 DEF Nothing
    <3> QED BY <3>1, <3>2, <2>2, <1>4 DEF WriteCopy
  <2>3. CASE ~onDisk.there /\ installer[p].from = "archive"
    BY <2>3, <1>4 DEF WriteCopy, SkillInv
  <2> QED BY <2>1, <2>2, <2>3
<1> QED BY <1>1, <1>2, <1>3, <1>4
        DEF SkillStoreNext, Install, FetchIndex, Download, CopyFails, InstallerDies

LEMMA WorkStep == SkillInv /\ SkillStoreNext => (~mishap => WorkInv)'
<1> SUFFICES ASSUME SkillInv, SkillStoreNext, ~mishap' PROVE WorkInv'
  OBVIOUS
<1>t. SkillTypes
  BY DEF SkillInv
<1>d. onDisk \in [there : BOOLEAN, file : [SkillFiles -> {"absent", "torn", "whole"}],
                  repo : BOOLEAN]
  BY <1>t DEF SkillTypes
<1>f. PICK file \in [SkillFiles -> {"absent", "torn", "whole"}] : file = onDisk.file
  BY <1>d
<1>1. CASE RemoveSkill
  <2>1. \A p \in Installers : ~(installer'[p].pc \in {"open", "write"})
    BY <1>1 DEF RemoveSkill
  <2>2. onDisk'.there = FALSE /\ onDisk'.repo = FALSE
    BY <1>1 DEF RemoveSkill, Nothing
  <2> QED BY <2>1, <2>2 DEF WorkInv
<1> SUFFICES ASSUME NEW p \in Installers,
                    \/ Install(p) \/ FetchIndex(p) \/ Download(p)
                    \/ MakeDir(p) \/ OpenCopy(p) \/ WriteCopy(p) \/ CopyFails(p)
                    \/ InstallerDies(p)
             PROVE  WorkInv'
  BY <1>1 DEF SkillStoreNext
<1>w. ~mishap /\ WorkInv
  BY <1>t DEF Install, FetchIndex, Download, MakeDir, OpenCopy, WriteCopy, CopyFails,
     InstallerDies, SkillInv, SkillTypes
<1>c. installer[p] \in InstallCall
  BY <1>t DEF SkillTypes
\* A program that is not at work on the directory before or after.
<1>2. ASSUME UNCHANGED onDisk, installer[p].pc \notin {"open", "write"},
             installer'[p].pc \notin {"open", "write"},
             \A q \in Installers \ {p} : installer'[q] = installer[q]
      PROVE  WorkInv'
  <2>1. \A q \in Installers, f \in SkillFiles : Brings(q, f)' = Brings(q, f)
    BY <1>2 DEF Brings
  <2> QED BY <2>1, <1>2, <1>w DEF WorkInv
<1>3. CASE Install(p) \/ FetchIndex(p) \/ Download(p)
  BY <1>3, <1>2, <1>t
     DEF Install, FetchIndex, Download, InstallerGoes, Ends, SkillTypes, NoInstaller
<1>4. CASE CopyFails(p) \/ InstallerDies(p)
  <2>1. ~onDisk.there
    BY <1>4 DEF CopyFails, InstallerDies
  <2>2. installer[p].pc \notin {"open", "write"}
    BY <2>1, <1>w DEF WorkInv
  <2> QED BY <1>4, <1>2, <1>t, <2>2 DEF CopyFails, InstallerDies, InstallerGoes, Ends, SkillTypes,
          NoInstaller
<1>5. CASE MakeDir(p)
  <2>1. /\ installer'[p].pc = "open" /\ installer'[p].next = 1
        /\ \A q \in Installers \ {p} : installer'[q] = installer[q]
    BY <1>5, <1>t DEF MakeDir, InstallerGoes, SkillTypes
  <2>2. onDisk'.there = TRUE /\ onDisk'.file = onDisk.file /\ onDisk'.repo = onDisk.repo
    BY <1>5, <1>d DEF MakeDir
  <2>3. \A f \in SkillFiles : 1 <= f
    BY DEF SkillFiles
  <2>4. \A f \in SkillFiles : Brings(p, f)'
    BY <2>1, <2>3 DEF Brings
  <2>5. installer[p].pc = "mkdir"
    BY <1>5 DEF MakeDir
  <2> QED BY <2>1, <2>2, <2>4, <2>5, <1>w DEF WorkInv
<1>6. CASE OpenCopy(p)
  <2>1. /\ installer'[p].pc = "write" /\ installer'[p].next = installer[p].next
        /\ installer'[p].from = installer[p].from
        /\ \A q \in Installers \ {p} : installer'[q] = installer[q]
        /\ installer[p].pc = "open"
    BY <1>6, <1>t DEF OpenCopy, InstallerGoes, SkillTypes
  <2>2. \A q \in Installers, f \in SkillFiles : Brings(q, f)' = Brings(q, f)
    BY <2>1 DEF Brings
  <2>3. onDisk.there = TRUE /\ onDisk'.there = TRUE
    BY <1>6, <1>d, <1>w, <2>1 DEF OpenCopy, WorkInv
  <2>4. CASE installer[p].from = "archive"
    <3>1. onDisk'.file = onDisk.file
      BY <2>4, <1>6, <1>d DEF OpenCopy
    <3> QED BY <3>1, <2>1, <2>2, <2>3, <2>4, <1>w DEF WorkInv
  <2>5. CASE installer[p].from # "archive"
    <3>1. onDisk'.repo = onDisk.repo /\ onDisk'.file = [file EXCEPT ![installer[p].next] = "torn"]
      BY <2>5, <1>6, <1>d, <1>f DEF OpenCopy
    <3>2. \A f \in SkillFiles : onDisk'.file[f] = onDisk.file[f] \/
                                (f = installer[p].next /\ onDisk'.file[f] = "torn")
      BY <3>1, <1>f
    <3>3. Brings(p, installer[p].next) /\ installer[p].next \in SkillFiles
      BY <2>1, <1>c DEF Brings, InstallCall, SkillFiles
    <3>4. \A q \in Installers : installer[q].next \in SkillFiles
      BY <1>t DEF SkillTypes, InstallCall
    <3>5. onDisk'.file[installer[p].next] = "torn"
      BY <3>1, <1>f, <3>3
    <3>6. onDisk'.there => \A f \in SkillFiles :
            onDisk'.file[f] = "whole" \/ \E q \in Installers : Brings(q, f)'
      BY <3>2, <3>3, <2>2, <2>3, <1>w DEF WorkInv
    <3>7. \A q \in Installers :
            /\ installer'[q].pc \in {"open", "write"} => onDisk'.there
            /\ installer'[q].pc = "write" /\ installer'[q].from # "archive" =>
                 onDisk'.file[installer'[q].next] # "absent"
      BY <3>2, <3>4, <3>5, <2>1, <2>3, <1>w DEF WorkInv
    <3>8. onDisk'.repo => \E q \in Installers :
            installer'[q].pc = "write" /\ installer'[q].from = "archive"
      BY <3>1, <2>1, <2>5, <1>w DEF WorkInv
    <3> QED BY <3>6, <3>7, <3>8 DEF WorkInv
  <2> QED BY <2>4, <2>5
<1>7. CASE WriteCopy(p)
  <2>1. installer[p].from # "archive" /\ installer[p].pc = "write"
    BY <1>7 DEF WriteCopy
  <2>2. installer[p].next \in SkillFiles /\ NumFiles \in Nat
    BY <1>c, SkillStoreConfig DEF InstallCall
  <2>3. onDisk.file[installer[p].next] # "absent" /\ onDisk.there = TRUE
    BY <2>1, <1>d, <1>w DEF WorkInv
  <2>4. /\ onDisk'.there = TRUE /\ onDisk'.repo = onDisk.repo
        /\ onDisk'.file = [file EXCEPT ![installer[p].next] = "whole"]
    BY <2>1, <2>2, <2>3, <1>7, <1>d, <1>f DEF WriteCopy
  <2>5. \A f \in SkillFiles : onDisk'.file[f] = IF f = installer[p].next THEN "whole"
                                                ELSE onDisk.file[f]
    BY <2>4, <1>f
  <2>6. /\ \A q \in Installers \ {p} : installer'[q] = installer[q]
        /\ IF installer[p].next = NumFiles
             THEN installer'[p].pc = "idle"
             ELSE /\ installer'[p].pc = "open" /\ installer'[p].next = installer[p].next + 1
                  /\ installer'[p].from = installer[p].from
    BY <1>7, <1>t, <2>1 DEF WriteCopy, LastFile, InstallerGoes, Ends, NoInstaller, SkillTypes
  <2>7. \A q \in Installers, f \in SkillFiles :
          Brings(q, f) => Brings(q, f)' \/ f = installer[p].next
    BY <2>1, <2>2, <2>6 DEF Brings, SkillFiles
  <2>8. \A q \in Installers : installer[q].next \in SkillFiles
    BY <1>t DEF SkillTypes, InstallCall
  <2>9. \A f \in SkillFiles : onDisk'.file[f] = "whole" \/ \E q \in Installers : Brings(q, f)'
    BY <2>5, <2>7, <2>3, <1>w DEF WorkInv
  <2>10. \A q \in Installers : installer'[q].pc = "write" => q # p
    BY <2>6
  <2>11. \A q \in Installers : installer'[q].pc = "write" /\ installer'[q].from # "archive" =>
           onDisk'.file[installer'[q].next] # "absent"
    BY <2>5, <2>6, <2>8, <2>10, <1>w DEF WorkInv
  <2>12. onDisk'.repo => \E q \in Installers :
           installer'[q].pc = "write" /\ installer'[q].from = "archive"
    BY <2>4, <2>1, <2>6, <1>w DEF WorkInv
  <2> QED BY <2>4, <2>9, <2>11, <2>12 DEF WorkInv
<1> QED BY <1>3, <1>4, <1>5, <1>6, <1>7

LEMMA SkillStep == SkillInv /\ [SkillStoreNext]_skillVars => SkillInv'
<1>1. SkillInv /\ SkillStoreNext => SkillInv'
  BY SkillTypeStep, SkillWorkStep, WorkStep DEF SkillInv
<1>2. SkillInv /\ UNCHANGED skillVars => SkillInv'
  BY DEF SkillInv, SkillTypes, WorkInv, Brings, skillVars
<1> QED BY <1>1, <1>2

LEMMA SkillKept == SkillInv => SkillsAreWhole
  BY DEF SkillInv, SkillTypes, WorkInv, Brings, SkillsAreWhole

-----------------------------------------------------------------------------
(* The local model *)

FetchPlaces == {"idle", "create", "write", "check", "rename"}
Temps == {"copy", "download"}
PathNames == {"model", "download", "copy"}

Fetch == [pc : FetchPlaces, temp : {"none", "copy", "download"}, file : 0..MaxSetups,
          next : Blocks, stream : {"model", "other"}]

ModelTypes ==
  /\ content \in [1..MaxSetups -> [Blocks -> {"hole", "model", "other"}]]
  /\ named \in [PathNames -> 0..MaxSetups]
  /\ fetcher \in [Fetchers -> Fetch]
  /\ setups \in 0..MaxSetups /\ digest \in BOOLEAN
  /\ contested \subseteq 1..MaxSetups

Fetches(p) == fetcher[p].pc \in {"write", "check", "rename"}

\* A file is one attempt's, and has at most one name.
FilesInv ==
  /\ \A n \in PathNames : named[n] <= setups
  /\ \A n, o \in PathNames : named[n] = named[o] /\ named[n] # 0 => n = o
  /\ \A p \in Fetchers :
       fetcher[p].pc # "idle" => fetcher[p].temp \in Temps /\ fetcher[p].file \in 1..setups
  /\ \A p \in Fetchers : fetcher[p].pc = "create" =>
       /\ \A n \in PathNames : named[n] # fetcher[p].file
       /\ \A q \in Fetchers \ {p} :
            fetcher[q].pc # "idle" => fetcher[q].file # fetcher[p].file

\* What a process has written to a file of its own.
StreamInv == \A p \in Fetchers :
  /\ fetcher[p].pc = "create" => fetcher[p].next = 1
  /\ fetcher[p].pc # "idle" /\ fetcher[p].temp = "copy" => fetcher[p].stream = "model"
  /\ fetcher[p].pc = "rename" /\ digest => fetcher[p].stream = "model"
  /\ Fetches(p) /\ fetcher[p].file \notin contested =>
       /\ \A q \in Fetchers \ {p} : Fetches(q) => fetcher[q].file # fetcher[p].file
       /\ named["model"] # fetcher[p].file
       /\ \A b \in Blocks : b < fetcher[p].next \/ fetcher[p].pc # "write" =>
            content[fetcher[p].file][b] = fetcher[p].stream

ModelInv == ModelTypes /\ FilesInv /\ StreamInv /\ ModelIsWhole

LEMMA ModelBegins == ModelDownloadInit => ModelInv
<1> SUFFICES ASSUME ModelDownloadInit PROVE ModelInv
  OBVIOUS
<1>1. 1 \in Blocks /\ 0 \in 0..MaxSetups /\ setups = 0
  BY ModelDownloadConfig DEF Blocks, ModelDownloadInit
<1>2. NoFetcher \in Fetch /\ NoFetcher.pc = "idle"
  BY <1>1 DEF NoFetcher, Fetch, FetchPlaces
<1>3. fetcher \in [Fetchers -> Fetch] /\ \A p \in Fetchers : fetcher[p].pc = "idle"
  BY <1>2 DEF ModelDownloadInit
<1>4. named \in [PathNames -> 0..MaxSetups] /\ \A n \in PathNames : named[n] = 0
  BY <1>1 DEF ModelDownloadInit, PathNames
<1>5. content \in [1..MaxSetups -> [Blocks -> {"hole", "model", "other"}]]
  BY DEF ModelDownloadInit, Hole
<1>6. ModelTypes
  <2>1. digest \in BOOLEAN /\ contested = {}
    BY DEF ModelDownloadInit
  <2> QED BY <1>1, <1>3, <1>4, <1>5, <2>1 DEF ModelTypes
<1>7. FilesInv /\ StreamInv /\ ModelIsWhole
  BY <1>1, <1>3, <1>4 DEF FilesInv, StreamInv, ModelIsWhole, Fetches, PathNames
<1> QED BY <1>6, <1>7 DEF ModelInv

\* A process ends: the others keep what they have.
LEMMA FetcherStops ==
  ASSUME NEW p \in Fetchers, ModelTypes, FetcherEnds(p)
  PROVE  /\ fetcher'[p].pc = "idle"
         /\ \A q \in Fetchers \ {p} : fetcher'[q] = fetcher[q]
         /\ fetcher' \in [Fetchers -> Fetch]
<1>1. NoFetcher \in Fetch /\ NoFetcher.pc = "idle"
  BY ModelDownloadConfig DEF NoFetcher, Fetch, FetchPlaces, Blocks
<1> QED BY <1>1 DEF FetcherEnds, ModelTypes

\* A step that ends a process, removes at most a name that is not the model's, and leaves
\* every file as it is.
LEMMA EndKeeps ==
  ASSUME NEW p \in Fetchers, ModelInv, FetcherEnds(p),
         UNCHANGED <<content, setups, digest, contested>>,
         \/ UNCHANGED named
         \/ \E t \in Temps : named' = [named EXCEPT ![t] = 0]
  PROVE  ModelInv'
<1>t. ModelTypes
  BY DEF ModelInv
<1>1. /\ fetcher'[p].pc = "idle"
      /\ \A q \in Fetchers \ {p} : fetcher'[q] = fetcher[q]
      /\ fetcher' \in [Fetchers -> Fetch]
  BY <1>t, FetcherStops
<1>2. /\ named' \in [PathNames -> 0..MaxSetups]
      /\ named'["model"] = named["model"]
      /\ \A n \in PathNames : named'[n] \in {named[n], 0}
  BY <1>t, ModelDownloadConfig DEF ModelTypes, PathNames, Temps
<1>3. ModelTypes'
  BY <1>1, <1>2, <1>t DEF ModelTypes
<1>4. setups \in Nat /\ \A n \in PathNames : named[n] \in Nat
  BY <1>t, ModelDownloadConfig DEF ModelTypes
<1>5. FilesInv'
  <2>1. \A n \in PathNames : named'[n] <= setups'
    BY <1>2, <1>4 DEF ModelInv, FilesInv
  <2>2. \A n, o \in PathNames : named'[n] = named'[o] /\ named'[n] # 0 => n = o
    BY <1>2 DEF ModelInv, FilesInv
  <2>3. \A q \in Fetchers :
          fetcher'[q].pc # "idle" => fetcher'[q].temp \in Temps /\ fetcher'[q].file \in 1..setups'
    BY <1>1 DEF ModelInv, FilesInv
  <2>4. ASSUME NEW q \in Fetchers, fetcher'[q].pc = "create"
        PROVE  /\ \A n \in PathNames : named'[n] # fetcher'[q].file
               /\ \A r \in Fetchers \ {q} :
                    fetcher'[r].pc # "idle" => fetcher'[r].file # fetcher'[q].file
    <3>1. q # p /\ fetcher'[q] = fetcher[q]
      BY <2>4, <1>1
    <3>2. fetcher[q].file # 0
      BY <2>4, <3>1, <1>4 DEF ModelInv, FilesInv
    <3> QED BY <2>4, <3>1, <3>2, <1>1, <1>2 DEF ModelInv, FilesInv
  <2> QED BY <2>1, <2>2, <2>3, <2>4 DEF FilesInv
<1>6. StreamInv'
  BY <1>1, <1>2 DEF ModelInv, StreamInv, Fetches
<1>7. ModelIsWhole'
  BY <1>2 DEF ModelInv, ModelIsWhole
<1> QED BY <1>3, <1>5, <1>6, <1>7 DEF ModelInv

LEMMA SetupKeeps == ASSUME NEW p \in Fetchers, ModelInv, Setup(p) PROVE ModelInv'
<1>t. ModelTypes
  BY DEF ModelInv
<1>n. /\ setups \in Nat /\ setups' = setups + 1 /\ setups' \in 0..MaxSetups /\ MaxSetups \in Nat
      /\ \A n \in PathNames : named[n] \in Nat
  BY <1>t, ModelDownloadConfig DEF ModelTypes, Setup
<1>s. fetcher[p].pc = "idle" /\ UNCHANGED <<content, named, digest, contested>>
  BY DEF Setup
<1>1. CASE UNCHANGED fetcher
  <2>1. ModelTypes'
    BY <1>1, <1>n, <1>t DEF Setup, ModelTypes
  <2>2. FilesInv'
    BY <1>1, <1>n DEF Setup, ModelInv, FilesInv
  <2>3. StreamInv' /\ ModelIsWhole'
    BY <1>1 DEF Setup, ModelInv, StreamInv, ModelIsWhole, Fetches
  <2> QED BY <2>1, <2>2, <2>3 DEF ModelInv
<1>2. ASSUME NEW temp \in {"copy", "download"}, NEW stream \in {"model", "other"},
             temp = "copy" => stream = "model",
             fetcher' = [fetcher EXCEPT ![p] =
                [pc |-> "create", temp |-> temp, file |-> setups + 1, next |-> 1,
                 stream |-> stream]]
      PROVE  ModelInv'
  <2> DEFINE r == [pc |-> "create", temp |-> temp, file |-> setups + 1, next |-> 1,
                   stream |-> stream]
  <2>1. r \in Fetch
    BY <1>n, ModelDownloadConfig DEF Fetch, FetchPlaces, Blocks
  <2>2. fetcher' \in [Fetchers -> Fetch] /\ fetcher'[p] = r
        /\ \A q \in Fetchers \ {p} : fetcher'[q] = fetcher[q]
    BY <2>1, <1>2, <1>t DEF ModelTypes
  <2>3. ModelTypes'
    BY <2>2, <1>n, <1>s, <1>t DEF ModelTypes
  <2>4. /\ fetcher'[p].pc = "create" /\ fetcher'[p].temp = temp /\ fetcher'[p].file = setups + 1
        /\ fetcher'[p].stream = stream /\ fetcher'[p].next = 1
    BY <2>2
  <2> HIDE DEF r
  <2>5. \A q \in Fetchers \ {p} : fetcher[q].pc # "idle" => fetcher[q].file \in 1..setups
    BY DEF ModelInv, FilesInv
  <2>6. \A q \in Fetchers \ {p} : fetcher[q].pc = "create" =>
          /\ \A n \in PathNames : named[n] # fetcher[q].file
          /\ \A o \in Fetchers \ {q} : fetcher[o].pc # "idle" => fetcher[o].file # fetcher[q].file
    BY DEF ModelInv, FilesInv
  <2>7. FilesInv'
    <3>1. \A n \in PathNames : named'[n] <= setups'
      BY <1>n, <1>s DEF ModelInv, FilesInv
    <3>2. \A n, o \in PathNames : named'[n] = named'[o] /\ named'[n] # 0 => n = o
      BY <1>s DEF ModelInv, FilesInv
    <3>3. \A q \in Fetchers : fetcher'[q].pc # "idle" =>
            fetcher'[q].temp \in Temps /\ fetcher'[q].file \in 1..setups'
      BY <2>2, <2>4, <1>n DEF ModelInv, FilesInv, Temps
    <3>4. ASSUME NEW q \in Fetchers, fetcher'[q].pc = "create"
          PROVE  /\ \A n \in PathNames : named'[n] # fetcher'[q].file
                 /\ \A o \in Fetchers \ {q} :
                      fetcher'[o].pc # "idle" => fetcher'[o].file # fetcher'[q].file
      <4>1. \A n \in PathNames : named[n] # setups + 1
        BY <1>n DEF ModelInv, FilesInv
      <4>2. \A o \in Fetchers \ {p} : fetcher[o].pc # "idle" => fetcher[o].file # setups + 1
        BY <2>5, <1>n
      <4> QED BY <4>1, <4>2, <3>4, <2>2, <2>4, <2>6, <1>s
    <3> QED BY <3>1, <3>2, <3>3, <3>4 DEF FilesInv
  <2>8. StreamInv'
    BY <2>2, <2>4, <1>2, <1>s DEF ModelInv, StreamInv, Fetches
  <2>9. ModelIsWhole'
    BY <1>s DEF ModelInv, ModelIsWhole
  <2> QED BY <2>3, <2>7, <2>8, <2>9 DEF ModelInv
<1> QED BY <1>1, <1>2 DEF Setup

LEMMA CreateKeeps == ASSUME NEW p \in Fetchers, ModelInv, CreateTemp(p) PROVE ModelInv'
<1>t. ModelTypes
  BY DEF ModelInv
<1> DEFINE temp == fetcher[p].temp
           file == IF named[temp] # 0 THEN named[temp] ELSE fetcher[p].file
<1>n. /\ setups \in Nat /\ MaxSetups \in Nat /\ setups <= MaxSetups
      /\ \A n \in PathNames : named[n] \in Nat /\ named[n] <= setups
  BY <1>t, ModelDownloadConfig DEF ModelTypes, ModelInv, FilesInv
<1>1. /\ named' = [named EXCEPT ![temp] = file]
      /\ content' = [content EXCEPT ![file] = Hole]
      /\ fetcher' = [fetcher EXCEPT ![p].pc = "write", ![p].file = file]
      /\ contested' = IF Writers(file) # {} THEN contested \cup {file} ELSE contested
      /\ UNCHANGED <<setups, digest>> /\ fetcher[p].pc = "create"
  BY DEF CreateTemp
<1>2. temp \in Temps /\ temp \in PathNames /\ temp # "model" /\ fetcher[p].file \in 1..setups
  BY <1>1 DEF ModelInv, FilesInv, PathNames, Temps
<1>3. file \in 1..setups /\ file \in 1..MaxSetups
  BY <1>2, <1>n
\* The file is the one of the name, or new.
<1>4. /\ \A n \in PathNames \ {temp} : named[n] # file
      /\ \A q \in Fetchers \ {p} : fetcher[q].pc = "create" => fetcher[q].file # file
  <2>1. CASE named[temp] # 0
    BY <2>1, <1>2 DEF ModelInv, FilesInv
  <2>2. CASE named[temp] = 0
    BY <2>2, <1>1, <1>2 DEF ModelInv, FilesInv
  <2> QED BY <2>1, <2>2
<1> HIDE DEF file, temp
<1>5. PICK q \in Fetch : q = fetcher[p]
  BY <1>t DEF ModelTypes
<1>6. PICK r : r = [q EXCEPT !.pc = "write", !.file = file]
  OBVIOUS
<1>7. /\ r \in Fetch /\ r.pc = "write" /\ r.temp = q.temp /\ r.file = file
      /\ r.next = q.next /\ r.stream = q.stream
  <2>1. file \in 0..MaxSetups
    BY <1>n, <1>3
  <2> QED BY <2>1, <1>6 DEF Fetch, FetchPlaces
<1>a. fetcher' = [fetcher EXCEPT ![p] = r]
  BY <1>1, <1>5, <1>6, <1>t DEF ModelTypes
<1>8. /\ fetcher' \in [Fetchers -> Fetch]
      /\ \A o \in Fetchers \ {p} : fetcher'[o] = fetcher[o]
      /\ fetcher'[p].pc = "write" /\ fetcher'[p].temp = temp /\ fetcher'[p].file = file
      /\ fetcher'[p].next = fetcher[p].next /\ fetcher'[p].stream = fetcher[p].stream
  BY <1>5, <1>7, <1>a, <1>t DEF ModelTypes, temp
<1>9. /\ content' \in [1..MaxSetups -> [Blocks -> {"hole", "model", "other"}]]
      /\ \A f \in (1..MaxSetups) \ {file} : content'[f] = content[f]
  BY <1>1, <1>3, <1>t DEF ModelTypes, Hole
<1>10. /\ named' \in [PathNames -> 0..MaxSetups] /\ named'[temp] = file
       /\ \A n \in PathNames \ {temp} : named'[n] = named[n]
  BY <1>1, <1>2, <1>3, <1>n, <1>t DEF ModelTypes
<1>11. ModelTypes'
  BY <1>1, <1>3, <1>8, <1>9, <1>10, <1>t DEF ModelTypes
<1>12. FilesInv'
  <2>1. \A n \in PathNames : named'[n] <= setups'
    BY <1>1, <1>3, <1>10, <1>n
  <2>2. \A n, o \in PathNames : named'[n] = named'[o] /\ named'[n] # 0 => n = o
    BY <1>4, <1>10 DEF ModelInv, FilesInv
  <2>3. \A o \in Fetchers : fetcher'[o].pc # "idle" =>
          fetcher'[o].temp \in Temps /\ fetcher'[o].file \in 1..setups'
    BY <1>1, <1>2, <1>3, <1>8 DEF ModelInv, FilesInv
  <2>4. ASSUME NEW o \in Fetchers, fetcher'[o].pc = "create"
        PROVE  /\ \A n \in PathNames : named'[n] # fetcher'[o].file
               /\ \A u \in Fetchers \ {o} :
                    fetcher'[u].pc # "idle" => fetcher'[u].file # fetcher'[o].file
    <3>1. o # p /\ fetcher'[o] = fetcher[o] /\ fetcher[o].file # file
      BY <2>4, <1>4, <1>8
    <3> QED BY <3>1, <2>4, <1>8, <1>10 DEF ModelInv, FilesInv
  <2> QED BY <2>1, <2>2, <2>3, <2>4 DEF FilesInv
<1>13. named'["model"] = named["model"] /\ named["model"] # file
  BY <1>2, <1>4, <1>10 DEF PathNames
<1>14. contested \subseteq contested' /\ contested' \subseteq contested \cup {file}
  BY <1>1
\* Who shares the file, and who does not.
<1>15. \A o \in Fetchers \ {p} :
         Fetches(o)' => Fetches(o) /\ (fetcher[o].file = file => file \in contested')
  BY <1>1, <1>8 DEF Fetches, Writers
<1>16. ASSUME NEW o \in Fetchers
       PROVE  /\ fetcher'[o].pc = "create" => fetcher'[o].next = 1
              /\ fetcher'[o].pc # "idle" /\ fetcher'[o].temp = "copy" =>
                   fetcher'[o].stream = "model"
              /\ fetcher'[o].pc = "rename" /\ digest' => fetcher'[o].stream = "model"
              /\ Fetches(o)' /\ fetcher'[o].file \notin contested' =>
                   /\ \A u \in Fetchers \ {o} : Fetches(u)' => fetcher'[u].file # fetcher'[o].file
                   /\ named'["model"] # fetcher'[o].file
                   /\ \A b \in Blocks : b < fetcher'[o].next \/ fetcher'[o].pc # "write" =>
                        content'[fetcher'[o].file][b] = fetcher'[o].stream
  <2>1. CASE o = p
    <3>1. fetcher[p].next = 1
      BY <1>1 DEF ModelInv, StreamInv
    <3>2. \A b \in Blocks : ~(b < 1)
      BY DEF Blocks
    <3> QED BY <2>1, <3>1, <3>2, <1>1, <1>8, <1>13, <1>15, <1>2 DEF ModelInv, StreamInv, temp
  <2>2. CASE o # p
    <3>1. fetcher'[o] = fetcher[o]
      BY <2>2, <1>8
    <3>2. Fetches(o)' => fetcher[o].file \in 1..MaxSetups
      BY <3>1, <1>n DEF Fetches, ModelInv, FilesInv
    <3>3. Fetches(o)' /\ fetcher[o].file \notin contested' =>
            fetcher[o].file # file /\ content'[fetcher[o].file] = content[fetcher[o].file]
      BY <2>2, <3>1, <3>2, <1>9, <1>15
    <3>4. Fetches(o)' /\ fetcher[o].file \notin contested' =>
            \A u \in Fetchers \ {o} : Fetches(u)' => fetcher'[u].file # fetcher[o].file
      BY <2>2, <3>3, <1>8, <1>14, <1>15 DEF ModelInv, StreamInv
    <3>5. Fetches(o)' /\ fetcher[o].file \notin contested' =>
            /\ named["model"] # fetcher[o].file
            /\ \A b \in Blocks : b < fetcher[o].next \/ fetcher[o].pc # "write" =>
                 content[fetcher[o].file][b] = fetcher[o].stream
      BY <2>2, <1>14, <1>15 DEF ModelInv, StreamInv
    <3>6. /\ fetcher[o].pc = "create" => fetcher[o].next = 1
          /\ fetcher[o].pc # "idle" /\ fetcher[o].temp = "copy" => fetcher[o].stream = "model"
          /\ fetcher[o].pc = "rename" /\ digest' => fetcher[o].stream = "model"
      BY <1>1 DEF ModelInv, StreamInv
    <3> QED BY <3>1, <3>3, <3>4, <3>5, <3>6, <1>13
  <2> QED BY <2>1, <2>2
<1>17. StreamInv'
  BY <1>16 DEF StreamInv
<1>18. ModelIsWhole'
  <2>1. named["model"] # 0 => named["model"] \in 1..MaxSetups
    BY <1>t DEF ModelTypes, PathNames
  <2> QED BY <2>1, <1>1, <1>9, <1>13, <1>14 DEF ModelInv, ModelIsWhole
<1> QED BY <1>11, <1>12, <1>17, <1>18 DEF ModelInv

LEMMA BlockKeeps == ASSUME NEW p \in Fetchers, ModelInv, WriteBlock(p) PROVE ModelInv'
<1>t. ModelTypes
  BY DEF ModelInv
<1>n. setups \in Nat /\ MaxSetups \in Nat /\ setups <= MaxSetups /\ NumBlocks \in Nat \ {0}
  BY <1>t, ModelDownloadConfig DEF ModelTypes
<1>1. PICK q \in Fetch : q = fetcher[p]
  BY <1>t DEF ModelTypes
<1>2. /\ content' = [content EXCEPT ![q.file][q.next] = q.stream]
      /\ fetcher' = IF q.next = NumBlocks
                      THEN [fetcher EXCEPT ![p].pc = "check"]
                      ELSE [fetcher EXCEPT ![p].next = q.next + 1]
      /\ UNCHANGED <<named, setups, digest, contested>> /\ q.pc = "write"
  BY <1>1 DEF WriteBlock
<1>3. PICK r : r = IF q.next = NumBlocks THEN [q EXCEPT !.pc = "check"]
                   ELSE [q EXCEPT !.next = q.next + 1]
  OBVIOUS
<1>4. /\ r \in Fetch /\ r.pc \in {"write", "check"} /\ r.temp = q.temp /\ r.file = q.file
      /\ r.stream = q.stream
      /\ \A b \in Blocks : b < r.next \/ r.pc # "write" => b < q.next \/ b = q.next
  BY <1>2, <1>3, <1>n DEF Fetch, FetchPlaces, Blocks
<1>5. /\ fetcher' \in [Fetchers -> Fetch] /\ fetcher'[p] = r
      /\ \A o \in Fetchers \ {p} : fetcher'[o] = fetcher[o]
  <2>1. fetcher' = [fetcher EXCEPT ![p] = r]
    BY <1>1, <1>2, <1>3, <1>t DEF ModelTypes
  <2> QED BY <2>1, <1>4, <1>t DEF ModelTypes
<1>6. q.file \in 1..setups /\ q.file \in 1..MaxSetups /\ q.next \in Blocks /\
      q.stream \in {"hole", "model", "other"}
  BY <1>1, <1>2, <1>n DEF ModelInv, FilesInv, Fetch
<1>7. PICK row \in [Blocks -> {"hole", "model", "other"}] : row = content[q.file]
  BY <1>6, <1>t DEF ModelTypes
<1>8. /\ content' = [content EXCEPT ![q.file] = [row EXCEPT ![q.next] = q.stream]]
      /\ [row EXCEPT ![q.next] = q.stream] \in [Blocks -> {"hole", "model", "other"}]
  BY <1>2, <1>6, <1>7
<1>9. /\ content' \in [1..MaxSetups -> [Blocks -> {"hole", "model", "other"}]]
      /\ \A f \in (1..MaxSetups) \ {q.file} : content'[f] = content[f]
      /\ \A b \in Blocks : content'[q.file][b] = IF b = q.next THEN q.stream
                                                 ELSE content[q.file][b]
  BY <1>6, <1>7, <1>8, <1>t DEF ModelTypes
<1>10. ModelTypes'
  BY <1>2, <1>5, <1>9, <1>t DEF ModelTypes
<1>11. \A o \in Fetchers : /\ Fetches(o)' <=> Fetches(o)
                           /\ fetcher'[o].file = fetcher[o].file
                           /\ fetcher'[o].temp = fetcher[o].temp
                           /\ fetcher'[o].stream = fetcher[o].stream
                           /\ fetcher'[o].pc # "idle" <=> fetcher[o].pc # "idle"
                           /\ fetcher'[o].pc = "create" => o # p /\ fetcher[o].pc = "create"
                           /\ fetcher'[o].pc = "rename" => o # p /\ fetcher[o].pc = "rename"
  BY <1>1, <1>2, <1>4, <1>5 DEF Fetches
<1>12. FilesInv'
  BY <1>2, <1>11 DEF ModelInv, FilesInv
<1>13. ASSUME NEW o \in Fetchers, Fetches(o)', fetcher'[o].file \notin contested'
       PROVE  /\ \A u \in Fetchers \ {o} : Fetches(u)' => fetcher'[u].file # fetcher'[o].file
              /\ named'["model"] # fetcher'[o].file
              /\ \A b \in Blocks : b < fetcher'[o].next \/ fetcher'[o].pc # "write" =>
                   content'[fetcher'[o].file][b] = fetcher'[o].stream
  <2>1. Fetches(o) /\ fetcher[o].file \notin contested
    BY <1>2, <1>11, <1>13
  <2>2. /\ \A u \in Fetchers \ {o} : Fetches(u) => fetcher[u].file # fetcher[o].file
        /\ named["model"] # fetcher[o].file
        /\ \A b \in Blocks : b < fetcher[o].next \/ fetcher[o].pc # "write" =>
             content[fetcher[o].file][b] = fetcher[o].stream
    BY <2>1 DEF ModelInv, StreamInv
  <2>3. CASE o = p
    <3>1. \A b \in Blocks : b < q.next => content[q.file][b] = q.stream
      BY <2>2, <2>3, <1>1
    <3>2. ASSUME NEW b \in Blocks, b < r.next \/ r.pc # "write" PROVE content'[q.file][b] = q.stream
      BY <3>1, <3>2, <1>4, <1>9
    <3>3. fetcher'[o] = r /\ r.file = q.file /\ r.stream = q.stream /\ fetcher[o] = q
      BY <2>3, <1>1, <1>4, <1>5
    <3>4. \A u \in Fetchers \ {o} : Fetches(u)' => fetcher'[u].file # fetcher'[o].file
      BY <2>2, <1>11
    <3> QED BY <3>2, <3>3, <3>4, <2>2, <1>2
  <2>4. CASE o # p
    <3>1. fetcher[o].file \in 1..MaxSetups
      BY <2>1, <1>n DEF Fetches, ModelInv, FilesInv
    <3>2. Fetches(p) /\ fetcher[o].file # q.file
      BY <2>2, <2>4, <1>1, <1>2 DEF Fetches
    <3> QED BY <3>1, <3>2, <2>2, <2>4, <1>2, <1>5, <1>9, <1>11
  <2> QED BY <2>3, <2>4
<1>14. StreamInv'
  <2>1. \A o \in Fetchers : /\ fetcher'[o].pc = "create" => fetcher'[o].next = 1
                            /\ fetcher'[o].pc # "idle" /\ fetcher'[o].temp = "copy" =>
                                 fetcher'[o].stream = "model"
                            /\ fetcher'[o].pc = "rename" /\ digest' => fetcher'[o].stream = "model"
    BY <1>2, <1>5, <1>11 DEF ModelInv, StreamInv
  <2> QED BY <2>1, <1>13 DEF StreamInv
<1>15. ModelIsWhole'
  <2>1. named["model"] # 0 => named["model"] \in 1..MaxSetups
    BY <1>t DEF ModelTypes, PathNames
  <2>2. named["model"] \notin contested => named["model"] # q.file
    BY <1>1, <1>2 DEF ModelInv, StreamInv, Fetches
  <2> QED BY <2>1, <2>2, <1>2, <1>9 DEF ModelInv, ModelIsWhole
<1> QED BY <1>10, <1>12, <1>14, <1>15 DEF ModelInv

LEMMA CheckKeeps == ASSUME NEW p \in Fetchers, ModelInv, CheckDigest(p) PROVE ModelInv'
<1>t. ModelTypes
  BY DEF ModelInv
<1>1. CASE FetcherEnds(p)
  BY <1>1, EndKeeps DEF CheckDigest, RemoveTemp, ModelInv, FilesInv
<1>2. CASE ~FetcherEnds(p)
  <2>1. PICK q \in Fetch : q = fetcher[p]
    BY <1>t DEF ModelTypes
  <2>2. /\ fetcher' = [fetcher EXCEPT ![p].pc = "rename"] /\ q.pc = "check"
        /\ UNCHANGED <<content, named, setups, digest, contested>>
        /\ ~(q.temp = "download" /\ digest /\ q.stream # "model")
    BY <2>1, <1>2 DEF CheckDigest
  <2>3. PICK r : r = [q EXCEPT !.pc = "rename"]
    OBVIOUS
  <2>4. /\ r \in Fetch /\ r.pc = "rename" /\ r.temp = q.temp /\ r.file = q.file
        /\ r.stream = q.stream
    BY <2>3 DEF Fetch, FetchPlaces
  <2>5. /\ fetcher' \in [Fetchers -> Fetch] /\ fetcher'[p] = r
        /\ \A o \in Fetchers \ {p} : fetcher'[o] = fetcher[o]
    <3>1. fetcher' = [fetcher EXCEPT ![p] = r]
      BY <2>1, <2>2, <2>3, <1>t DEF ModelTypes
    <3> QED BY <3>1, <2>4, <1>t DEF ModelTypes
  <2>6. q.temp \in Temps /\ (q.temp = "copy" => q.stream = "model")
    BY <2>1, <2>2 DEF ModelInv, FilesInv, StreamInv
  <2>7. ModelTypes'
    BY <2>2, <2>5, <1>t DEF ModelTypes
  <2>8. FilesInv'
    BY <2>1, <2>2, <2>4, <2>5 DEF ModelInv, FilesInv
  <2>9. StreamInv'
    BY <2>1, <2>2, <2>4, <2>5, <2>6 DEF ModelInv, StreamInv, Fetches, Temps
  <2>10. ModelIsWhole'
    BY <2>2 DEF ModelInv, ModelIsWhole
  <2> QED BY <2>7, <2>8, <2>9, <2>10 DEF ModelInv
<1> QED BY <1>1, <1>2

LEMMA MoveKeeps == ASSUME NEW p \in Fetchers, ModelInv, MoveIntoPlace(p) PROVE ModelInv'
<1>t. ModelTypes
  BY DEF ModelInv
<1> DEFINE temp == fetcher[p].temp
           moved == named[temp]
<1>1. /\ named' = IF moved = 0 THEN named
                    ELSE [named EXCEPT !["model"] = moved, ![temp] = 0]
      /\ contested' = IF moved \in {0, fetcher[p].file} THEN contested ELSE contested \cup {moved}
      /\ FetcherEnds(p) /\ UNCHANGED <<content, setups, digest>> /\ fetcher[p].pc = "rename"
  BY DEF MoveIntoPlace
<1>2. temp \in Temps /\ temp \in PathNames /\ temp # "model" /\ "model" \in PathNames
  BY <1>1 DEF ModelInv, FilesInv, PathNames, Temps
<1>3. CASE moved = 0
  BY <1>1, <1>3, EndKeeps
<1>4. CASE moved # 0
  <2>1. moved \in 1..setups /\ moved \in 1..MaxSetups /\ setups \in Nat /\ MaxSetups \in Nat
    BY <1>2, <1>4, <1>t, ModelDownloadConfig DEF ModelTypes, ModelInv, FilesInv
  <2>2. \A n \in PathNames \ {temp} : named[n] # moved
    BY <1>2, <1>4 DEF ModelInv, FilesInv
  <2> HIDE DEF moved, temp
  <2>3. /\ named' \in [PathNames -> 0..MaxSetups] /\ named'["model"] = moved /\ named'[temp] = 0
        /\ \A n \in PathNames \ {"model", temp} : named'[n] = named[n]
    BY <2>1, <1>1, <1>2, <1>4, <1>t DEF ModelTypes
  <2>4. /\ fetcher'[p].pc = "idle" /\ fetcher' \in [Fetchers -> Fetch]
        /\ \A q \in Fetchers \ {p} : fetcher'[q] = fetcher[q]
    BY <1>1, <1>t, FetcherStops
  <2>5. ModelTypes'
    BY <2>1, <2>3, <2>4, <1>1, <1>t DEF ModelTypes
  <2>6. \A n \in PathNames : named'[n] \in {0, moved, named[n]}
    BY <2>3
  <2>7. FilesInv'
    <3>1. \A n \in PathNames : named'[n] <= setups'
      <4>1. \A n \in PathNames : named[n] <= setups
        BY DEF ModelInv, FilesInv
      <4>2. setups' = setups /\ 0 <= setups /\ moved <= setups
        BY <1>1, <2>1
      <4> QED BY <4>1, <4>2, <2>6
    <3>2. \A n, o \in PathNames : named'[n] = named'[o] /\ named'[n] # 0 => n = o
      BY <2>2, <2>3 DEF ModelInv, FilesInv
    <3>3. \A q \in Fetchers :
            fetcher'[q].pc # "idle" => fetcher'[q].temp \in Temps /\ fetcher'[q].file \in 1..setups'
      BY <2>4, <1>1 DEF ModelInv, FilesInv
    <3>4. ASSUME NEW q \in Fetchers, fetcher'[q].pc = "create"
          PROVE  /\ \A n \in PathNames : named'[n] # fetcher'[q].file
                 /\ \A r \in Fetchers \ {q} :
                      fetcher'[r].pc # "idle" => fetcher'[r].file # fetcher'[q].file
      <4>1. q # p /\ fetcher'[q] = fetcher[q] /\ fetcher[q].pc = "create"
        BY <3>4, <2>4
      <4>2. fetcher[q].file \in 1..setups /\ \A n \in PathNames : named[n] # fetcher[q].file
        BY <4>1 DEF ModelInv, FilesInv
      <4>3. \A r \in Fetchers \ {q} : fetcher[r].pc # "idle" => fetcher[r].file # fetcher[q].file
        BY <4>1 DEF ModelInv, FilesInv
      <4>4. moved # fetcher[q].file /\ fetcher[q].file # 0
        BY <4>2, <2>1, <1>2 DEF moved
      <4> QED BY <4>1, <4>2, <4>3, <4>4, <2>4, <2>6
    <3> QED BY <3>1, <3>2, <3>3, <3>4 DEF FilesInv
  \* The file that was moved is this process's, or contested.
  <2>8. /\ contested \subseteq contested'
        /\ moved \in contested' \/ moved = fetcher[p].file
    BY <1>1, <1>4
  <2>9. ASSUME NEW q \in Fetchers, Fetches(q)', fetcher'[q].file \notin contested'
        PROVE  /\ \A u \in Fetchers \ {q} : Fetches(u)' => fetcher'[u].file # fetcher'[q].file
               /\ named'["model"] # fetcher'[q].file
               /\ \A b \in Blocks : b < fetcher'[q].next \/ fetcher'[q].pc # "write" =>
                    content'[fetcher'[q].file][b] = fetcher'[q].stream
    <3>1. q # p /\ fetcher'[q] = fetcher[q] /\ Fetches(q) /\ fetcher[q].file \notin contested
      BY <2>4, <2>8, <2>9 DEF Fetches
    <3>2. /\ \A u \in Fetchers \ {q} : Fetches(u) => fetcher[u].file # fetcher[q].file
          /\ \A b \in Blocks : b < fetcher[q].next \/ fetcher[q].pc # "write" =>
               content[fetcher[q].file][b] = fetcher[q].stream
      BY <3>1 DEF ModelInv, StreamInv
    <3>3. \A u \in Fetchers : Fetches(u)' => Fetches(u) /\ fetcher'[u] = fetcher[u]
      BY <2>4 DEF Fetches
    <3>4. Fetches(p)
      BY <1>1 DEF Fetches
    <3>5. moved # fetcher[q].file
      BY <3>1, <3>2, <3>4, <2>8, <2>9
    <3> QED BY <3>1, <3>2, <3>3, <3>5, <2>3, <1>1
  <2>10. StreamInv'
    <3>1. \A q \in Fetchers : /\ fetcher'[q].pc = "create" => fetcher'[q].next = 1
                              /\ fetcher'[q].pc # "idle" /\ fetcher'[q].temp = "copy" =>
                                   fetcher'[q].stream = "model"
                              /\ fetcher'[q].pc = "rename" /\ digest' =>
                                   fetcher'[q].stream = "model"
      BY <2>4, <1>1 DEF ModelInv, StreamInv
    <3> QED BY <3>1, <2>9 DEF StreamInv
  <2>11. ModelIsWhole'
    <3>1. SUFFICES ASSUME moved \notin contested'
                   PROVE  \E stream \in IF digest THEN {"model"} ELSE {"model", "other"} :
                            \A b \in Blocks : content[moved][b] = stream
      BY <2>3, <1>1 DEF ModelIsWhole
    <3>2. moved = fetcher[p].file /\ fetcher[p].file \notin contested
      BY <3>1, <2>8
    <3>3. \A b \in Blocks : content[moved][b] = fetcher[p].stream
      BY <3>2, <1>1 DEF ModelInv, StreamInv, Fetches
    <3>4. fetcher[p].stream \in IF digest THEN {"model"} ELSE {"model", "other"}
      BY <1>1, <1>t DEF ModelInv, StreamInv, ModelTypes, Fetch
    <3> QED BY <3>3, <3>4
  <2> QED BY <2>5, <2>7, <2>10, <2>11 DEF ModelInv
<1> QED BY <1>3, <1>4

LEMMA ModelStep == ModelInv /\ [ModelDownloadNext]_modelVars => ModelInv'
<1>1. ASSUME NEW p \in Fetchers, ModelInv, TransferFails(p) \/ FetcherDies(p) PROVE ModelInv'
  <2>1. fetcher[p].temp \in Temps
    BY <1>1 DEF TransferFails, FetcherDies, ModelInv, FilesInv
  <2> QED BY <2>1, <1>1, EndKeeps DEF TransferFails, FetcherDies, RemoveTemp
<1>2. ModelInv /\ ModelDownloadNext => ModelInv'
  BY <1>1, SetupKeeps, CreateKeeps, BlockKeeps, CheckKeeps, MoveKeeps DEF ModelDownloadNext
<1>3. ModelInv /\ UNCHANGED modelVars => ModelInv'
  BY DEF ModelInv, ModelTypes, FilesInv, StreamInv, ModelIsWhole, Fetches, modelVars
<1> QED BY <1>2, <1>3

-----------------------------------------------------------------------------
(* The whole daemon *)

LEMMA ProcessPart == [Next]_vars => [ProcessNext]_processVars
  BY DEF Next, vars, hostVars

LEMMA LifePart == [Next]_vars => [LifeNext]_lifeVars
  BY DEF Next, vars, hostVars

LEMMA AgentsPart == [Next]_vars => [AgentsNext]_agentsVars
  BY DEF Next, vars, hostVars

LEMMA EnginePart == [Next]_vars => [EngineNext]_engineVars
  BY DEF Next, vars, serviceVars

LEMMA BreakerPart == [Next]_vars => [BreakerNext]_breakerVars
  BY DEF Next, vars, serviceVars

LEMMA CalendarPart == [Next]_vars => [CalendarNext]_calendarVars
  BY DEF Next, vars, serviceVars

LEMMA FileParts ==
  [Next]_vars => /\ [ConfigNext]_configVars /\ [CronNext]_cronVars
                 /\ [RuleFileNext]_ruleFileVars /\ [SkillStoreNext]_skillVars
                 /\ [ModelDownloadNext]_modelVars
  BY DEF Next, vars, fileVars

\* A background process that runs is in the table under its name, but for the named
\* cases, and the sub-agents that the users were told of are the registered ones and
\* have their workspaces, whatever calls and programs change the tables at once.
THEOREM RegistriesStayTrue == Spec => []RegistriesKept
<1>1. Init => ProcessInv /\ AgentsInv
  BY ProcessesBegin, AgentsBegin DEF Init
<1>2. ProcessInv /\ AgentsInv /\ [Next]_vars => (ProcessInv /\ AgentsInv)'
  BY ProcessPart, AgentsPart, ProcessStep, AgentsStep
<1>3. ProcessInv /\ AgentsInv => RegistriesKept
  BY DEF ProcessInv, AgentsInv, KeptInv, RegistriesKept, AgentsKept
<1> QED BY <1>1, <1>2, <1>3, PTL DEF Spec

\* The PID file names the daemon that serves, and no daemon that ended by itself, and no
\* rule acts on a closed memory, whatever daemons start, are told to stop, crash or panic.
THEOREM DaemonStaysKept == Spec => []DaemonKept
<1>1. Init => LifeInv
  BY LifeBegins DEF Init
<1>2. LifeInv /\ [Next]_vars => LifeInv'
  BY LifePart, LifeStepKeeps
<1> QED BY <1>1, <1>2, LifeKeepsDaemon, PTL DEF Spec

\* A rule that fired does not fire again before its cooldown is over, however often its
\* event comes and whatever rules files are read meanwhile; and a trigger that failed waits
\* a second at least and the cap at most, whatever the width of a word and the failures
\* before, as long as the shifted second fits the word.
THEOREM PausesStayKept == Spec => []PausesAreKept
<1>1. Init => EngineInv /\ BreakerInv
  BY EngineBegins, BreakerBegins DEF Init
<1>2. EngineInv /\ BreakerInv /\ [Next]_vars => (EngineInv /\ BreakerInv)'
  BY EnginePart, BreakerPart, EngineStep, BreakerStep
<1>3. EngineInv /\ BreakerInv => PausesAreKept
  BY DEF EngineInv, BreakerInv, PausesAreKept, CooldownHolds
<1> QED BY <1>1, <1>2, <1>3, PTL DEF Spec

\* A meeting is announced once for every start it is given, and before it begins when the
\* calendar warns at least one poll ahead and nothing named hindered it, however meetings
\* are moved.
THEOREM MeetingsStayAnnounced == Spec => []MeetingsAnnounced
<1>1. Init => CalendarInv
  BY CalendarBegins DEF Init
<1>2. CalendarInv /\ [Next]_vars => CalendarInv'
  BY CalendarPart, CalendarStep
<1>3. CalendarInv => MeetingsAnnounced
  BY DEF CalendarInv, MeetingsAnnounced
<1> QED BY <1>1, <1>2, <1>3, PTL DEF Spec

\* The settings, the scheduled jobs and the rules are the ones that the users were told of,
\* the rules in force those of the file, and an installed skill and the local model the
\* whole of what was fetched, but for what a named hazard has met: however the programs that
\* rewrite these files without a lock interleave, fail in between or end.
THEOREM FilesStayKept == Spec => []FilesKept
<1> DEFINE FilesKeptInv == ConfigInv /\ CronInv /\ RuleInv /\ SkillInv /\ ModelInv
<1>1. Init => FilesKeptInv
  BY ConfigBegins, CronBegins, RulesBegin, SkillBegins, ModelBegins DEF Init
<1>2. FilesKeptInv /\ [Next]_vars => FilesKeptInv'
  BY FileParts, ConfigStep, CronStep, RuleStep, SkillStep, ModelStep
<1>3. FilesKeptInv => FilesKept
  BY ConfigStaysKept, CronKept, RulesStayKept, SkillKept DEF ModelInv, FilesKept
<1> QED BY <1>1, <1>2, <1>3, PTL DEF Spec

LEMMA ChunkPart == [Next]_vars => [ChunkMarkdown]_chunkerVars
  BY DEF Next, vars, storeVars

LEMMA StoreParts ==
  [Next]_vars => /\ [EpisodicNext]_episodicVars /\ [SemanticNext]_semanticVars
                 /\ [AuditNext]_auditVars
  BY DEF Next, vars, storeVars

LEMMA ServiceParts == [Next]_vars => [HubNext]_hubVars /\ [MailNext]_mailVars
  BY DEF Next, vars, serviceVars

\* A line that fits in a chunk is in one of the chunks of its note, whole and in order,
\* whatever the note, the sizes and the overlap.
THEOREM ShortLinesStay == Spec => []ShortLinesSurvive
<1>1. Init => ChunkInv
  BY ChunkBegins DEF Init
<1>2. ChunkInv /\ [Next]_vars => ChunkInv'
  BY ChunkPart, ChunkStep
<1> QED BY <1>1, <1>2, ChunksSurvive, PTL DEF Spec

-----------------------------------------------------------------------------
(* What the invariants above leave open of the types.                      *)

\* The commands given are counted up to the bound.
LEMMA GivenStep == given \in 0..MaxCommands /\ [ConfigNext]_configVars => given' \in 0..MaxCommands
<1> SUFFICES ASSUME given \in 0..MaxCommands, [ConfigNext]_configVars
             PROVE  given' \in 0..MaxCommands
  OBVIOUS
<1>1. CASE UNCHANGED configVars
  BY <1>1 DEF configVars
<1>2. ASSUME NEW e \in Editors, GiveCommand(e)
      PROVE  given' \in 0..MaxCommands
  <2>1. given < MaxCommands /\ given' = given + 1
    BY <1>2 DEF GiveCommand
  <2> QED BY ONLY <2>1, ConfigAssumption, given \in 0..MaxCommands
<1>3. ASSUME NEW e \in Editors,
             \/ Onboard(e) \/ Interrupted(e)
             \/ LoadForServer(e) \/ LoadForEmail(e) \/ LoadForSwitch(e) \/ ReadForSwitch(e)
             \/ OpenFile(e) \/ OpenFails(e) \/ WriteFile(e) \/ WriteLost(e)
      PROVE  given' \in 0..MaxCommands
  BY <1>3 DEF Onboard, Interrupted, LoadForServer, LoadForEmail, LoadForSwitch, ReadForSwitch,
              OpenFile, OpenFails, WriteFile, WriteLost
<1> QED BY <1>1, <1>2, <1>3 DEF ConfigNext

\* The daemon's own jobs are prompts with a schedule that it takes.
CronRest ==
  /\ agenda \subseteq Prompts /\ daemonUp \in BOOLEAN /\ cronEdits \in 0..MaxCronCalls

LEMMA CronRestStep == CronTypes /\ CronRest /\ [CronNext]_cronVars => CronRest'
<1> SUFFICES ASSUME CronTypes, CronRest, [CronNext]_cronVars
             PROVE  CronRest'
  OBVIOUS
<1>0. cronEdits \in 0..MaxCronCalls
  BY DEF CronRest
<1>9. MaxCronCalls \in Nat
  BY CronConfig
<1>1. CASE UNCHANGED cronVars
  BY <1>1 DEF cronVars, CronRest
<1>2. CASE CommandReads
  <2>1. cronEdits < MaxCronCalls /\ cronEdits' = cronEdits + 1 /\ UNCHANGED <<agenda, daemonUp>>
    BY <1>2 DEF CommandReads
  <2>2. cronEdits' \in 0..MaxCronCalls
    BY ONLY <1>0, <1>9, <2>1
  <2> QED BY <2>1, <2>2 DEF CronRest
<1>3. CASE CommandWrites \/ CommandFails \/ DaemonEnds
  BY <1>3 DEF CommandWrites, CommandFails, DaemonEnds, CronRest
<1>4. CASE DaemonStarts
  BY <1>4, ReadTypes DEF DaemonStarts, CronRest
<1>5. ASSUME NEW c \in Calls, CallBegins(c)
      PROVE  CronRest'
  <2>1. cronEdits < MaxCronCalls /\ cronEdits' = cronEdits + 1 /\ UNCHANGED <<agenda, daemonUp>>
    BY <1>5 DEF CallBegins, othersVars
  <2>2. cronEdits' \in 0..MaxCronCalls
    BY ONLY <1>0, <1>9, <2>1
  <2> QED BY <2>1, <2>2 DEF CronRest
<1>6. ASSUME NEW c \in Calls, \/ Look(c) \/ Displace(c) \/ Schedule(c) \/ Record(c)
                              \/ SaveJobs(c) \/ WriteJobs(c) \/ SaveFails(c)
      PROVE  CronRest'
  BY <1>6 DEF Look, Displace, Schedule, Record, SaveJobs, WriteJobs, SaveFails, othersVars, CronRest
<1> QED BY <1>1, <1>2, <1>3, <1>4, <1>5, <1>6 DEF CronNext

LEMMA JobsTyped == Prompts \subseteq Jobs /\ Commands \subseteq Jobs
  BY DEF Prompts, Commands, Jobs

LEMMA CronTyped == CronTypes /\ CronRest => CronTypeOK
<1> SUFFICES ASSUME CronTypes, CronRest PROVE CronTypeOK
  OBVIOUS
<1>1. /\ cronFile.readable \in BOOLEAN /\ cronFile.jobs \subseteq Jobs
      /\ shell.pc \in {"idle", "write"} /\ shell.next \subseteq Jobs
  BY JobsTyped DEF CronTypes
<1>2. ASSUME NEW c \in Calls
      PROVE  call[c].pc \in {"idle", "look", "displace", "schedule", "record", "save", "write"}
  BY DEF CronTypes, JobCall
<1>3. agenda \subseteq Jobs /\ defs \subseteq Jobs
  BY JobsTyped DEF CronTypes, CronRest
<1> HIDE DEF Jobs
<1> QED BY <1>1, <1>2, <1>3 DEF CronTypeOK, CronTypes, CronRest

\* The registry can be read or it cannot.
LEMMA ReadableStep ==
  registry.readable \in BOOLEAN /\ [AgentsNext]_agentsVars => (registry.readable \in BOOLEAN)'
<1> SUFFICES ASSUME registry.readable \in BOOLEAN, [AgentsNext]_agentsVars
             PROVE  registry'.readable \in BOOLEAN
  OBVIOUS
<1>1. CASE UNCHANGED registry
  BY <1>1
<1>2. ASSUME NEW p \in Programs, Register(p) \/ RegisterFails(p)
      PROVE  registry'.readable \in BOOLEAN
  <2>1. \/ registry' = registry
        \/ \E b \in BOOLEAN : \E s : registry' = [readable |-> b, agents |-> s]
    BY <1>2 DEF Register, RegisterFails, Readable
  <2> QED BY ONLY <2>1, registry.readable \in BOOLEAN
<1> QED BY <1>1, <1>2 DEF AgentsNext, agentsVars, CreateMakesWorkspace, CreateLoads, RemoveLoads,
            DeleteWorkspace, ProgramEnds, TaskBegins, TaskEnds

-----------------------------------------------------------------------------
(* Rules: one per ID, and no more notices than edits explain.              *)

ToOpen == {c \in Shells : command[c].pc = "open"}
ToWrite == {c \in Shells : command[c].pc = "write"}

\* A command gives one notice when it opens the file and one when it writes.
NoticesInv ==
  /\ IsFiniteSet(ToOpen) /\ IsFiniteSet(ToWrite)
  /\ 2 * Cardinality(ToOpen) + Cardinality(ToWrite) <= 2 * ruleEdits
  /\ notices + 2 * Cardinality(ToOpen) + Cardinality(ToWrite) <= 2 * ruleEdits + 1

SetsInv ==
  /\ ruleFile.rules \in RuleSets /\ inForce \in RuleSets /\ promised \in RuleSets
  /\ \A c \in Shells : command[c].base \in RuleSets /\ command[c].next \in RuleSets

RuleRest == ruleEdits \in 0..MaxRuleEdits /\ NoticesInv /\ SetsInv

MergedSet(s, q, id) == {r \in s : r.id # id} \cup {r \in q : r.id = id}

LEMMA SetsMerged ==
  ASSUME NEW s \in RuleSets, NEW q \in RuleSets, NEW id
  PROVE  MergedSet(s, q, id) \in RuleSets
  BY DEF RuleSets, MergedSet

LEMMA SetGrown ==
  ASSUME NEW s \in RuleSets, NEW id \in RuleNames \ IdsOf(s), NEW k \in BOOLEAN
  PROVE  s \cup {[id |-> id, known |-> k, on |-> TRUE]} \in RuleSets
<1> DEFINE new == [id |-> id, known |-> k, on |-> TRUE]
<1>1. new \in FileRules /\ new.id = id
  BY DEF FileRules
<1>2. \A r \in s : r.id # id
  BY DEF IdsOf
<1>3. s \subseteq FileRules /\ \A r \in s, q \in s : r.id = q.id => r = q
  BY DEF RuleSets
<1> HIDE DEF new
<1>4. s \cup {new} \in SUBSET FileRules
  BY <1>1, <1>3
<1>5. \A r \in s \cup {new}, q \in s \cup {new} : r.id = q.id => r = q
  BY ONLY <1>1, <1>2, <1>3
<1>6. s \cup {new} \in RuleSets
  BY ONLY <1>4, <1>5 DEF RuleSets
<1> QED BY <1>6 DEF new

LEMMA SetSwitched ==
  ASSUME NEW s \in RuleSets, NEW id, NEW on \in BOOLEAN
  PROVE  Switched(s, id, on) \in RuleSets
<1> DEFINE f(r) == IF r.id = id THEN [r EXCEPT !.on = on] ELSE r
<1>1. s \subseteq FileRules /\ \A r \in s, q \in s : r.id = q.id => r = q
  BY DEF RuleSets
<1>2. ASSUME NEW r \in FileRules
      PROVE  f(r) \in FileRules /\ f(r).id = r.id
  BY DEF FileRules
<1>3. Switched(s, id, on) = {f(r) : r \in s}
  BY DEF Switched
<1> HIDE DEF f
<1>4. {f(r) : r \in s} \in SUBSET FileRules
  BY <1>1, <1>2
<1>5. ASSUME NEW a \in {f(r) : r \in s}, NEW b \in {f(r) : r \in s}, a.id = b.id
      PROVE  a = b
  <2>1. PICK r \in s, q \in s : a = f(r) /\ b = f(q)
    OBVIOUS
  <2>2. r.id = q.id
    BY <1>1, <1>2, <1>5, <2>1
  <2> QED BY <1>1, <2>1, <2>2
<1> QED BY ONLY <1>3, <1>4, <1>5 DEF RuleSets

LEMMA RuleRestBegins == RuleFileInit => RuleRest
<1> SUFFICES ASSUME RuleFileInit PROVE RuleRest
  OBVIOUS
<1>1. ToOpen = {} /\ ToWrite = {}
  BY DEF RuleFileInit, ToOpen, ToWrite, NoCommand
<1>2. Cardinality({}) = 0 /\ IsFiniteSet({})
  BY FS_EmptySet
<1>3. notices = 0 /\ ruleEdits = 0 /\ ruleEdits \in 0..MaxRuleEdits
  BY RuleFileConfig DEF RuleFileInit
<1>4. NoticesInv
  BY ONLY <1>1, <1>2, <1>3 DEF NoticesInv
<1>5. {} \in RuleSets
  BY DEF RuleSets
<1>6. ruleFile.rules \in RuleSets
  BY <1>5 DEF RuleFileInit
<1>7. \A c \in Shells : command[c] = NoCommand
  BY DEF RuleFileInit
<1>8. SetsInv
  BY <1>5, <1>6, <1>7 DEF RuleFileInit, SetsInv, NoCommand
<1> QED BY <1>3, <1>4, <1>8 DEF RuleRest

\* A command at work: its two sets are in the bounds if what it goes on with is.
LEMMA SetsMove ==
  ASSUME RuleTypes, SetsInv, NEW c \in Shells, NEW x, command' = [command EXCEPT ![c] = x],
         x.base \in RuleSets, x.next \in RuleSets,
         ruleFile'.rules \in RuleSets, inForce' \in RuleSets, promised' \in RuleSets
  PROVE  SetsInv'
<1>1. ASSUME NEW d \in Shells
      PROVE  command'[d].base \in RuleSets /\ command'[d].next \in RuleSets
  <2>1. command'[d] = IF d = c THEN x ELSE command[d]
    BY DEF RuleTypes
  <2> QED BY <2>1 DEF SetsInv
<1> QED BY <1>1 DEF SetsInv

LEMMA SetsStep == RuleTypes /\ SetsInv /\ RuleFileNext => SetsInv'
<1> SUFFICES ASSUME RuleTypes, SetsInv, RuleFileNext
             PROVE  SetsInv'
  OBVIOUS
<1>e. {} \in RuleSets
  BY DEF RuleSets
<1>s. /\ ruleFile.rules \in RuleSets /\ inForce \in RuleSets /\ promised \in RuleSets
      /\ \A c \in Shells : command[c].base \in RuleSets /\ command[c].next \in RuleSets
  BY DEF SetsInv
<1>1. ASSUME NEW c \in Shells, NEW id \in RuleNames, AddRule(c, id)
      PROVE  SetsInv'
  <2>1. PICK k \in BOOLEAN :
               ReadRules(c, id, ruleFile.rules \cup {[id |-> id, known |-> k, on |-> TRUE]})
    BY <1>1 DEF AddRule
  <2>2. ruleFile.rules \cup {[id |-> id, known |-> k, on |-> TRUE]} \in RuleSets
    BY <1>1, <1>s, SetGrown DEF AddRule
  <2>3. UNCHANGED <<ruleFile, inForce, promised>>
    BY <1>1 DEF AddRule
  <2> DEFINE x == [pc |-> "open", base |-> ruleFile.rules, id |-> id,
                   next |-> ruleFile.rules \cup {[id |-> id, known |-> k, on |-> TRUE]}]
  <2>4. command' = [command EXCEPT ![c] = x] /\ x.base = ruleFile.rules
        /\ x.next = ruleFile.rules \cup {[id |-> id, known |-> k, on |-> TRUE]}
    BY <2>1 DEF ReadRules
  <2> HIDE DEF x
  <2> QED BY <2>2, <2>3, <2>4, <1>s, SetsMove
<1>2. ASSUME NEW c \in Shells, NEW id \in RuleNames, NEW on \in BOOLEAN, SetRuleEnabled(c, id, on)
      PROVE  SetsInv'
  <2>1. ReadRules(c, id, Switched(ruleFile.rules, id, on))
    BY <1>2 DEF SetRuleEnabled
  <2>2. Switched(ruleFile.rules, id, on) \in RuleSets
    BY <1>s, SetSwitched
  <2>3. UNCHANGED <<ruleFile, inForce, promised>>
    BY <1>2 DEF SetRuleEnabled
  <2> DEFINE x == [pc |-> "open", base |-> ruleFile.rules, id |-> id,
                   next |-> Switched(ruleFile.rules, id, on)]
  <2>4. command' = [command EXCEPT ![c] = x] /\ x.base = ruleFile.rules
        /\ x.next = Switched(ruleFile.rules, id, on)
    BY <2>1 DEF ReadRules
  <2> HIDE DEF x
  <2> QED BY <2>2, <2>3, <2>4, <1>s, SetsMove
<1>3. ASSUME NEW c \in Shells, TruncateRules(c)
      PROVE  SetsInv'
  <2> DEFINE x == [command[c] EXCEPT !.pc = "write"]
  <2>1. command' = [command EXCEPT ![c] = x]
    BY <1>3 DEF TruncateRules
  <2>2. x.base = command[c].base /\ x.next = command[c].next
    BY DEF RuleTypes, RuleCommand
  <2>3. ruleFile' = [state |-> "empty", rules |-> {}] /\ UNCHANGED <<inForce, promised>>
    BY <1>3 DEF TruncateRules
  <2> HIDE DEF x
  <2> QED BY <2>1, <2>2, <2>3, <1>e, <1>s, SetsMove
<1>4. ASSUME NEW c \in Shells, WriteRules(c)
      PROVE  SetsInv'
  <2>1. command' = [command EXCEPT ![c] = NoCommand] /\ UNCHANGED inForce
    BY <1>4 DEF WriteRules
  <2>2. NoCommand.base = {} /\ NoCommand.next = {}
    BY DEF NoCommand
  <2>3. ruleFile'.rules \in RuleSets
    <3>1. \/ ruleFile' = ruleFile
          \/ ruleFile' = [state |-> "ok", rules |-> command[c].next]
          \/ ruleFile' = [state |-> "unparsable", rules |-> {}]
      BY <1>4 DEF WriteRules
    <3> QED BY <3>1, <1>e, <1>s
  <2>4. promised' = MergedSet(promised, command[c].next, command[c].id)
    BY <1>4 DEF WriteRules, MergedSet
  <2>5. promised' \in RuleSets
    BY <2>4, <1>s, SetsMerged
  <2> HIDE DEF NoCommand
  <2> QED BY <2>1, <2>2, <2>3, <2>5, <1>e, <1>s, SetsMove
<1>5. ASSUME NEW c \in Shells, WriteRulesLost(c)
      PROVE  SetsInv'
  <2>1. command' = [command EXCEPT ![c] = NoCommand] /\ UNCHANGED <<ruleFile, inForce, promised>>
    BY <1>5 DEF WriteRulesLost
  <2>2. NoCommand.base = {} /\ NoCommand.next = {}
    BY DEF NoCommand
  <2> HIDE DEF NoCommand
  <2> QED BY <2>1, <2>2, <1>e, <1>s, SetsMove
<1>6. CASE EditByHand
  <2>1. ruleFile'.rules = {} /\ UNCHANGED <<command, inForce, promised>>
    BY <1>6 DEF EditByHand
  <2> QED BY <2>1, <1>e, <1>s DEF SetsInv
<1>7. CASE LoadAtStart \/ StartWatching \/ Reload \/ StopWatching
  <2>1. inForce' \in RuleSets /\ UNCHANGED <<ruleFile, command, promised>>
    BY <1>7, <1>e, <1>s DEF LoadAtStart, StartWatching, Reload, Reloaded, StopWatching
  <2> QED BY <2>1, <1>s DEF SetsInv
<1> QED BY <1>1, <1>2, <1>3, <1>4, <1>5, <1>6, <1>7 DEF RuleFileNext

\* The shells that are between the two writes of the file, after a step of one.
LEMMA ShellMoves ==
  ASSUME RuleTypes, NEW c \in Shells, NEW x, command' = [command EXCEPT ![c] = x]
  PROVE  /\ ToOpen' = IF x.pc = "open" THEN ToOpen \cup {c} ELSE ToOpen \ {c}
         /\ ToWrite' = IF x.pc = "write" THEN ToWrite \cup {c} ELSE ToWrite \ {c}
<1>1. \A d \in Shells : command'[d] = IF d = c THEN x ELSE command[d]
  BY DEF RuleTypes
<1> QED BY <1>1 DEF ToOpen, ToWrite

\* What the counts become, in the steps of a shell.
LEMMA CountsMove ==
  ASSUME NoticesInv, RuleTypes, NEW c \in Shells
  PROVE  /\ Cardinality(ToOpen) \in Nat /\ Cardinality(ToWrite) \in Nat
         /\ IsFiniteSet(ToOpen) /\ IsFiniteSet(ToWrite)
         /\ command[c].pc = "idle" => /\ IsFiniteSet(ToOpen \cup {c})
                                      /\ Cardinality(ToOpen \cup {c}) = Cardinality(ToOpen) + 1
                                      /\ ToWrite \ {c} = ToWrite
         /\ command[c].pc = "open" => /\ IsFiniteSet(ToOpen \ {c}) /\ IsFiniteSet(ToWrite \cup {c})
                                      /\ Cardinality(ToOpen \ {c}) = Cardinality(ToOpen) - 1
                                      /\ Cardinality(ToWrite \cup {c}) = Cardinality(ToWrite) + 1
         /\ command[c].pc = "write" => /\ IsFiniteSet(ToWrite \ {c})
                                       /\ Cardinality(ToWrite \ {c}) = Cardinality(ToWrite) - 1
                                       /\ ToOpen \ {c} = ToOpen
<1>1. IsFiniteSet(ToOpen) /\ IsFiniteSet(ToWrite)
  BY DEF NoticesInv
<1>2. Cardinality(ToOpen) \in Nat /\ Cardinality(ToWrite) \in Nat
  BY <1>1, FS_CardinalityType
<1>3. /\ c \in ToOpen <=> command[c].pc = "open"
      /\ c \in ToWrite <=> command[c].pc = "write"
  BY DEF ToOpen, ToWrite
<1>4. CASE command[c].pc = "idle"
  <2>1. c \notin ToOpen /\ c \notin ToWrite
    BY <1>3, <1>4
  <2> QED BY <1>1, <1>2, <1>4, <2>1, FS_AddElement
<1>5. CASE command[c].pc = "open"
  <2>1. c \in ToOpen /\ c \notin ToWrite
    BY <1>3, <1>5
  <2> QED BY <1>1, <1>2, <1>5, <2>1, FS_AddElement, FS_RemoveElement
<1>6. CASE command[c].pc = "write"
  <2>1. c \notin ToOpen /\ c \in ToWrite
    BY <1>3, <1>6
  <2> QED BY <1>1, <1>2, <1>6, <2>1, FS_RemoveElement
<1> QED BY <1>1, <1>2, <1>4, <1>5, <1>6

LEMMA NoticesStep ==
  RuleTypes /\ NoticesInv /\ ruleEdits \in 0..MaxRuleEdits /\ RuleFileNext
    => NoticesInv' /\ ruleEdits' \in 0..MaxRuleEdits
<1> SUFFICES ASSUME RuleTypes, NoticesInv, ruleEdits \in 0..MaxRuleEdits, RuleFileNext
             PROVE  NoticesInv' /\ ruleEdits' \in 0..MaxRuleEdits
  OBVIOUS
<1>t. ruleEdits \in Nat /\ notices \in Nat /\ MaxRuleEdits \in Nat /\ ruleEdits <= MaxRuleEdits
  BY RuleFileConfig DEF RuleTypes
<1>f. /\ IsFiniteSet(ToOpen) /\ IsFiniteSet(ToWrite)
      /\ Cardinality(ToOpen) \in Nat /\ Cardinality(ToWrite) \in Nat
  BY FS_CardinalityType DEF NoticesInv
<1>i. /\ 2 * Cardinality(ToOpen) + Cardinality(ToWrite) <= 2 * ruleEdits
      /\ notices + 2 * Cardinality(ToOpen) + Cardinality(ToWrite) <= 2 * ruleEdits + 1
  BY DEF NoticesInv
<1>1. ASSUME NEW c \in Shells, NEW x, command' = [command EXCEPT ![c] = x],
             command[c].pc = "idle", x.pc = "open", Edits, UNCHANGED notices
      PROVE  NoticesInv' /\ ruleEdits' \in 0..MaxRuleEdits
  <2>1. ToOpen' = ToOpen \cup {c} /\ ToWrite' = ToWrite
    BY <1>1, ShellMoves, CountsMove
  <2>2. IsFiniteSet(ToOpen') /\ Cardinality(ToOpen') = Cardinality(ToOpen) + 1
    BY <1>1, <2>1, CountsMove
  <2>3. ruleEdits' = ruleEdits + 1 /\ ruleEdits < MaxRuleEdits
    BY <1>1 DEF Edits
  <2>4. notices' = notices
    BY <1>1
  <2> QED BY ONLY <1>t, <1>f, <1>i, <2>1, <2>2, <2>3, <2>4 DEF NoticesInv
<1>2. ASSUME NEW c \in Shells, NEW id \in RuleNames,
             AddRule(c, id) \/ \E on \in BOOLEAN : SetRuleEnabled(c, id, on)
      PROVE  NoticesInv' /\ ruleEdits' \in 0..MaxRuleEdits
  <2>1. PICK next : ReadRules(c, id, next)
    BY <1>2 DEF AddRule, SetRuleEnabled
  <2>2. command[c].pc = "idle" /\ Edits /\ UNCHANGED notices
    BY <1>2 DEF AddRule, SetRuleEnabled
  <2> DEFINE x == [pc |-> "open", base |-> ruleFile.rules, next |-> next, id |-> id]
  <2>3. command' = [command EXCEPT ![c] = x] /\ x.pc = "open"
    BY <2>1 DEF ReadRules
  <2> HIDE DEF x
  <2> QED BY <2>2, <2>3, <1>1
<1>n. \A n \in {0, 1} : Noticed(n) => notices' \in Nat /\ notices' <= notices + 1
  BY <1>t DEF Noticed
<1>3. ASSUME NEW c \in Shells, TruncateRules(c)
      PROVE  NoticesInv' /\ ruleEdits' \in 0..MaxRuleEdits
  <2> DEFINE x == [command[c] EXCEPT !.pc = "write"]
  <2>1. command' = [command EXCEPT ![c] = x] /\ x.pc = "write" /\ command[c].pc = "open"
    BY <1>3 DEF TruncateRules, RuleTypes, RuleCommand
  <2>2. UNCHANGED ruleEdits /\ notices' \in Nat /\ notices' <= notices + 1
    BY <1>3, <1>n DEF TruncateRules
  <2> HIDE DEF x
  <2>3. ToOpen' = ToOpen \ {c} /\ ToWrite' = ToWrite \cup {c}
    BY <2>1, ShellMoves
  <2>4. /\ IsFiniteSet(ToOpen') /\ Cardinality(ToOpen') = Cardinality(ToOpen) - 1
        /\ IsFiniteSet(ToWrite') /\ Cardinality(ToWrite') = Cardinality(ToWrite) + 1
    BY <2>1, <2>3, CountsMove
  <2> QED BY ONLY <1>t, <1>f, <1>i, <2>2, <2>4 DEF NoticesInv
<1>4. ASSUME NEW c \in Shells, WriteRules(c) \/ WriteRulesLost(c)
      PROVE  NoticesInv' /\ ruleEdits' \in 0..MaxRuleEdits
  <2>1. command' = [command EXCEPT ![c] = NoCommand] /\ NoCommand.pc = "idle"
        /\ command[c].pc = "write"
    BY <1>4 DEF WriteRules, WriteRulesLost, NoCommand
  <2>2. UNCHANGED ruleEdits /\ notices' \in Nat /\ notices' <= notices + 1
    BY <1>4, <1>n, <1>t DEF WriteRules, WriteRulesLost
  <2> HIDE DEF NoCommand
  <2>3. ToOpen' = ToOpen /\ ToWrite' = ToWrite \ {c}
    BY <2>1, ShellMoves, CountsMove
  <2>4. IsFiniteSet(ToWrite') /\ Cardinality(ToWrite') = Cardinality(ToWrite) - 1
    BY <2>1, <2>3, CountsMove
  <2> QED BY ONLY <1>t, <1>f, <1>i, <2>2, <2>3, <2>4 DEF NoticesInv
<1>5. ASSUME UNCHANGED command, notices' \in Nat,
             \/ Edits /\ notices' <= notices + 1
             \/ UNCHANGED ruleEdits /\ (notices' <= notices \/ notices' <= 1)
      PROVE  NoticesInv' /\ ruleEdits' \in 0..MaxRuleEdits
  <2>1. ToOpen' = ToOpen /\ ToWrite' = ToWrite
    BY <1>5 DEF ToOpen, ToWrite
  <2>2. \/ ruleEdits' = ruleEdits + 1 /\ ruleEdits < MaxRuleEdits /\ notices' <= notices + 1
        \/ ruleEdits' = ruleEdits /\ (notices' <= notices \/ notices' <= 1)
    BY <1>5 DEF Edits
  <2>3. notices' \in Nat
    BY <1>5
  <2> QED BY ONLY <1>t, <1>f, <1>i, <2>1, <2>2, <2>3 DEF NoticesInv
<1>6. CASE EditByHand
  BY <1>5, <1>6, <1>n DEF EditByHand
<1>7. CASE LoadAtStart \/ StartWatching \/ Reload \/ StopWatching
  BY <1>5, <1>7, <1>t DEF LoadAtStart, StartWatching, Reload, StopWatching
<1> QED BY <1>2, <1>3, <1>4, <1>6, <1>7 DEF RuleFileNext

LEMMA RuleRestStep == RuleTypes /\ RuleRest /\ [RuleFileNext]_ruleFileVars => RuleRest'
<1>1. CASE UNCHANGED ruleFileVars
  BY <1>1 DEF ruleFileVars, RuleRest, NoticesInv, SetsInv, ToOpen, ToWrite
<1>2. CASE RuleFileNext
  BY <1>2, SetsStep, NoticesStep DEF RuleRest
<1> QED BY <1>1, <1>2

LEMMA RulesTyped == RuleTypes /\ RuleRest => RuleFileTypeOK
<1> SUFFICES ASSUME RuleTypes, RuleRest PROVE RuleFileTypeOK
  OBVIOUS
<1>1. notices \in 0..(2 * MaxRuleEdits + 1)
  <2>1. /\ notices + 2 * Cardinality(ToOpen) + Cardinality(ToWrite) <= 2 * ruleEdits + 1
        /\ Cardinality(ToOpen) \in Nat /\ Cardinality(ToWrite) \in Nat
    BY FS_CardinalityType DEF RuleRest, NoticesInv
  <2>2. ruleEdits \in 0..MaxRuleEdits /\ notices \in Nat /\ MaxRuleEdits \in Nat
    BY RuleFileConfig DEF RuleRest, RuleTypes
  <2> QED BY ONLY <2>1, <2>2
<1>2. ASSUME NEW c \in Shells
      PROVE  /\ command[c].pc \in {"idle", "open", "write"}
             /\ command[c].base \in RuleSets /\ command[c].next \in RuleSets
  BY DEF RuleTypes, RuleCommand, RuleRest, SetsInv
<1>3. ruleFile.state \in {"missing", "empty", "ok", "unparsable"}
  BY DEF RuleTypes
<1> HIDE DEF RuleSets
<1> QED BY <1>1, <1>2, <1>3 DEF RuleFileTypeOK, RuleTypes, RuleRest, SetsInv

-----------------------------------------------------------------------------
(* The types of each part, from its invariant.                             *)

LEMMA StoresTyped == EpisodicInv /\ SemanticInv /\ ChunkInv /\ AuditInv =>
  EpisodicTypeOK /\ SemanticTypeOK /\ ChunkerTypeOK /\ AuditTypeOK
  BY ChunksTyped DEF EpisodicInv, SemanticInv, AuditInv

LEMMA ServicesTyped == HubInv /\ EngineInv /\ BreakerInv /\ CalendarInv /\ MailInv =>
  HubTypeOK /\ EngineTypeOK /\ BreakerTypeOK /\ CalendarTypeOK /\ MailTypeOK
<1>1. MailTypes => MailTypeOK
  <2> SUFFICES ASSUME MailTypes PROVE MailTypeOK
    OBVIOUS
  <2>1. seenNext \in [Watchers -> Nat] /\ from \in [Watchers -> Nat]
    BY MailConfig DEF MailTypes
  <2>2. {seen, settled, botched} \subseteq SUBSET (1..MaxMails)
    BY DEF MailTypes
  <2> QED BY <2>1, <2>2 DEF MailTypes, MailTypeOK
<1> QED BY <1>1, BreakerTyped DEF HubInv, EngineInv, CalendarInv, MailInv

LEMMA ConfigTyped == ConfigInv /\ given \in 0..MaxCommands => ConfigTypeOK
<1> SUFFICES ASSUME ConfigInv, given \in 0..MaxCommands PROVE ConfigTypeOK
  OBVIOUS
<1>1. /\ settings.state \in {"missing", "empty", "ok", "unparsable"}
      /\ settings.items \subseteq Settings
  BY DEF ConfigInv, EditTypes
<1>2. ASSUME NEW e \in Editors
      PROVE  /\ editor[e].pc \in {"idle", "load", "read", "open", "write"}
             /\ editor[e].base \subseteq Settings /\ editor[e].next \subseteq Settings
  <2>1. editor[e] \in EditorState
    BY DEF ConfigInv, EditTypes
  <2> QED BY ONLY <2>1 DEF EditorState
<1>3. wanted \subseteq Settings /\ excused \subseteq Settings
  BY DEF ConfigInv, EditTypes
<1> QED BY <1>1, <1>2, <1>3 DEF ConfigTypeOK

LEMMA SkillsTyped == SkillTypes => SkillStoreTypeOK
<1> SUFFICES ASSUME SkillTypes PROVE SkillStoreTypeOK
  OBVIOUS
<1>1. /\ onDisk.there \in BOOLEAN /\ onDisk.repo \in BOOLEAN
      /\ onDisk.file \in [SkillFiles -> {"absent", "torn", "whole"}]
  BY DEF SkillTypes
<1>2. ASSUME NEW p \in Installers
      PROVE  /\ installer[p].pc \in {"idle", "fetch", "download", "mkdir", "open", "write"}
             /\ installer[p].from \in {"none", "path", "bundle", "git", "archive", "url"}
             /\ installer[p].next \in SkillFiles
  <2>1. installer[p] \in InstallCall
    BY DEF SkillTypes
  <2> QED BY ONLY <2>1 DEF InstallCall, InstallPlaces
<1> QED BY <1>1, <1>2 DEF SkillTypes, SkillStoreTypeOK

LEMMA ModelsTyped == ModelTypes => ModelDownloadTypeOK
<1> SUFFICES ASSUME ModelTypes PROVE ModelDownloadTypeOK
  OBVIOUS
<1>1. ASSUME NEW p \in Fetchers
      PROVE  /\ fetcher[p].pc \in {"idle", "create", "write", "check", "rename"}
             /\ fetcher[p].temp \in {"none", "copy", "download"}
             /\ fetcher[p].file \in 0..MaxSetups /\ fetcher[p].next \in Blocks
             /\ fetcher[p].stream \in {"model", "other"}
  <2>1. fetcher[p] \in Fetch
    BY DEF ModelTypes
  <2> QED BY ONLY <2>1 DEF Fetch, FetchPlaces
<1> QED BY <1>1 DEF ModelTypes, ModelDownloadTypeOK, PathNames

LEMMA HostTyped == ProcessInv /\ AgentsInv /\ registry.readable \in BOOLEAN /\ LifeInv =>
  ProcessTypeOK /\ AgentsTypeOK /\ LifeTypeOK
<1> SUFFICES ASSUME ProcessInv, AgentsInv, registry.readable \in BOOLEAN, LifeInv
             PROVE  ProcessTypeOK /\ AgentsTypeOK /\ LifeTypeOK
  OBVIOUS
<1>1. ASSUME NEW c \in Toolers
      PROVE  tool[c].pc \in {"idle", "start", "spawn", "add", "stop", "kill", "unlist"}
  BY DEF ProcessInv, ProcessTypes, ToolCall, ToolPlaces
<1>2. ASSUME NEW p \in Programs
      PROVE  change[p].pc \in {"idle", "create", "register", "deregister", "delete"}
  BY DEF AgentsInv, AgentTypes, Change, ChangePlaces
<1>3. ASSUME NEW d \in Daemons
      PROVE  /\ daemon[d].stage \in {"new", "memory", "built", "wired", "checked", "serving",
                                     "stopping", "stopped", "waited", "leaving", "gone"}
             /\ daemon[d].services \subseteq Origins /\ daemon[d].turns \subseteq Origins
  <2>1. daemon[d] \in DaemonState
    BY DEF LifeInv, LifeTypes
  <2> QED BY ONLY <2>1 DEF DaemonState, Stages
<1>4. ProcessTypeOK
  BY <1>1 DEF ProcessTypeOK, ProcessInv, ProcessTypes
<1>5. AgentsTypeOK
  BY <1>2 DEF AgentsTypeOK, AgentsInv, AgentTypes
<1>6. LifeTypeOK
  BY <1>3 DEF LifeTypeOK, LifeInv, LifeTypes
<1> QED BY <1>4, <1>5, <1>6

\* Every variable of every part of the daemon keeps its type, whatever the parts do.
THEOREM DaemonTypes == Spec => []TypeOK
<1> DEFINE StoresInv == EpisodicInv /\ SemanticInv /\ ChunkInv /\ AuditInv
           ServicesInv == HubInv /\ EngineInv /\ BreakerInv /\ CalendarInv
           RewrittenInv == /\ ConfigInv /\ CronInv /\ RuleInv /\ SkillInv /\ ModelInv
                        /\ given \in 0..MaxCommands /\ CronRest /\ RuleRest
           HostInv == ProcessInv /\ AgentsInv /\ registry.readable \in BOOLEAN /\ LifeInv
<1>1. Init => StoresInv /\ ServicesInv /\ RewrittenInv /\ HostInv
  <2>1. Init => StoresInv
    BY EpisodicStarts, SemanticStarts, ChunkBegins, AuditStarts DEF Init
  <2>2. Init => ServicesInv
    BY HearStarts, EngineBegins, BreakerBegins, CalendarBegins DEF Init
  <2>3. Init => ConfigInv /\ CronInv /\ RuleInv /\ SkillInv /\ ModelInv
    BY ConfigBegins, CronBegins, RulesBegin, SkillBegins, ModelBegins DEF Init
  <2>4. ConfigInit => given \in 0..MaxCommands
    BY ConfigAssumption DEF ConfigInit
  <2>5. CronInit => CronRest
    <3>1. MaxCronCalls \in Nat
      BY CronConfig
    <3>2. 0 \in 0..MaxCronCalls
      BY ONLY <3>1
    <3> QED BY ONLY <3>2 DEF CronInit, CronRest
  <2>6. AgentsInit => registry.readable \in BOOLEAN
    BY DEF AgentsInit
  <2>7. Init => RewrittenInv
    BY <2>3, <2>4, <2>5, RuleRestBegins DEF Init
  <2>8. Init => HostInv
    BY <2>6, ProcessesBegin, AgentsBegin, LifeBegins DEF Init
  <2> QED BY <2>1, <2>2, <2>7, <2>8
<1>2. StoresInv /\ [Next]_vars => StoresInv'
  BY StoreParts, ChunkPart, EpisodicStep, SemanticStep, ChunkStep, AuditStep
<1>3. ServicesInv /\ [Next]_vars => ServicesInv'
  BY ServiceParts, EnginePart, BreakerPart, CalendarPart, HearStep, EngineStep, BreakerStep,
     CalendarStep
<1>4. RewrittenInv /\ [Next]_vars => RewrittenInv'
  <2>1. CronInv => CronTypes
    BY DEF CronInv
  <2>2. RuleInv => RuleTypes
    BY DEF RuleInv
  <2> QED BY <2>1, <2>2, FileParts, ConfigStep, CronStep, RuleStep, SkillStep, ModelStep, GivenStep,
             CronRestStep, RuleRestStep
<1>5. HostInv /\ [Next]_vars => HostInv'
  BY ProcessPart, AgentsPart, LifePart, ProcessStep, AgentsStep, ReadableStep, LifeStepKeeps
<1>6. Spec => []MailInv
  <2>1. Init => MailInit
    BY DEF Init
  <2>2. [Next]_vars => [MailNext]_mailVars
    BY ServiceParts
  <2>3. Spec => MailSpec
    BY <2>1, <2>2, PTL DEF Spec, MailSpec
  <2> QED BY <2>3, MailInductive, PTL
<1>7. RewrittenInv => /\ ConfigTypeOK /\ CronTypeOK /\ RuleFileTypeOK /\ SkillStoreTypeOK
                      /\ ModelDownloadTypeOK
  <2>1. CronInv => CronTypes
    BY DEF CronInv
  <2>2. RuleInv => RuleTypes
    BY DEF RuleInv
  <2>3. SkillInv => SkillTypes
    BY DEF SkillInv
  <2>4. ModelInv => ModelTypes
    BY DEF ModelInv
  <2> QED BY <2>1, <2>2, <2>3, <2>4, ConfigTyped, CronTyped, RulesTyped, SkillsTyped, ModelsTyped
<1>8. StoresInv /\ ServicesInv /\ MailInv /\ RewrittenInv /\ HostInv => TypeOK
  BY <1>7, StoresTyped, ServicesTyped, HostTyped DEF TypeOK
<1> HIDE DEF StoresInv, ServicesInv, RewrittenInv, HostInv
<1> QED BY <1>1, <1>2, <1>3, <1>4, <1>5, <1>6, <1>8, PTL DEF Spec
=============================================================================
