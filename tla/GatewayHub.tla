------------------------------ MODULE GatewayHub ------------------------------
(***************************************************************************)
(* The WebSocket hub of the gateway (internal/gateway/hub.go) with the two *)
(* pumps of every client (client.go) and the handler that registers it     *)
(* (server.go).  The hub's goroutine owns the set of clients; everybody    *)
(* else talks to it over bounded channels, and it closes the send queue of *)
(* a client that leaves, that is too slow, or that is there at shutdown.   *)
(*                                                                         *)
(* A message is a number; wg counts the clients Stop waits for.            *)
(***************************************************************************)
EXTENDS Integers, Sequences, FiniteSets

CONSTANTS
  Clients,
  RegisterCap, UnregisterCap, BroadcastCap, SendCap,  \* of the channels
  MaxMsgs        \* bound: messages the clients send altogether

ASSUME HubConfig ==
  /\ IsFiniteSet(Clients)
  /\ {RegisterCap, UnregisterCap, BroadcastCap, SendCap} \subseteq Nat \ {0}
  /\ MaxMsgs \in Nat

VARIABLES
  hub,          \* the goroutine of Run: "running" or "returned"
  clients,      \* the hub's set of clients
  wg,
  register, unregister, broadcast,   \* the channels, as sequences
  stop,         \* Stop: "uncalled", "waiting" for wg, "returned"
  send, closed, \* each client's send queue, and whether it is closed
  up,           \* the clients whose connection works
  reader,       \* where each readPump stands ("away": before serveWs started it)
  writer,
  held,         \* the message a readPump is about to post
  sent,         \* messages read so far
  log,          \* history: what the hub took from broadcast, in order
  since,        \* history: length of log when a client was listed
  got,          \* history: what a client's writePump wrote
  raced         \* history: clients whose unregister was served while not listed

channels   == <<register, unregister, broadcast>>
pumps      == <<up, reader, writer, held, sent>>
hubHistory == <<log, since, got, raced>>
hubVars    == <<hub, clients, wg, channels, stop, send, closed, pumps, hubHistory>>

HubInit ==
  /\ hub = "running" /\ clients = {} /\ wg = 0
  /\ register = <<>> /\ unregister = <<>> /\ broadcast = <<>>
  /\ stop = "uncalled"
  /\ send = [c \in Clients |-> <<>>]
  /\ closed = {}
  /\ up = {}
  /\ reader = [c \in Clients |-> "away"]
  /\ writer = [c \in Clients |-> "away"]
  /\ held = [c \in Clients |-> 0]
  /\ sent = 0
  /\ log = <<>>
  /\ since = [c \in Clients |-> 0]
  /\ got = [c \in Clients |-> <<>>]
  /\ raced = {}

-----------------------------------------------------------------------------
(* serveWs and the pumps *)

\* The handler blocks while the channel is full.
Connect(c) ==
  /\ reader[c] = "away"
  /\ Len(register) < RegisterCap
  /\ register' = Append(register, c)
  /\ up' = up \union {c}
  /\ reader' = [reader EXCEPT ![c] = "reading"]
  /\ writer' = [writer EXCEPT ![c] = "writing"]
  /\ UNCHANGED <<hub, clients, wg, unregister, broadcast, stop, send, closed, held,
                 sent, hubHistory>>

ConnectionBreaks(c) ==
  /\ c \in up
  /\ up' = up \ {c}
  /\ UNCHANGED <<hub, clients, wg, channels, stop, send, closed, reader, writer, held,
                 sent, hubHistory>>

ReadMessage(c) ==
  /\ reader[c] = "reading" /\ c \in up
  /\ sent < MaxMsgs
  /\ sent' = sent + 1
  /\ held' = [held EXCEPT ![c] = sent + 1]
  /\ reader' = [reader EXCEPT ![c] = "posting"]
  /\ UNCHANGED <<hub, clients, wg, channels, stop, send, closed, up, writer, hubHistory>>

Post(c) ==
  /\ reader[c] = "posting"
  /\ Len(broadcast) < BroadcastCap
  /\ broadcast' = Append(broadcast, held[c])
  /\ held' = [held EXCEPT ![c] = 0]
  /\ reader' = [reader EXCEPT ![c] = "reading"]
  /\ UNCHANGED <<hub, clients, wg, register, unregister, stop, send, closed, up, writer,
                 sent, hubHistory>>

ReadFails(c) ==
  /\ reader[c] = "reading" /\ c \notin up
  /\ reader' = [reader EXCEPT ![c] = "leaving"]
  /\ UNCHANGED <<hub, clients, wg, channels, stop, send, closed, up, writer, held, sent,
                 hubHistory>>

\* The deferred function of readPump.
Leave(c) ==
  /\ reader[c] = "leaving"
  /\ Len(unregister) < UnregisterCap
  /\ unregister' = Append(unregister, c)
  /\ up' = up \ {c}
  /\ reader' = [reader EXCEPT ![c] = "gone"]
  /\ UNCHANGED <<hub, clients, wg, register, broadcast, stop, send, closed, writer, held,
                 sent, hubHistory>>

\* One message and the ones queued behind it go out in one frame.
Write(c) ==
  /\ writer[c] = "writing" /\ c \in up
  /\ send[c] # <<>>
  /\ got' = [got EXCEPT ![c] = @ \o send[c]]
  /\ send' = [send EXCEPT ![c] = <<>>]
  /\ UNCHANGED <<hub, clients, wg, channels, stop, closed, pumps, log, since, raced>>

\* The queue is closed and empty, or a write or a ping fails.
WriterEnds(c) ==
  /\ writer[c] = "writing"
  /\ c \notin up \/ (c \in closed /\ send[c] = <<>>)
  /\ writer' = [writer EXCEPT ![c] = "gone"]
  /\ up' = up \ {c}
  /\ UNCHANGED <<hub, clients, wg, channels, stop, send, closed, reader, held, sent,
                 hubHistory>>

-----------------------------------------------------------------------------
(* Run: one iteration of its select *)

TakeRegister ==
  /\ hub = "running" /\ register # <<>>
  /\ clients' = clients \union {Head(register)}
  /\ wg' = wg + 1
  /\ register' = Tail(register)
  /\ since' = [since EXCEPT ![Head(register)] = Len(log)]
  /\ UNCHANGED <<hub, unregister, broadcast, stop, send, closed, pumps, log, got, raced>>

\* Broken: a client is signed off even if it was dropped as slow before.
TakeUnregisterUnchecked ==
  LET c == Head(unregister) IN
  /\ hub = "running" /\ unregister # <<>>
  /\ clients' = clients \ {c} /\ wg' = wg - 1 /\ closed' = closed \union {c}
  /\ unregister' = Tail(unregister)
  /\ UNCHANGED <<hub, register, broadcast, stop, send, pumps, hubHistory>>

TakeUnregister ==
  LET c == Head(unregister) IN
  /\ hub = "running" /\ unregister # <<>>
  /\ unregister' = Tail(unregister)
  /\ \/ /\ c \in clients
        /\ clients' = clients \ {c} /\ wg' = wg - 1 /\ closed' = closed \union {c}
        /\ UNCHANGED raced
     \/ /\ c \notin clients
        /\ raced' = raced \union {c}
        /\ UNCHANGED <<clients, wg, closed>>
  /\ UNCHANGED <<hub, register, broadcast, stop, send, pumps, log, since, got>>

\* Broken: a message a slow client has no room for is skipped.
SlowNobody == {}

\* The clients that have no room for one message more are dropped.
Slow == {c \in clients : Len(send[c]) >= SendCap}

TakeBroadcast ==
  LET m == Head(broadcast) IN
  /\ hub = "running" /\ broadcast # <<>>
  /\ broadcast' = Tail(broadcast)
  /\ send' = [c \in Clients |-> IF c \in clients /\ Len(send[c]) < SendCap
                                THEN Append(send[c], m) ELSE send[c]]
  /\ closed' = closed \union Slow
  /\ clients' = clients \ Slow
  /\ wg' = wg - Cardinality(Slow)
  /\ log' = Append(log, m)
  /\ UNCHANGED <<hub, register, unregister, stop, pumps, since, got, raced>>

\* Broken: returns without signing its clients off.
TakeShutdownAbrupt ==
  /\ hub = "running" /\ stop # "uncalled"
  /\ hub' = "returned"
  /\ closed' = closed \union clients
  /\ clients' = {}
  /\ UNCHANGED <<wg, channels, stop, send, pumps, hubHistory>>

\* What is still in the channels stays there.
TakeShutdown ==
  /\ hub = "running" /\ stop # "uncalled"
  /\ hub' = "returned"
  /\ closed' = closed \union clients
  /\ wg' = wg - Cardinality(clients)
  /\ clients' = {}
  /\ UNCHANGED <<channels, stop, send, pumps, hubHistory>>

-----------------------------------------------------------------------------
(* Stop, called once at the shutdown of the daemon *)

CallStop ==
  /\ stop = "uncalled"
  /\ stop' = "waiting"
  /\ UNCHANGED <<hub, clients, wg, channels, send, closed, pumps, hubHistory>>

StopReturns ==
  /\ stop = "waiting" /\ wg = 0
  /\ stop' = "returned"
  /\ UNCHANGED <<hub, clients, wg, channels, send, closed, pumps, hubHistory>>

-----------------------------------------------------------------------------
Pump(c) ==
  Post(c) \/ ReadFails(c) \/ Leave(c) \/ Write(c) \/ WriterEnds(c)

HubNext ==
  \/ \E c \in Clients : Connect(c) \/ ConnectionBreaks(c) \/ ReadMessage(c) \/ Pump(c)
  \/ TakeRegister \/ TakeUnregister \/ TakeBroadcast \/ TakeShutdown
  \/ CallStop \/ StopReturns

HubSpec == HubInit /\ [][HubNext]_hubVars

\* select chooses at random among the ready channels, so the shutdown does not wait for ever.
HubFairness == WF_hubVars(TakeShutdown) /\ WF_hubVars(StopReturns)

-----------------------------------------------------------------------------
(* Properties *)

HubTypeOK ==
  /\ hub \in {"running", "returned"}
  /\ clients \subseteq Clients
  /\ wg \in Int
  /\ register \in Seq(Clients) /\ unregister \in Seq(Clients)
  /\ broadcast \in Seq(Nat)
  /\ stop \in {"uncalled", "waiting", "returned"}
  /\ send \in [Clients -> Seq(Nat)]
  /\ closed \subseteq Clients
  /\ up \subseteq Clients
  /\ reader \in [Clients -> {"away", "reading", "posting", "leaving", "gone"}]
  /\ writer \in [Clients -> {"away", "writing", "gone"}]
  /\ held \in [Clients -> Nat]
  /\ sent \in Nat
  /\ log \in Seq(Nat)
  /\ since \in [Clients -> Nat]
  /\ got \in [Clients -> Seq(Nat)]
  /\ raced \subseteq Clients

\* The hub never sends on a closed queue, never closes one twice and never takes
\* wg below zero (each would panic): through slow clients that unregister later,
\* late registrations and the shutdown, a listed client's queue is open, and wg
\* counts exactly the listed clients.
ListedIsOpen ==
  /\ clients \intersect closed = {}
  /\ wg = Cardinality(clients)

\* What a client has got or has queued is, without a gap or a reordering, what
\* was broadcast since it was listed, and all of it as long as it is listed.
NoGaps == \A c \in Clients :
  LET mine == SubSeq(log, since[c] + 1, Len(log))
      received == got[c] \o send[c] IN
  c \in clients \union closed =>
    /\ Len(received) <= Len(mine) /\ received = SubSeq(mine, 1, Len(received))
    /\ c \in clients => received = mine

\* A client that has left and whose unregister was served is listed only if the
\* hub served the two requests in the wrong order: a ghost has no other cause.
GhostsOnlyFromRace == \A c \in clients :
  reader[c] = "gone" /\ (\A i \in 1..Len(unregister) : unregister[i] # c) => c \in raced

\* A listed client misses nothing, and who is not served any more is not listed.
ListedHearAll == NoGaps /\ GhostsOnlyFromRace

\* No Stop waits: it returns, whoever is connected, slow, or about to register.
HubStopIsBack == stop # "waiting"
=============================================================================
