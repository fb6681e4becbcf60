------------------------------- MODULE McpClient -------------------------------
(***************************************************************************)
(* A server of the Model Context Protocol that runs as a child process:    *)
(* how the kernel connects to it and registers its tools                   *)
(* (internal/mcp/skill_adapter.go), the calls of the agent's turns, which  *)
(* share one pipe (client.go), and the server at its other end, which may  *)
(* be any program or AssistClaw itself (server.go).                        *)
(*                                                                         *)
(* The client writes a request and takes the next line for its answer: it  *)
(* never compares the ids, and it has no deadline.  A line is what it      *)
(* answers, with "nothing" for a line nobody asked for, such as a          *)
(* notification.  A server reached over HTTP has a connection for each     *)
(* request, and no pipe.                                                   *)
(***************************************************************************)
EXTENDS Integers, Sequences, FiniteSets

CONSTANTS
  ToolCalls,   \* calls of the server's tools, each in a turn of its own
  MaxStrays    \* bound: lines the server writes unasked

ASSUME McpConfig ==
  /\ MaxStrays \in Nat
  /\ {"initialize", "list", "initialized", "nothing", "free", "unsent", "reading", "error"}
       \cap ToolCalls = {}

\* The requests of RegisterExternalMCPTools and those of the turns.
Requests == {"initialize", "list"} \union ToolCalls

Results == {"answer", "refusal"}

VARIABLES
  transport,   \* "stdio" or "http"
  peer,        \* the program at the other end: "foreign" or "assistclaw"
  serving,     \* the child process runs
  toServer,    \* lines the server has not read
  toClient,    \* lines the client has not read
  jammed,      \* the scanner met a line above its buffer: it reads no more
  holder,      \* who holds the client's mutex, or "free"
  link,        \* what has become of the connection
  hasTools,    \* the server's tools are registered for the agent
  fate,        \* what has become of each request
  strays       \* history: lines written that answer no request

mcpVars == <<transport, peer, serving, toServer, toClient, jammed, holder, link, hasTools,
             fate, strays>>

McpInit ==
  /\ transport \in {"stdio", "http"}
  /\ peer \in {"foreign", "assistclaw"}
  /\ serving = FALSE
  /\ toServer = <<>> /\ toClient = <<>>
  /\ jammed = FALSE
  /\ holder = "free"
  /\ link = "unconnected"
  /\ hasTools = FALSE
  /\ fate = [r \in Requests |-> "unsent"]
  /\ strays = 0

-----------------------------------------------------------------------------
(* The client *)

\* connectStdio starts the child process, connectHTTP nothing.
Connect ==
  /\ link = "unconnected"
  /\ \/ link' = "connecting" /\ serving' = (transport = "stdio")
     \/ link' = "forgotten" /\ transport = "stdio" /\ UNCHANGED serving
  /\ UNCHANGED <<transport, peer, toServer, toClient, jammed, holder, hasTools, fate, strays>>

\* The handshake, then ListTools, then the turns of the agent.
MaySend(r) ==
  /\ fate[r] = "unsent"
  /\ CASE r = "initialize" -> link = "connecting"
       [] r = "list"       -> link = "greeted"
       [] OTHER            -> hasTools /\ link \in {"connected", "closed"}

\* What RegisterExternalMCPTools does with the end of a request.  A client that
\* fails to connect is forgotten with its child running, one that fails to list is
\* closed.  The notification after the handshake is written to the pipe, which an
\* HTTP client has not: it panics.
LinkAfter(r, ok) ==
  CASE r = "initialize" /\ ~ok -> "forgotten"
    [] r = "initialize" /\ ok  -> IF transport = "http" THEN "panicked" ELSE "greeted"
    [] r = "list"              -> IF ok THEN "connected" ELSE "closed"
    [] OTHER                   -> link

\* The call is over: an error, or the result it takes for its own.
Returns(r, outcome, ok) ==
  /\ fate' = [fate EXCEPT ![r] = outcome]
  /\ link' = LinkAfter(r, ok)
  /\ hasTools' = (hasTools \/ (r = "list" /\ ok /\ outcome = "list"))
  /\ serving' = (serving /\ LinkAfter(r, ok) # "closed")

Fails(r) == Returns(r, "error", FALSE)

\* Broken: the mutex guards the writing only.
WriteUnguarded(r) ==
  /\ transport = "stdio" /\ MaySend(r) /\ holder = "free"
  /\ serving
  /\ toServer' = Append(toServer, r)
  /\ fate' = [fate EXCEPT ![r] = "reading"]
  /\ UNCHANGED <<transport, peer, serving, toClient, jammed, holder, link, hasTools, strays>>

\* stdioRPC locks the mutex, for the answer too, and writes.
Write(r) ==
  /\ transport = "stdio" /\ MaySend(r) /\ holder = "free"
  /\ serving
  /\ toServer' = Append(toServer, r)
  /\ fate' = [fate EXCEPT ![r] = "reading"]
  /\ holder' = r
  /\ UNCHANGED <<transport, peer, serving, toClient, jammed, link, hasTools, strays>>

WriteFails(r) ==
  /\ transport = "stdio" /\ MaySend(r) /\ holder = "free"
  /\ ~serving
  /\ Fails(r)
  /\ UNCHANGED <<transport, peer, toServer, toClient, jammed, holder, strays>>

\* The next line, whatever it answers.  The result of another method, or of none,
\* decodes to an empty one.
ReadLine(r) ==
  /\ fate[r] = "reading" /\ toClient # <<>> /\ ~jammed
  /\ LET line == Head(toClient) IN
       /\ line.result # "oversized"
       /\ IF line.result = "answer" THEN Returns(r, line.of, TRUE) ELSE Fails(r)
  /\ toClient' = Tail(toClient)
  /\ holder' = "free"
  \* The notification that the handshake is over.
  /\ toServer' = IF link'= "greeted" /\ link # link' /\ serving
                 THEN Append(toServer, "initialized") ELSE toServer
  /\ UNCHANGED <<transport, peer, jammed, strays>>

\* Scan is false: the pipe has ended, or the line does not fit.
ReadFails(r) ==
  /\ fate[r] = "reading"
  /\ \/ jammed
     \/ toClient = <<>> /\ ~serving
     \/ toClient # <<>> /\ Head(toClient).result = "oversized"
  /\ jammed' = (jammed \/ toClient # <<>>)
  /\ Fails(r)
  /\ holder' = "free"
  /\ UNCHANGED <<transport, peer, toServer, toClient, strays>>

\* httpRPC: a connection of its own.
Exchange(r) ==
  /\ transport = "http" /\ MaySend(r)
  /\ Fails(r) \/ Returns(r, r, TRUE)
  /\ UNCHANGED <<transport, peer, toServer, toClient, jammed, holder, strays>>

\* App.Close, beside the calls that are under way.
CloseClient ==
  /\ link = "connected"
  /\ link' = "closed"
  /\ serving' = FALSE
  /\ UNCHANGED <<transport, peer, toServer, toClient, jammed, holder, hasTools, fate,
                 strays>>

-----------------------------------------------------------------------------
(* The server *)

Line(r, result) == [of |-> r, result |-> result]

\* serveStdio of AssistClaw answers every line, the notification with an empty one.
OwnServerReads ==
  /\ serving /\ peer = "assistclaw" /\ toServer # <<>>
  /\ toServer' = Tail(toServer)
  /\ IF Head(toServer) = "initialized"
     THEN /\ toClient' = Append(toClient, Line("nothing", "answer"))
          /\ strays' = strays + 1
     ELSE /\ toClient' = Append(toClient, Line(Head(toServer), "answer"))
          /\ UNCHANGED strays
  /\ UNCHANGED <<transport, peer, serving, jammed, holder, link, hasTools, fate>>

\* Another server takes the notification for what it is.
ForeignServerReads ==
  /\ serving /\ peer = "foreign" /\ toServer # <<>>
  /\ toServer' = Tail(toServer)
  /\ IF Head(toServer) = "initialized" THEN UNCHANGED toClient
     ELSE \E result \in Results \union {"oversized"} :
            toClient' = Append(toClient, Line(Head(toServer), result))
  /\ UNCHANGED <<transport, peer, serving, jammed, holder, link, hasTools, fate, strays>>

\* It may write a notification, or a line of its log, at any time.
ForeignServerWrites ==
  /\ serving /\ peer = "foreign" /\ transport = "stdio" /\ strays < MaxStrays
  /\ \E result \in Results : toClient' = Append(toClient, Line("nothing", result))
  /\ strays' = strays + 1
  /\ UNCHANGED <<transport, peer, serving, toServer, jammed, holder, link, hasTools, fate>>

\* What it wrote before can still be read.
ServerDies ==
  /\ serving /\ transport = "stdio"
  /\ serving' = FALSE
  /\ UNCHANGED <<transport, peer, toServer, toClient, jammed, holder, link, hasTools, fate,
                 strays>>

-----------------------------------------------------------------------------
ClientStep(r) ==
  Write(r) \/ WriteFails(r) \/ ReadLine(r) \/ ReadFails(r) \/ Exchange(r)

McpNext ==
  \/ \E r \in Requests : ClientStep(r)
  \/ Connect \/ CloseClient
  \/ OwnServerReads \/ ForeignServerReads \/ ForeignServerWrites \/ ServerDies

\* The program goes on, the mutex is passed on, and the server answers what it reads:
\* nothing in the client would end a call that a silent server leaves open.
McpFairness ==
  WF_mcpVars((\E r \in Requests : ClientStep(r)) \/ OwnServerReads \/ ForeignServerReads)

-----------------------------------------------------------------------------
(* Properties *)

McpTypeOK ==
  /\ transport \in {"stdio", "http"} /\ peer \in {"foreign", "assistclaw"}
  /\ serving \in BOOLEAN /\ jammed \in BOOLEAN /\ hasTools \in BOOLEAN
  /\ toServer \in Seq(Requests \union {"initialized"})
  /\ toClient \in Seq([of : Requests \union {"nothing"}, result : Results \union {"oversized"}])
  /\ holder \in Requests \union {"free"}
  /\ link \in {"unconnected", "connecting", "greeted", "connected", "forgotten", "panicked",
               "closed"}
  /\ fate \in [Requests -> {"unsent", "reading", "error", "nothing"} \union Requests]
  /\ strays \in 0..(MaxStrays + 1)

\* The requests that the server has not read.
Asked == {i \in DOMAIN toServer : toServer[i] # "initialized"}

\* A call is given the result of its own request, however the turns interleave, as long
\* as the server writes nothing unasked.
OwnAnswer == \A r \in Requests :
  fate[r] \in Requests \union {"nothing"} => fate[r] = r \/ strays > 0

\* And a line written unasked is never made up for: from then on, whenever nobody waits,
\* there are as many lines on the way as were written unasked, each the answer of a
\* request that has already returned with another's.
StraysRemain == serving /\ ~jammed /\ transport = "stdio" =>
  Len(toClient) + Cardinality(Asked) = strays + (IF holder = "free" THEN 0 ELSE 1)

\* The tools of another AssistClaw are never found: its answer to the notification is
\* taken for the list.
OwnServerIsEmpty == transport = "stdio" /\ peer = "assistclaw" => ~hasTools

\* The answers of one pipe, all three.
McpAnswers == OwnAnswer /\ StraysRemain /\ OwnServerIsEmpty

\* No call is left open.
CallsReturn == \A r \in Requests : fate[r] # "reading"
=============================================================================
