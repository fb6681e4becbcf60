---------------------------- MODULE DaemonLifecycle ----------------------------
(***************************************************************************)
(* The daemon from "assistclaw start" to its end (cmd/assistclaw/main.go,  *)
(* internal/kernel/app.go, daemon.go, lifecycle_cmd.go, gateway/server.go, *)
(* internal/crashreport): what it builds and starts in which order, the    *)
(* PID file that keeps a second one away, and the shutdown, in the order   *)
(* of the code and then of its deferred calls.                             *)
(*                                                                         *)
(* A turn of the agent is where it came from; at most one is under way per *)
(* daemon.  What a turn does is AgentLoop's.                               *)
(***************************************************************************)
EXTENDS Integers, Sequences, SequencesExt

CONSTANTS
  Daemons,  \* processes that run "start", each with the PID of its own
  NoPid,    \* no PID file, or one without a number
  Origins   \* where turns come from

\* A turn comes from the gateway, a chat channel, a scheduled job, the heartbeat or a rule.
ASSUME LifeConfig ==
  /\ NoPid \notin Daemons
  /\ Origins \subseteq {"http", "channel", "cron", "heartbeat", "rule"}

VARIABLES
  daemon,   \* per daemon what its process holds, see NotStarted
  pidFile,  \* assistclaw.pid
  port,     \* daemon that listens on the gateway's port, or NoPid
  stopCmd,  \* the PID that "stop" has read, or NoPid
  hidden    \* history: daemons whose PID a named hazard has taken from the file

lifeVars == <<daemon, pidFile, port, stopCmd, hidden>>

NotStarted ==
  [stage |-> "new",      \* where the main goroutine is
   deferred |-> <<>>,    \* what its deferred calls release, the last first
   services |-> {},      \* origins from which a turn may begin
   turns |-> {},         \* origins of the turns under way
   memory |-> FALSE,     \* is the episodic memory open?
   signalled |-> FALSE,  \* has SIGINT or SIGTERM cancelled the context?
   err |-> "nil"]        \* how the process ends: "nil", "failed" or "killed"

LifeInit ==
  /\ daemon = [d \in Daemons |-> NotStarted]
  /\ pidFile = NoPid /\ port = NoPid /\ stopCmd = NoPid /\ hidden = {}

Up(d) == daemon[d].stage \notin {"new", "gone"}

-----------------------------------------------------------------------------
(* The end of a process.                                                   *)

\* The turns under way go with it, and so does the listener.
Gone(d, err) ==
  /\ daemon' = [daemon EXCEPT ![d] = [NotStarted EXCEPT !.stage = "gone", !.err = err]]
  /\ port' = IF port = d THEN NoPid ELSE port
  /\ hidden' = hidden \ {d}
  /\ UNCHANGED <<pidFile, stopCmd>>

\* Killed, or by a panic of another goroutine.
Crash(d) == Up(d) /\ Gone(d, "killed")

-----------------------------------------------------------------------------
(* kernel.Build.  A part that is built is released by app.Close when a     *)
(* later one fails.                                                        *)

OpenMemory(d) ==
  /\ daemon[d].stage = "new"
  /\ \/ /\ daemon' = [daemon EXCEPT ![d].stage = "memory", ![d].memory = TRUE]
        /\ UNCHANGED <<pidFile, port, stopCmd, hidden>>
     \/ Gone(d, "failed")

\* No model is configured or it cannot be resolved, or the environment of MemPalace cannot
\* be made.
BuildFails(d) == daemon[d].stage = "memory" /\ Gone(d, "failed")

\* The model is resolved; tools, runner, guardrail and sub-agents cannot fail, and the
\* scheduled jobs run from here on.
WireRunner(d) ==
  /\ daemon[d].stage = "memory"
  /\ daemon' = [daemon EXCEPT ![d].stage = "built", ![d].deferred = <<"app">>,
                              ![d].services = {"cron"} \cap Origins]
  /\ UNCHANGED <<pidFile, port, stopCmd, hidden>>

-----------------------------------------------------------------------------
(* runAgent, as a server.                                                  *)

\* The store of the mails cannot be opened, or its service not be made.
EmailFails(d) ==
  /\ daemon[d].stage = "built"
  /\ daemon' = [daemon EXCEPT ![d].stage = "leaving", ![d].err = "failed"]
  /\ UNCHANGED <<pidFile, port, stopCmd, hidden>>

\* Channels, mail, outboxes, the engine and the heartbeat are started before anybody asks
\* whether a daemon runs.  They end with the context, which may be cancelled already.
EndWithContext == {"channel", "heartbeat", "rule"}

WireServices(d) ==
  /\ daemon[d].stage = "built"
  /\ daemon' = [daemon EXCEPT
       ![d].stage = "wired", ![d].deferred = Append(@, "engine"),
       ![d].services = IF daemon[d].signalled THEN @ ELSE @ \cup (EndWithContext \cap Origins)]
  /\ UNCHANGED <<pidFile, port, stopCmd, hidden>>

\* The number may be another program's by now.
CheckPID(pid, recycled) == pid # NoPid /\ (recycled \/ Up(pid))

\* Broken: the removal is deferred before the check, and the start that is refused makes it.
CheckOtherRemoves(d) ==
  /\ daemon[d].stage = "wired"
  /\ \E recycled \in BOOLEAN :
       daemon' = IF CheckPID(pidFile, recycled)
                 THEN [daemon EXCEPT ![d].stage = "leaving", ![d].err = "failed",
                                     ![d].deferred = Append(@, "pid")]
                 ELSE [daemon EXCEPT ![d].stage = "checked"]
  /\ UNCHANGED <<pidFile, port, stopCmd, hidden>>

\* A second daemon is turned away.
CheckOther(d) ==
  /\ daemon[d].stage = "wired"
  /\ \E recycled \in BOOLEAN :
       daemon' = IF CheckPID(pidFile, recycled)
                 THEN [daemon EXCEPT ![d].stage = "leaving", ![d].err = "failed"]
                 ELSE [daemon EXCEPT ![d].stage = "checked"]
  /\ UNCHANGED <<pidFile, port, stopCmd, hidden>>

\* A write that fails is logged; the file then has no number, or the one it had.  Whoever
\* was in it passed the check at the same time, or is not a daemon that runs.
WritePID(d) ==
  /\ daemon[d].stage = "checked"
  /\ daemon' = [daemon EXCEPT ![d].stage = "serving", ![d].deferred = Append(@, "pid")]
  /\ \/ pidFile' = d /\ hidden' = hidden \cup ({pidFile} \ {NoPid, d})
     \/ pidFile' \in {NoPid, pidFile} /\ hidden' = hidden \cup ({d, pidFile} \ {NoPid})
  /\ UNCHANGED <<port, stopCmd>>

\* Without the port the daemon goes on without a gateway.
GatewayListens(d) ==
  /\ daemon[d].stage \in {"serving", "stopping", "stopped", "waited"} /\ port = NoPid
  /\ port' = d
  /\ daemon' = [daemon EXCEPT ![d].services = @ \cup ({"http"} \cap Origins)]
  /\ UNCHANGED <<pidFile, stopCmd, hidden>>

-----------------------------------------------------------------------------
(* Turns.  Every origin but a rule makes itself a runner of its own by     *)
(* WithSession, with a count of its own.                                   *)

CountedByBase(origin) == origin = "rule"

TurnBegins(d) ==
  /\ daemon[d].turns = {} /\ daemon[d].memory
  /\ \E origin \in daemon[d].services : daemon' = [daemon EXCEPT ![d].turns = {origin}]
  /\ UNCHANGED <<pidFile, port, stopCmd, hidden>>

\* Also of a scheduled job that failed: it is not tried again, whatever its MaxRetries, as
\* its context is cancelled right before the loop leaves on a cancelled context.
TurnEnds(d) ==
  /\ daemon[d].turns # {}
  /\ daemon' = [daemon EXCEPT ![d].turns = {}]
  /\ UNCHANGED <<pidFile, port, stopCmd, hidden>>

-----------------------------------------------------------------------------
(* The shutdown.                                                           *)

\* SIGINT, or SIGTERM of "stop", of the service manager or of the shell.
Signal(d) ==
  /\ Up(d) /\ ~daemon[d].signalled
  /\ daemon' = [daemon EXCEPT ![d].signalled = TRUE, ![d].services = @ \ EndWithContext]
  /\ UNCHANGED <<pidFile, port, stopCmd, hidden>>

\* The channels stop, and so does the scheduler: a job that runs goes on.
StopChannels(d) ==
  /\ daemon[d].stage = "serving" /\ daemon[d].signalled
  /\ daemon' = [daemon EXCEPT ![d].stage = "stopping", ![d].services = @ \ {"cron"}]
  /\ UNCHANGED <<pidFile, port, stopCmd, hidden>>

\* The engine's Stop returns when its dispatcher has: the action of a rule has ended.
AwaitEngine(d) ==
  /\ daemon[d].stage = "stopping" /\ "rule" \notin daemon[d].turns
  /\ daemon' = [daemon EXCEPT ![d].stage = "stopped"]
  /\ UNCHANGED <<pidFile, port, stopCmd, hidden>>

\* The 30 seconds it would give them never pass: after the engine nobody is counted.
WaitForInflight(d) ==
  /\ daemon[d].stage = "stopped"
  /\ \A origin \in daemon[d].turns : ~CountedByBase(origin)
  /\ daemon' = [daemon EXCEPT ![d].stage = "waited"]
  /\ UNCHANGED <<pidFile, port, stopCmd, hidden>>

\* It waits for the requests under way, but not longer than 5 seconds.
StopGateway(d) ==
  /\ daemon[d].stage = "waited"
  /\ daemon' = [daemon EXCEPT ![d].stage = "leaving", ![d].services = @ \ {"http"}]
  /\ port' = IF port = d THEN NoPid ELSE port
  /\ UNCHANGED <<pidFile, stopCmd, hidden>>

-----------------------------------------------------------------------------
(* The deferred calls of runAgent, on every way out of it.                 *)

Releasing(d, what) ==
  /\ daemon[d].stage = "leaving"
  /\ daemon[d].deferred # <<>> /\ Last(daemon[d].deferred) = what

\* The file goes whatever number it has: another's when "stop" has made room for it while
\* this daemon was still at work, or when the other one started at the same time.
RemovePID(d) ==
  /\ Releasing(d, "pid")
  /\ daemon' = [daemon EXCEPT ![d].deferred = Front(@)]
  /\ pidFile' = NoPid
  /\ hidden' = hidden \cup (IF daemon[d].signalled \/ d \in hidden
                            THEN {pidFile} \ {NoPid, d} ELSE {})
  /\ UNCHANGED <<port, stopCmd>>

CancelEngine(d) ==
  /\ Releasing(d, "engine") /\ "rule" \in daemon[d].services
  /\ daemon' = [daemon EXCEPT ![d].services = @ \ {"rule"}]
  /\ UNCHANGED <<pidFile, port, stopCmd, hidden>>

EngineIsDown(d) ==
  /\ Releasing(d, "engine") /\ "rule" \notin daemon[d].services \cup daemon[d].turns
  /\ daemon' = [daemon EXCEPT ![d].deferred = Front(@)]
  /\ UNCHANGED <<pidFile, port, stopCmd, hidden>>

\* app.Close: the scheduler, the MCP servers, the memory.
CloseApp(d) ==
  /\ Releasing(d, "app")
  /\ daemon' = [daemon EXCEPT ![d].deferred = Front(@), ![d].services = @ \ {"cron"},
                              ![d].memory = FALSE]
  /\ UNCHANGED <<pidFile, port, stopCmd, hidden>>

\* A panic runs the deferred calls; the last of them recovers it, so that crashreport.Recover,
\* which would write the report and panic again, finds nothing to recover: no report, and the
\* error is nil as after a shutdown.
MainPanics(d) ==
  /\ Up(d) /\ daemon[d].stage # "leaving"
  /\ daemon' = [daemon EXCEPT ![d].stage = "leaving"]
  /\ UNCHANGED <<pidFile, port, stopCmd, hidden>>

ReturnFromMain(d) ==
  /\ daemon[d].stage = "leaving" /\ daemon[d].deferred = <<>>
  /\ Gone(d, daemon[d].err)

-----------------------------------------------------------------------------
(* "assistclaw stop".                                                      *)

StopReads ==
  /\ stopCmd = NoPid /\ pidFile # NoPid
  /\ stopCmd' = pidFile
  /\ UNCHANGED <<daemon, pidFile, port, hidden>>

\* The file goes at once, while the daemon is still at work, and whatever number it has by
\* now.  It stays when the process ends between the check and the signal.
StopActs ==
  /\ stopCmd # NoPid /\ stopCmd' = NoPid
  /\ IF Up(stopCmd)
     THEN daemon' = [daemon EXCEPT ![stopCmd].signalled = TRUE,
                                   ![stopCmd].services = @ \ EndWithContext]
     ELSE UNCHANGED daemon
  /\ \/ pidFile' = NoPid /\ hidden' = hidden \cup ({pidFile} \ {NoPid, stopCmd})
     \/ ~Up(stopCmd) /\ UNCHANGED <<pidFile, hidden>>
  /\ UNCHANGED port

LifeStep(d) ==
  \/ Crash(d) \/ OpenMemory(d) \/ BuildFails(d) \/ WireRunner(d)
  \/ EmailFails(d) \/ WireServices(d) \/ CheckOther(d) \/ WritePID(d) \/ GatewayListens(d)
  \/ TurnBegins(d) \/ TurnEnds(d) \/ Signal(d)
  \/ StopChannels(d) \/ AwaitEngine(d) \/ WaitForInflight(d) \/ StopGateway(d)
  \/ RemovePID(d) \/ CancelEngine(d) \/ EngineIsDown(d) \/ CloseApp(d)
  \/ MainPanics(d) \/ ReturnFromMain(d)

LifeNext == (\E d \in Daemons : LifeStep(d)) \/ StopReads \/ StopActs

\* The main goroutine goes on, and a turn comes to an end (AgentLoop).
GoesOn(d) ==
  /\ Up(d)
  /\ \/ WireRunner(d) \/ WireServices(d) \/ CheckOther(d) \/ WritePID(d)
     \/ StopChannels(d) \/ AwaitEngine(d) \/ WaitForInflight(d) \/ StopGateway(d)
     \/ RemovePID(d) \/ CancelEngine(d) \/ EngineIsDown(d) \/ CloseApp(d) \/ ReturnFromMain(d)

LifeFairness ==
  \A d \in Daemons : WF_lifeVars(GoesOn(d)) /\ WF_lifeVars(TurnEnds(d))

-----------------------------------------------------------------------------
LifeTypeOK ==
  /\ pidFile \in Daemons \cup {NoPid} /\ port \in Daemons \cup {NoPid}
  /\ stopCmd \in Daemons \cup {NoPid} /\ hidden \subseteq Daemons
  /\ \A d \in Daemons :
       /\ daemon[d].stage \in {"new", "memory", "built", "wired", "checked", "serving",
                               "stopping", "stopped", "waited", "leaving", "gone"}
       /\ daemon[d].services \subseteq Origins /\ daemon[d].turns \subseteq Origins

\* The PID file names the daemon that serves, so that "stop" finds it and a second one is
\* turned away, unless one of the hazards of the file (two starts at once, a write that
\* fails, a stop or a deferred removal of another daemon) has struck it; it never names one
\* that ended by itself, so that the next start is not turned away; and on every way out of
\* runAgent the action of a rule is over before the memory it writes to is closed.
DaemonKept ==
  \A d \in Daemons :
    /\ daemon[d].stage = "serving" /\ ~daemon[d].signalled /\ d \notin hidden => pidFile = d
    /\ pidFile = d => Up(d) \/ daemon[d].err = "killed"
    /\ "rule" \in daemon[d].turns => daemon[d].memory

\* A daemon that was told to stop, or that leaves, is gone in the end.
DaemonsEnd ==
  \A d \in Daemons : daemon[d].signalled \/ daemon[d].stage = "leaving" => ~Up(d)
=============================================================================
