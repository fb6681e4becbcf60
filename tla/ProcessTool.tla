---------------------------- MODULE ProcessTool ----------------------------
(***************************************************************************)
(* The background processes that the agent's tool "process" starts and     *)
(* stops by name (internal/tools/process.go).  Turns of several sessions   *)
(* call it at once, and share the registry of their daemon.                *)
(***************************************************************************)
CONSTANTS
  ProcNames,  \* names given to processes
  Pids,       \* bound: processes started
  Toolers     \* calls that may run at once

ASSUME ProcessConfig == 0 \notin Pids

VARIABLES
  procs,      \* per name the tracked process, or 0
  live,       \* processes that run
  spawned,    \* processes started so far
  tool,       \* per call where it is
  untracked   \* history: processes that a named hazard took from the registry

processVars == <<procs, live, spawned, tool, untracked>>

NoTool == [pc |-> "idle", name |-> "", pid |-> 0]

ProcessInit ==
  /\ procs = [n \in ProcNames |-> 0] /\ live = {} /\ spawned = {}
  /\ tool = [c \in Toolers |-> NoTool] /\ untracked = {}

-----------------------------------------------------------------------------
(* The probe that asks whether a process is alive sends it the signal nil, *)
(* which is an error for every process.                                    *)

Probe(pid) == FALSE

CallTool(c, op, n) ==
  /\ tool[c].pc = "idle"
  /\ tool' = [tool EXCEPT ![c] = [pc |-> op, name |-> n, pid |-> 0]]
  /\ UNCHANGED <<procs, live, spawned, untracked>>

\* A name in use by a process that the probe finds alive is refused.
StartLooks(c) ==
  /\ tool[c].pc = "start"
  /\ tool' = [tool EXCEPT ![c] = IF Probe(procs[tool[c].name]) THEN NoTool
                                 ELSE [tool[c] EXCEPT !.pc = "spawn"]]
  /\ UNCHANGED <<procs, live, spawned, untracked>>

Spawn(c) ==
  /\ tool[c].pc = "spawn"
  /\ \/ /\ tool' = [tool EXCEPT ![c] = NoTool]
        /\ UNCHANGED <<live, spawned>>
     \/ \E pid \in Pids \ spawned :
          /\ live' = live \cup {pid} /\ spawned' = spawned \cup {pid}
          /\ tool' = [tool EXCEPT ![c] = [pc |-> "add", name |-> @.name, pid |-> pid]]
  /\ UNCHANGED <<procs, untracked>>

\* The registry forgets the process that had the name.
Add(c) ==
  /\ tool[c].pc = "add"
  /\ procs' = [procs EXCEPT ![tool[c].name] = tool[c].pid]
  /\ untracked' = untracked \cup ({procs[tool[c].name]} \ {0})
  /\ tool' = [tool EXCEPT ![c] = NoTool]
  /\ UNCHANGED <<live, spawned>>

StopLooks(c) ==
  /\ tool[c].pc = "stop"
  /\ LET pid == procs[tool[c].name]
     IN tool' = [tool EXCEPT ![c] = IF pid = 0 THEN NoTool
                                    ELSE [pc |-> "kill", name |-> @.name, pid |-> pid]]
  /\ UNCHANGED <<procs, live, spawned, untracked>>

Kill(c) ==
  /\ tool[c].pc = "kill"
  /\ live' = live \ {tool[c].pid}
  /\ tool' = [tool EXCEPT ![c].pc = "unlist"]
  /\ UNCHANGED <<procs, spawned, untracked>>

\* Whatever process has the name by now.
Unlist(c) ==
  /\ tool[c].pc = "unlist"
  /\ procs' = [procs EXCEPT ![tool[c].name] = 0]
  /\ untracked' = untracked \cup ({procs[tool[c].name]} \ {0, tool[c].pid})
  /\ tool' = [tool EXCEPT ![c] = NoTool]
  /\ UNCHANGED <<live, spawned>>

ProcessEnds(pid) ==
  /\ pid \in live /\ live' = live \ {pid}
  /\ UNCHANGED <<procs, spawned, tool, untracked>>

\* The children outlive the daemon.  The next one asks the probe which of the saved
\* processes it may take over.
DaemonRestarts ==
  /\ procs' = [n \in ProcNames |-> IF Probe(procs[n]) THEN procs[n] ELSE 0]
  /\ tool' = [c \in Toolers |-> NoTool]
  /\ untracked' = untracked \cup live
  /\ UNCHANGED <<live, spawned>>

ProcessNext ==
  \/ \E c \in Toolers :
       \/ \E op \in {"start", "stop"}, n \in ProcNames : CallTool(c, op, n)
       \/ StartLooks(c) \/ Spawn(c) \/ Add(c) \/ StopLooks(c) \/ Kill(c) \/ Unlist(c)
  \/ \E pid \in Pids : ProcessEnds(pid)
  \/ DaemonRestarts

-----------------------------------------------------------------------------
ProcessTypeOK ==
  /\ procs \in [ProcNames -> Pids \cup {0}]
  /\ live \subseteq spawned /\ spawned \subseteq Pids /\ untracked \subseteq spawned
  /\ \A c \in Toolers :
       tool[c].pc \in {"idle", "start", "spawn", "add", "stop", "kill", "unlist"}

\* The process has a name in the table, or is about to get it.
Tracked(pid) ==
  \/ \E n \in ProcNames : procs[n] = pid
  \/ \E c \in Toolers : tool[c].pc = "add" /\ tool[c].pid = pid

\* A process that runs can be stopped by its name: but for one whose name was given to
\* another, which no probe prevents, one that a stop of the earlier process of that name
\* has struck off, and one of an earlier daemon.
ProcessesTracked == \A pid \in live \ untracked : Tracked(pid)
=============================================================================
