------------------------------ MODULE SubAgents ------------------------------
(***************************************************************************)
(* The sub-agents that the agent creates, runs and removes by its tools    *)
(* (internal/tools/subagent.go, internal/subagents/store.go): a row of     *)
(* registry.json and a workspace each.  The file is shared by every        *)
(* program that runs an agent (the daemon, a chat in a terminal), and each *)
(* of them makes one change at a time.                                     *)
(***************************************************************************)
CONSTANTS
  AgentIds,   \* bound: sub-agents created
  Programs    \* programs that share registry.json

VARIABLES
  registry,   \* registry.json: can it be read, and its sub-agents
  workspaces, \* sub-agents with a SOUL.md
  change,     \* per program its create or remove
  working,    \* sub-agents that run a task
  pulled,     \* history: sub-agents removed under their task
  created,    \* sub-agents ever given an ID
  known,      \* history: sub-agents the users were told exist
  lost        \* history: sub-agents that a named hazard has met

agentsVars == <<registry, workspaces, change, working, pulled, created, known, lost>>

NoChange == [pc |-> "idle", id |-> "", base |-> {}]

AgentsInit ==
  /\ registry = [readable |-> TRUE, agents |-> {}] /\ workspaces = {}
  /\ change = [p \in Programs |-> NoChange]
  /\ working = {} /\ pulled = {}
  /\ created = {} /\ known = {} /\ lost = {}

-----------------------------------------------------------------------------
Readable(s) == [readable |-> TRUE, agents |-> s]

Goes(p, pc) == change[p].pc = pc

\* The workspace comes first; a failure leaves what there is of it.
CreateMakesWorkspace(p) ==
  /\ Goes(p, "idle")
  /\ \E id \in AgentIds \ created :
       /\ created' = created \cup {id}
       /\ \/ /\ workspaces' = workspaces \cup {id}
             /\ change' = [change EXCEPT ![p] = [pc |-> "create", id |-> id, base |-> {}]]
          \/ UNCHANGED <<workspaces, change>>
  /\ UNCHANGED <<registry, working, pulled, known, lost>>

\* A registry that cannot be read is taken for an empty one.
CreateLoads(p) ==
  /\ Goes(p, "create")
  /\ change' = [change EXCEPT ![p] =
                   [pc |-> "register", id |-> change[p].id,
                    base |-> IF registry.readable THEN registry.agents ELSE {}]]
  /\ UNCHANGED <<registry, workspaces, working, pulled, created, known, lost>>

\* Broken: the files go first.
RemoveLoadsAndDeletes(p) ==
  /\ Goes(p, "idle") /\ registry.readable
  /\ \E id \in registry.agents :
       /\ change' = [change EXCEPT ![p] = [pc |-> "deregister", id |-> id,
                                           base |-> registry.agents]]
       /\ workspaces' = workspaces \ {id}
  /\ UNCHANGED <<registry, working, pulled, created, known, lost>>

RemoveLoads(p) ==
  /\ Goes(p, "idle") /\ registry.readable
  /\ \E id \in registry.agents :
       change' = [change EXCEPT ![p] = [pc |-> "deregister", id |-> id, base |-> registry.agents]]
  /\ UNCHANGED <<registry, workspaces, working, pulled, created, known, lost>>

\* What p writes, over what another program has saved since it read.
Register(p) ==
  /\ Goes(p, "register") \/ Goes(p, "deregister")
  /\ LET base == change[p].base
         id == change[p].id
     IN /\ registry' = Readable(IF Goes(p, "register") THEN base \cup {id} ELSE base \ {id})
        /\ lost' = lost \cup (base \ registry.agents) \cup (registry.agents \ base)
        /\ known' = IF Goes(p, "register") THEN known \cup {id} ELSE known \ {id}
        /\ \/ change' = [change EXCEPT ![p] = NoChange]
           \/ Goes(p, "deregister") /\ change' = [change EXCEPT ![p].pc = "delete"]
  /\ UNCHANGED <<workspaces, working, pulled, created>>

\* The write fails, or the program ends, before the file is touched or after it was
\* truncated.
RegisterFails(p) ==
  /\ Goes(p, "register") \/ Goes(p, "deregister")
  /\ \/ UNCHANGED <<registry, lost>>
     \/ registry' = [readable |-> FALSE, agents |-> {}] /\ lost' = created
  /\ change' = [change EXCEPT ![p] = NoChange]
  /\ UNCHANGED <<workspaces, working, pulled, created, known>>

\* A task of the sub-agent may be running there.
DeleteWorkspace(p) ==
  /\ Goes(p, "delete")
  /\ workspaces' = workspaces \ {change[p].id}
  /\ pulled' = pulled \cup (working \cap {change[p].id})
  /\ change' = [change EXCEPT ![p] = NoChange]
  /\ UNCHANGED <<registry, working, created, known, lost>>

\* The program ends before the workspace is gone, or before the sub-agent is registered.
ProgramEnds(p) ==
  /\ ~Goes(p, "idle")
  /\ change' = [change EXCEPT ![p] = NoChange]
  /\ UNCHANGED <<registry, workspaces, working, pulled, created, known, lost>>

\* subagent_run looks the sub-agent up once, and builds its runner on the workspace.
TaskBegins(id) ==
  /\ registry.readable /\ id \in registry.agents \ working
  /\ working' = working \cup {id} /\ pulled' = pulled \ {id}
  /\ UNCHANGED <<registry, workspaces, change, created, known, lost>>

\* Answered, failed, or out of its 20 minutes.
TaskEnds(id) ==
  /\ id \in working /\ working' = working \ {id}
  /\ UNCHANGED <<registry, workspaces, change, pulled, created, known, lost>>

AgentsNext ==
  \/ \E p \in Programs :
       \/ CreateMakesWorkspace(p) \/ CreateLoads(p) \/ RemoveLoads(p)
       \/ Register(p) \/ RegisterFails(p) \/ DeleteWorkspace(p) \/ ProgramEnds(p)
  \/ \E id \in AgentIds : TaskBegins(id) \/ TaskEnds(id)

-----------------------------------------------------------------------------
AgentsTypeOK ==
  /\ registry.readable \in BOOLEAN
  /\ {registry.agents, workspaces, working, pulled, known, lost} \subseteq SUBSET created
  /\ created \subseteq AgentIds
  /\ \A p \in Programs :
       change[p].pc \in {"idle", "create", "register", "deregister", "delete"}

\* A sub-agent that the users were told exists is registered, and no other, and it has its
\* workspace, a running task its own too: but for those that a racing program or a
\* truncated file has met, and for one removed under its task.
AgentsKept ==
  /\ registry.readable => registry.agents \ lost = known \ lost
  /\ (registry.agents \ lost) \cup (working \ (pulled \cup lost)) \subseteq workspaces
=============================================================================
