------------------------------- MODULE MCDaemon -------------------------------
(***************************************************************************)
(* What runs and keeps state in the daemon beside a conversation: the      *)
(* stores (conversation history, index of the notes with the cutting of a  *)
(* note into chunks, audit log), the hub of the gateway, the proactive     *)
(* engine with the breaker of a trigger, the calendar's trigger, the       *)
(* watchers of a mailbox, the files that several programs rewrite          *)
(* (settings, scheduled jobs, rules, a skill, the local model), the tables *)
(* of background processes and of sub-agents, and the daemon's own start   *)
(* and end.  They share no state: a behaviour is one of them, "part",      *)
(* while the others stay as they were started.                             *)
(***************************************************************************)
EXTENDS EpisodicMemory, SemanticIndex, Chunker, AuditLog, GatewayHub, ProactiveEngine,
        CircuitBreaker, CalendarTrigger, MailWatch, ConfigFile, CronJobs, RuleFile,
        SkillStore, ModelDownload, ProcessTool, SubAgents, DaemonLifecycle, TLC

CONSTANTS trigA, trigB, rule1

\* Rules under one ID: for every trigger, for the one behind a breaker, disabled,
\* choosy, and for a trigger that nobody registered.
always == [id |-> rule1, trigger |-> Anything, match |-> FALSE, cooldown |-> 1, enabled |-> TRUE]
behind == [id |-> rule1, trigger |-> <<trigB, "+cb">>, match |-> FALSE, cooldown |-> 0,
           enabled |-> TRUE]
off    == [always EXCEPT !.enabled = FALSE]
choosy == [id |-> rule1, trigger |-> <<trigA, "">>, match |-> TRUE, cooldown |-> 2,
           enabled |-> TRUE]
wrong  == [choosy EXCEPT !.trigger = <<trigB, "">>]

ruleFiles == {<<>>, <<always, behind>>, <<off, choosy>>, <<wrong>>}

VARIABLE part

storeVars   == <<episodicVars, semanticVars, chunkerVars, auditVars>>
serviceVars == <<hubVars, engineVars, breakerVars, calendarVars, mailVars>>
fileVars    == <<configVars, cronVars, ruleFileVars, skillVars, modelVars>>
hostVars    == <<processVars, agentsVars, lifeVars>>
vars        == <<part, storeVars, serviceVars, fileVars, hostVars>>

Init ==
  /\ part \in {"episodic", "semantic", "chunker", "audit", "hub", "engine", "breaker", "calendar",
              "mail", "config", "cron", "rules", "skill", "model", "process", "agents", "life"}
  /\ EpisodicInit /\ SemanticInit /\ AuditInit /\ HubInit /\ BreakerInit
  /\ ChunkerInit /\ (part # "chunker" => note = <<0>> /\ overlap = 0)
  /\ EngineInit /\ (part # "engine" => event = trigA)
  /\ MailInit /\ (part # "mail" => backend = "imap" /\ mails = 0)
  /\ CalendarInit /\ (part # "calendar" => \A m \in Meetings : startsAt[m] = 1)
  /\ ConfigInit /\ (part # "config" => settings.state = "missing")
  /\ RuleFileInit /\ (part # "rules" => ruleFile.state = "missing")
  /\ SkillStoreInit /\ (part # "skill" => bundled)
  /\ ModelDownloadInit /\ (part # "model" => digest)
  /\ CronInit /\ ProcessInit /\ AgentsInit /\ LifeInit

Next ==
  \/ /\ part = "episodic" /\ EpisodicNext
     /\ UNCHANGED <<part, semanticVars, chunkerVars, auditVars, serviceVars, fileVars, hostVars>>
  \/ /\ part = "semantic" /\ SemanticNext
     /\ UNCHANGED <<part, episodicVars, chunkerVars, auditVars, serviceVars, fileVars, hostVars>>
  \/ /\ part = "chunker" /\ ChunkMarkdown
     /\ UNCHANGED <<part, episodicVars, semanticVars, auditVars, serviceVars, fileVars, hostVars>>
  \/ /\ part = "audit" /\ AuditNext
     /\ UNCHANGED <<part, episodicVars, semanticVars, chunkerVars, serviceVars, fileVars, hostVars>>
  \/ /\ part = "hub" /\ HubNext
     /\ UNCHANGED <<part, engineVars, breakerVars, calendarVars, mailVars>>
     /\ UNCHANGED <<storeVars, fileVars, hostVars>>
  \/ /\ part = "engine" /\ EngineNext
     /\ UNCHANGED <<part, hubVars, breakerVars, calendarVars, mailVars>>
     /\ UNCHANGED <<storeVars, fileVars, hostVars>>
  \/ /\ part = "breaker" /\ BreakerNext
     /\ UNCHANGED <<part, hubVars, engineVars, calendarVars, mailVars>>
     /\ UNCHANGED <<storeVars, fileVars, hostVars>>
  \/ /\ part = "calendar" /\ CalendarNext
     /\ UNCHANGED <<part, hubVars, engineVars, breakerVars, mailVars>>
     /\ UNCHANGED <<storeVars, fileVars, hostVars>>
  \/ /\ part = "mail" /\ MailNext
     /\ UNCHANGED <<part, hubVars, engineVars, breakerVars, calendarVars>>
     /\ UNCHANGED <<storeVars, fileVars, hostVars>>
  \/ /\ part = "config" /\ ConfigNext
     /\ UNCHANGED <<part, cronVars, ruleFileVars, skillVars, modelVars>>
     /\ UNCHANGED <<storeVars, serviceVars, hostVars>>
  \/ /\ part = "cron" /\ CronNext
     /\ UNCHANGED <<part, configVars, ruleFileVars, skillVars, modelVars>>
     /\ UNCHANGED <<storeVars, serviceVars, hostVars>>
  \/ /\ part = "rules" /\ RuleFileNext
     /\ UNCHANGED <<part, configVars, cronVars, skillVars, modelVars>>
     /\ UNCHANGED <<storeVars, serviceVars, hostVars>>
  \/ /\ part = "skill" /\ SkillStoreNext
     /\ UNCHANGED <<part, configVars, cronVars, ruleFileVars, modelVars>>
     /\ UNCHANGED <<storeVars, serviceVars, hostVars>>
  \/ /\ part = "model" /\ ModelDownloadNext
     /\ UNCHANGED <<part, configVars, cronVars, ruleFileVars, skillVars>>
     /\ UNCHANGED <<storeVars, serviceVars, hostVars>>
  \/ /\ part = "process" /\ ProcessNext
     /\ UNCHANGED <<part, agentsVars, lifeVars, storeVars, serviceVars, fileVars>>
  \/ /\ part = "agents" /\ AgentsNext
     /\ UNCHANGED <<part, processVars, lifeVars, storeVars, serviceVars, fileVars>>
  \/ /\ part = "life" /\ LifeNext
     /\ UNCHANGED <<part, processVars, agentsVars, storeVars, serviceVars, fileVars>>

\* Nothing fair is enabled in the initial state of a part that does not run.
Spec ==
  /\ Init /\ [][Next]_vars
  /\ EpisodicFairness /\ HubFairness /\ EngineFairness /\ LifeFairness

\* Every variable of every part keeps its type.
TypeOK ==
  /\ EpisodicTypeOK /\ SemanticTypeOK /\ ChunkerTypeOK /\ AuditTypeOK
  /\ HubTypeOK /\ EngineTypeOK /\ BreakerTypeOK /\ CalendarTypeOK /\ MailTypeOK
  /\ ConfigTypeOK /\ CronTypeOK /\ RuleFileTypeOK /\ SkillStoreTypeOK /\ ModelDownloadTypeOK
  /\ ProcessTypeOK /\ AgentsTypeOK /\ LifeTypeOK

\* The engine's pauses are kept: a trigger that failed waits before it runs again, and a rule
\* that fired until its cooldown is over.
PausesAreKept == WaitsBeforeRetry /\ CooldownHolds

\* What several programs rewrite, each in a process of its own: the settings, the scheduled
\* jobs, the rules, a skill's directory and the local model.
FilesKept == ConfigKept /\ CronJobsKept /\ RulesKept /\ SkillsAreWhole /\ ModelIsWhole

\* The tables of the background processes and of the sub-agents tell the truth.
RegistriesKept == ProcessesTracked /\ AgentsKept

\* A shutdown comes to an end: the history's writer has put away what it accepted,
\* the Stop of the hub and of the engine return, and the process is gone.
ServicesStop == []<>(AcceptedIsWritten /\ HubStopIsBack /\ EngineStopIsBack /\ DaemonsEnd)
=============================================================================
