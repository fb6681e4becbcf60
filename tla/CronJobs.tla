------------------------------- MODULE CronJobs -------------------------------
(***************************************************************************)
(* The scheduled jobs in cron_jobs.json: the commands "cron add / remove"  *)
(* (cmd/assistclaw/cron_cmd.go) and the agent's tool of that name          *)
(* (internal/tools/cron.go) both rewrite the file, each by its own schema, *)
(* and the daemon (internal/cron/cron.go) reads it when it starts.  A run  *)
(* of a job is a turn of DaemonLifecycle.                                  *)
(*                                                                         *)
(* A job is [kind, key, when]: a "prompt" with its ID, or a "command" with *)
(* its name; a key of "" is what is left of a job of the other schema, of  *)
(* which only the schedule is common.  Jobs without a key are taken as one *)
(* per schedule.  Jobs of the settings are left out.                       *)
(***************************************************************************)
EXTENDS Integers

CONSTANTS
  Ids,          \* IDs that "cron add" gives out
  Names,        \* names the agent gives its jobs
  Calls,        \* calls of the tool that may run at once
  MaxCronCalls  \* bound: commands and calls

\* An ID and a name belong to different schemas.
ASSUME CronConfig ==
  "" \notin Ids \cup Names /\ Ids \cap Names = {} /\ MaxCronCalls \in Nat

VARIABLES
  cronFile,  \* cron_jobs.json: can it be read, and its jobs
  shell,     \* the command that runs beside the daemon
  call,      \* per call of the tool where it is
  agenda,    \* the daemon's jobs, or {} while it is down
  daemonUp,  \* the daemon runs
  loaded,    \* the tool's scheduler was started
  entries,   \* the tool's scheduler: pairs <<name, number>>
  nextID,    \* the number of its next entry; those it starts with have the first
  jobs,      \* cronJobs: per name the number of its entry, 0 for none
  defs,      \* cronJobDefs: the jobs to save
  cronEdits, \* number of commands and calls so far
  told,      \* history: keys of the jobs the users were told exist
  spoiled    \* history: keys that a named hazard has met

cronVars ==
  <<cronFile, shell, call, agenda, daemonUp, loaded, entries, nextID, jobs, defs, cronEdits,
    told, spoiled>>

toolVars == <<call, loaded, entries, nextID, jobs, defs>>

Job(kind, key, when) == [kind |-> kind, key |-> key, when |-> when]

\* Schedules are of six fields, or of five, which neither scheduler takes.
Jobs == [kind : {"prompt", "command"}, key : Ids \cup Names \cup {""}, when : {"six", "five"}]

\* What a reader of one schema finds in the file.
Read(kind, f) ==
  IF f.readable THEN {IF j.kind = kind THEN j ELSE Job(kind, "", j.when) : j \in f.jobs} ELSE {}

KeysOf(kind, js) == {j.key : j \in {j \in js : j.kind = kind}} \ {""}

Keys(js) == KeysOf("prompt", js) \cup KeysOf("command", js)

Unlike(a, b) == (a \ b) \cup (b \ a)

NoShell == [pc |-> "idle", key |-> "", adds |-> FALSE, base |-> {}, next |-> {}]

NoCall == [pc |-> "idle", key |-> "", adds |-> FALSE, when |-> "six", number |-> 0, data |-> {}]

CronInit ==
  /\ cronFile = [readable |-> FALSE, jobs |-> {}]
  /\ shell = NoShell /\ call = [c \in Calls |-> NoCall]
  /\ agenda = {} /\ daemonUp = FALSE /\ loaded = FALSE
  /\ entries = {} /\ nextID = 1 /\ jobs = [n \in Names \cup {""} |-> 0] /\ defs = {}
  /\ cronEdits = 0
  /\ told = {} /\ spoiled = {}

-----------------------------------------------------------------------------
(* "cron add" and "cron remove".  A missing file is one without jobs.      *)

Missing(f) == ~f.readable /\ told = {}

CommandReads ==
  /\ shell.pc = "idle" /\ cronEdits < MaxCronCalls /\ cronEdits' = cronEdits + 1
  /\ cronFile.readable \/ Missing(cronFile)
  /\ LET base == Read("prompt", cronFile)
     IN \/ \E id \in Ids \ (told \cup spoiled \cup Keys(cronFile.jobs)), when \in {"six", "five"} :
             shell' = [pc |-> "write", key |-> id, adds |-> TRUE, base |-> cronFile.jobs,
                       next |-> base \cup {Job("prompt", id, when)}]
        \/ \E id \in KeysOf("prompt", base) :
             shell' = [pc |-> "write", key |-> id, adds |-> FALSE, base |-> cronFile.jobs,
                       next |-> {j \in base : j.key # id}]
  /\ UNCHANGED <<cronFile, toolVars, agenda, daemonUp, told, spoiled>>

\* It writes over what the tool saved since, and keeps of the tool's jobs no more than the
\* schedule.
CommandWrites ==
  /\ shell.pc = "write"
  /\ cronFile' = [readable |-> TRUE, jobs |-> shell.next]
  /\ told' = IF shell.adds THEN told \cup {shell.key} ELSE told \ {shell.key}
  /\ spoiled' = spoiled \cup KeysOf("command", cronFile.jobs \cup shell.base)
                  \cup Unlike(Keys(cronFile.jobs), Keys(shell.base))
  /\ shell' = NoShell
  /\ UNCHANGED <<toolVars, agenda, daemonUp, cronEdits>>

\* The command reports that the file could not be written, or is ended itself; the file may be
\* left truncated, which nobody can read.
CommandFails ==
  /\ shell.pc = "write" /\ shell' = NoShell
  /\ \/ UNCHANGED <<cronFile, spoiled>>
     \/ cronFile' = [readable |-> FALSE, jobs |-> {}] /\ spoiled' = Ids \cup Names
  /\ UNCHANGED <<toolVars, agenda, daemonUp, cronEdits, told>>

-----------------------------------------------------------------------------
(* The daemon.                                                             *)

DaemonStarts ==
  /\ ~daemonUp /\ daemonUp' = TRUE
  /\ agenda' = {j \in Read("prompt", cronFile) : j.when = "six"}
  /\ UNCHANGED <<cronFile, shell, toolVars, cronEdits, told, spoiled>>

\* With the process goes the tool's scheduler; the file stays as it is.
DaemonEnds ==
  /\ daemonUp /\ daemonUp' = FALSE
  /\ agenda' = {}
  /\ loaded' = FALSE /\ entries' = {} /\ nextID' = 1
  /\ jobs' = [n \in Names \cup {""} |-> 0] /\ defs' = {}
  /\ call' = [c \in Calls |-> NoCall]
  /\ UNCHANGED <<cronFile, shell, cronEdits, told, spoiled>>

-----------------------------------------------------------------------------
(* The tool.  Its scheduler starts with the first call after the daemon.   *)

othersVars == <<shell, agenda, daemonUp>>

CallAt(c, pc) == daemonUp /\ call[c].pc = pc

\* Jobs of the file that parse, by this schema.
Persisted == {j \in Read("command", cronFile) : j.when = "six"}

CallBegins(c) ==
  /\ CallAt(c, "idle") /\ cronEdits < MaxCronCalls /\ cronEdits' = cronEdits + 1
  /\ \E name \in Names, adds \in BOOLEAN, when \in {"six", "five"} :
       /\ adds \/ when = "six"
       /\ call' = [call EXCEPT ![c] = [NoCall EXCEPT !.pc = "look", !.key = name,
                                                     !.adds = adds, !.when = when]]
       /\ spoiled' = IF \E d \in Calls : call[d].pc # "idle" /\ call[d].key = name
                     THEN spoiled \cup {name} ELSE spoiled
  /\ IF loaded
     THEN UNCHANGED <<loaded, entries, nextID, jobs, defs>>
     ELSE /\ loaded' = TRUE
          /\ defs' = Persisted
          /\ entries' = {<<j.key, 1>> : j \in Persisted} /\ nextID' = 2
          /\ jobs' = [n \in DOMAIN jobs |-> IF \E j \in Persisted : j.key = n THEN 1 ELSE 0]
  /\ UNCHANGED <<cronFile, othersVars, told>>

\* remove answers that there is no such job; add has nothing to displace.
Look(c) ==
  /\ CallAt(c, "look")
  /\ LET now == call[c]
     IN call' = [call EXCEPT ![c] =
          IF jobs[now.key] # 0 THEN [now EXCEPT !.pc = "displace", !.number = jobs[now.key]]
          ELSE IF now.adds THEN [now EXCEPT !.pc = "schedule"]
          ELSE NoCall]
  /\ UNCHANGED <<cronFile, loaded, entries, nextID, jobs, defs, cronEdits>>
  /\ UNCHANGED <<othersVars, told, spoiled>>

\* The entry found goes, and the name with it: remove forgets the definition as well.
Displace(c) ==
  /\ CallAt(c, "displace")
  /\ LET name == call[c].key
     IN /\ entries' = entries \ {<<name, call[c].number>>}
        /\ jobs' = [jobs EXCEPT ![name] = 0]
        /\ defs' = IF call[c].adds THEN defs ELSE {j \in defs : j.key # name}
        /\ call' = [call EXCEPT ![c].pc = IF call[c].adds THEN "schedule" ELSE "save"]
  /\ UNCHANGED <<cronFile, loaded, nextID, cronEdits, othersVars, told, spoiled>>

\* A schedule that does not parse is refused after the old job was displaced.
Schedule(c) ==
  /\ CallAt(c, "schedule")
  /\ IF call[c].when = "five"
     THEN /\ call' = [call EXCEPT ![c] = NoCall]
          /\ spoiled' = spoiled \cup {call[c].key}
          /\ UNCHANGED <<entries, nextID>>
     ELSE /\ call' = [call EXCEPT ![c].pc = "record", ![c].number = nextID]
          /\ entries' = entries \cup {<<call[c].key, nextID>>}
          /\ nextID' = nextID + 1
          /\ UNCHANGED spoiled
  /\ UNCHANGED <<cronFile, loaded, jobs, defs, cronEdits, othersVars, told>>

Record(c) ==
  /\ CallAt(c, "record")
  /\ jobs' = [jobs EXCEPT ![call[c].key] = call[c].number]
  /\ defs' = {j \in defs : j.key # call[c].key} \cup {Job("command", call[c].key, "six")}
  /\ call' = [call EXCEPT ![c].pc = "save"]
  /\ UNCHANGED <<cronFile, loaded, entries, nextID, cronEdits, othersVars, told, spoiled>>

\* saveJobs collects the definitions, and writes them.
SaveJobs(c) ==
  /\ CallAt(c, "save")
  /\ call' = [call EXCEPT ![c].pc = "write", ![c].data = defs]
  /\ UNCHANGED <<cronFile, loaded, entries, nextID, jobs, defs, cronEdits>>
  /\ UNCHANGED <<othersVars, told, spoiled>>

ToldAfter(c) == IF call[c].adds THEN told \cup {call[c].key} ELSE told \ {call[c].key}

\* Keys of the tool's jobs that the data misses: recorded or removed since, or in the file
\* and not with the tool.
Crossed(c) ==
  LET data == KeysOf("command", call[c].data)
  IN Unlike(data, KeysOf("command", defs))
       \cup (Unlike(data, KeysOf("command", cronFile.jobs)) \ {call[c].key})

\* Nothing of the prompts that the commands added is kept.
WriteJobs(c) ==
  /\ CallAt(c, "write")
  /\ cronFile' = [readable |-> TRUE, jobs |-> call[c].data]
  /\ spoiled' = spoiled \cup KeysOf("prompt", cronFile.jobs) \cup Crossed(c)
  /\ told' = ToldAfter(c)
  /\ call' = [call EXCEPT ![c] = NoCall]
  /\ UNCHANGED <<loaded, entries, nextID, jobs, defs, cronEdits, othersVars>>

\* The error of the write is ignored; it, or the end of the process, may leave the file
\* truncated.
SaveFails(c) ==
  /\ CallAt(c, "write")
  /\ \/ UNCHANGED cronFile /\ spoiled' = spoiled \cup {call[c].key}
     \/ cronFile' = [readable |-> FALSE, jobs |-> {}] /\ spoiled' = Ids \cup Names
  /\ told' = ToldAfter(c)
  /\ call' = [call EXCEPT ![c] = NoCall]
  /\ UNCHANGED <<loaded, entries, nextID, jobs, defs, cronEdits, othersVars>>

CronNext ==
  \/ CommandReads \/ CommandWrites \/ CommandFails
  \/ DaemonStarts \/ DaemonEnds
  \/ \E c \in Calls :
       \/ CallBegins(c) \/ Look(c) \/ Displace(c) \/ Schedule(c) \/ Record(c)
       \/ SaveJobs(c) \/ WriteJobs(c) \/ SaveFails(c)

-----------------------------------------------------------------------------
CronTypeOK ==
  /\ cronFile.readable \in BOOLEAN /\ cronFile.jobs \subseteq Jobs
  /\ shell.pc \in {"idle", "write"} /\ shell.next \subseteq Jobs
  /\ \A c \in Calls :
       call[c].pc \in {"idle", "look", "displace", "schedule", "record", "save", "write"}
  /\ agenda \subseteq Jobs /\ defs \subseteq Jobs /\ {daemonUp, loaded} \subseteq BOOLEAN
  /\ entries \subseteq (Names \cup {""}) \X Nat /\ nextID \in Nat
  /\ jobs \in [Names \cup {""} -> Nat]
  /\ cronEdits \in 0..MaxCronCalls
  /\ told \subseteq Ids \cup Names /\ spoiled \subseteq Ids \cup Names

AtRest == shell.pc = "idle" /\ \A c \in Calls : call[c].pc = "idle"

\* While nothing runs, the file has the jobs that the users were told of, and the tool's
\* scheduler one entry for each of its own, which it can remove: but for the jobs that a
\* writer of the other schema has emptied, that a racing writer or a second call for the name
\* has crossed, that a refused schedule has displaced, or whose write failed.
CronJobsKept ==
  AtRest =>
    /\ Keys(cronFile.jobs) \ spoiled = told \ spoiled
    /\ loaded => \A n \in Names \ spoiled :
         {e \in entries : e[1] = n} = IF n \in told THEN {<<n, jobs[n]>>} ELSE {}
=============================================================================
