# Formal models of AssistClaw

TLA+ specifications of the parts of AssistClaw that keep state and meet concurrency,
failure or restarts, with TLC runs on small instances and TLAPS proofs for every
instance. Paths are relative to the repository's root; `PROJECT.json` maps every
definition to the lines it models.

    tlc -workers 2 -config Daemon.cfg MCDaemon.tla
    tlapm StoreProofs.tla

## 1. Inventory of the system

AssistClaw is a Go daemon (some 35k lines under `internal/`, 10k of command line):
chat channels feed an agent loop with tools, memory and LLM providers; triggers,
schedules and mailboxes make it act on its own, and it reports back to the channels.
Commands of the CLI run in processes of their own on the same files and databases.

| Component | State it keeps | What is hard | What makes it correct | Module |
|---|---|---|---|---|
| `channels/adapter` reliability wrapper | circuit breaker, dead-letter file | late reports of other calls, clock read before the lock, cancel during backoff | breaker opens only on failures in a row and always recovers; the file is truthful | `ReliableSender` |
| `proactive/outbox` | SQLite table of notifications | crash between send and delete, one context for send and SQL, several workers on one table | at-least-once until the retry cap; the table drains | `Outbox` |
| `email` goals and approvals | goals, drafts, mails in `email.db` | five kinds of actors, two programs that both run the service, no transactions, LLM calls between read and write | one draft per mail; a program adds no follow-up to one of its own; approval sends what is pending; cancel is final | `EmailGoals` |
| `email` watchers and pipeline | a cursor per account, mails, drafts | failures and crashes within a poll, first sync, two watchers on one cursor | no mail passed over, one draft each | `MailWatch` |
| `proactive` engine and triggers | rules, cooldowns, event channel, breakers, announced meetings | full channel, slow actions, overflow of a backoff shift, moved meetings | pauses are kept; meetings are announced once and in time; `Stop` returns | `ProactiveEngine`, `CircuitBreaker`, `CalendarTrigger` |
| `gateway` hub and server | clients, send queues | order of two channels, slow clients, shutdown | a queue is closed once; a listed client misses nothing | `GatewayHub` |
| `agent` runner, working memory | messages, token count, plan | turns side by side, compaction between call and result, limits | calls and results stay paired; a turn ends once | `AgentLoop`, `WireMessages` |
| `provider` failover, registry, vendors | breakers, catalog of models, streams | stale reports, outages, cut connections, a model another provider does not have, one that cannot stream | every primary is tried; a reply is the vendor's; a resolved name is served | `FailoverProvider`, `ProviderWiring`, `ModelStream` |
| channels and `channels/buffer` | slots, streaming buffer | two semaphores, timers against pushes, text told after the end of a turn | every event is answered; text is sent once, in order | `ChannelInbound`, `StreamingBuffer` |
| `memory` history | write queue, SQLite | save during close, failed batch, deletion of a session | an accepted message is in one place; forgotten is forgotten | `EpisodicMemory` |
| `memory` notes, `embeddings` | documents, vectors | half-done indexing, reused rowids, changed backends | a skipped file is indexed; a chunk has its own vector | `SemanticIndex`, `Chunker`, `Embedders` |
| `security` audit log | hash chain, number | processes side by side, torn lines | a lone process writes a chain; the verifier calls nothing else one | `AuditLog` |
| `mcp` client and server | pipe, request ids | stray lines, shared pipe | an answer is that of its call | `McpClient` |
| settings, jobs, rules, skills, model file | a file or directory each | several programs rewrite them without a lock, end half-way, and load them expanded | nobody loses what he did not touch | `ConfigFile`, `CronJobs`, `RuleFile`, `SkillStore`, `ModelDownload` |
| background processes, sub-agents | a table each | calls of several turns and programs | the table tells the truth | `ProcessTool`, `SubAgents` |
| start and end of the daemon | PID file, port, deferred calls | two daemons, stop, crashes | the PID file names who serves; things are closed after their users | `DaemonLifecycle` |

Interaction: a trigger emits an `Event`; the engine matches rules and calls notifiers;
a notifier is an `Outbox` around a channel, whose adapter may be wrapped by
`ReliableSender`. A channel hands a message to a turn of the agent, which asks the
failover provider, runs tools (some on MCP servers) and answers over the channel, through
the buffer. The mail watchers, the follow-up loop, the chat handlers and the CLI share
`email.db`; CLI, daemon and chats in a terminal share the files in the state directory.

The complete list, with what is left out and why, is under `components` in
`PROJECT.json`; the places where this code is hard to test are under `hazards`.

## 2. Modules

| Module | What it is |
|---|---|
| `Delivery` | abstract contract of anything that delivers messages |
| one per row above | the component; see the comment at its head |
| `MCReliableSender`, `MCOutbox`, `MCEmailGoals` | instances for TLC: model values and symmetry |
| `MCConversation` | composes what answers a chat message: `AgentLoop`, `WireMessages`, `FailoverProvider`, `ModelStream`, `StreamingBuffer`, `ChannelInbound`, `McpClient`, `Embedders`, `ProviderWiring` |
| `MCDaemon` | composes what keeps state beside a conversation: the other modules |
| `*Proofs` | inductive invariants, lemmas, theorems |

In `MCConversation` and `MCDaemon` a behaviour is one of one `part`; the other parts stay as
they were started. The parts share no variable. What one needs of another it takes as
open: a request ends in a reply, an error or nothing in `AgentLoop`; a turn says some
pieces of text and ends in `ChannelInbound`; a tool answers or fails. So the runs
are sums of the parts' state spaces, not products, and a property of one part is one of
the composed specification.

Definitions whose comment starts with "Broken:" are plausible faults of a definition of
the code; nothing uses them. Each is listed under `mutants` with the
property that detects it, which shows that the property depends on the code.

### Delivery

Each message is new, open, delivered, parked (on disk for the operator) or abandoned.
Only an open message is handed to the peer; it is confirmed only after the peer took
it; it is abandoned only after `Patience` refused tries. Both senders implement it:
the wrapper with patience 0 (a cancelled call, or an error of the DLQ write that
`Send` ignores, abandons the message), the outbox with patience `MaxAttempts + 1`.

### ReliableSender

One message is one call of `Send` in its own goroutine. A call is cut where the code
lets another one in: the clock is read before `mu` is taken, the breaker is updated
under it, the transport runs without it, the DLQ has a lock of its own.

| State | Code |
|---|---|
| `consecutiveFail`, `breakerOpenTill`, `halfOpenProbe` | the fields of the struct; time 0 is the zero `time.Time` |
| `pc`, `attempt`, `seen` | the position in `Send`, its loop variable, the `now` local of `beforeAttempt` and `onFailure` |
| `dlq` | the `attempts` field of the lines in the DLQ file |
| `copies`, `refusals`, `failStreak`, `probing` | history, not read by any action |

`Submit` and `Gate` are `beforeAttempt`; `TransportOk`, `TransportFail` the wrapped
adapter (it may deliver and still fail); `OnSuccess`, `OnFailure` the reports; `Wake`,
`Cancel` the select on the backoff timer; `WriteDLQ` the three calls of `writeDLQ`.

### Outbox

Each SQL statement and each call of the notifier is a step. `flush` runs under one
30 s context; once it expired, the next statements fail (`SqlErr`). A crash clears
what the workers hold in memory and keeps the table. `Settle` is the moment from which
the environment causes no more faults; it need not come.

| Action | Code in `flush` |
|---|---|
| `Tick`, `Pick`, `EndFlush` | the ticker, the SELECT with `LIMIT 1`, return |
| `SendOk`, `SendFail` | `inner.Send` |
| `DeleteSent` | DELETE after a success; the loop continues even if it failed |
| `ReadAttempts` | SELECT attempts; its error counts as 0 |
| `DropPoison`, `ScheduleRetry` | DELETE at the cap, UPDATE of attempts and next retry |
| `Stop`, `Exit`, `Crash`, `Boot` | the stop channel, the end of the worker, kill, restart |

### EmailGoals

One goal and all actors on its rows: the opener (`OpenGoal`), handlers of approve,
reject and edit (chat goroutines and the process of `email approve`), the follow-up
loop and the watcher of each program, and `goal cancel`. The REPL and `--serve` both
start `Service.Run` (`main.go:455`), before `--serve` looks at the PID file, so that two
loops and two watchers work on one `email.db` and know nothing of each other. The store
runs one statement at a time and no transactions, so a step is one statement, one mail or
one LLM call, and every actor may be aborted between two (error, cancelled context, kill).

| State | Code |
|---|---|
| `goal`, `followups`, `silent` | the goal's status, `followups_sent`, and whether `last_activity + followup_after_secs` has passed |
| `nDrafts`, `draft`, `origin` | rows of `email_drafts` in the order of their tokens, their status, and what they hang on (a mail, or the anchor row, told apart by who inserted it: the opener, or the program of the loop) |
| `stored`, `sent`, `behind` | rows of `email_messages`; the counterpart's mails, and those behind the cursor of each program's poll |
| `loop`, `watch`, `cur` | per program: where its loop and its watcher stand, and the mail in hand |
| `opening`, `cancelling`, `at`, `tok`, `nudge`, `outdated` | positions and local variables of the other actors (`nudge` is `wasFollowup`, `outdated` says that the text was edited after it was read) |

Abstracted: the text of mails and drafts, the LLM's answers (any verdict), the rate
limiter (it may refuse at any time), the time (`Silence`), thread references (matching
by sender is what remains), the audit and event tables (written, never read by a guard).

### Conversation

| Module | State and actions |
|---|---|
| `AgentLoop` | turns of `Run`, `RunStream` and `RunAutonomous` on one working memory, each cut where another goroutine gets in: planning, flush, request, tool results, budget, compaction, end; `/reset` and `/compact` beside them. A message is its role, tokens, the calls it asks for and the call it answers |
| `WireMessages` | `convertMessages` and the builders of six vendors as operators on a small history |
| `FailoverProvider` | calls that read one breaker after the other and use the list later; a step is one look, or one answer with its report |
| `ProviderWiring` | which providers are registered, what their catalogs are taken to be, how a name is resolved, who is asked and what each makes of it: streamed or not, refused for good or failed for now; vendors come, go, release and withdraw models |
| `ModelStream` | the vendor's chunks on a connection that may break or carry the vendor's error, the provider's goroutine, its bounded channel, `CollectStream` or the turn's loop |
| `StreamingBuffer` | pushes, flush, timer (expiry and callback are two steps), `Done`, and the result of an `/auto` goal pushed after it |
| `ChannelInbound` | filters, the event's slot, the bridge's second slot, the turn's pieces of text, the closing reply, posts that get through in part; the result of `/auto`, told when the turn is over, and the timer that outlives it |
| `McpClient` | handshake, registration, calls that take the next line for their answer, `Close`; at the other end AssistClaw's server or any other |
| `Embedders` | which backend is the default at each start, what it makes of its vendor's answer, what is stored |

### Daemon

| Module | State and actions |
|---|---|
| `EpisodicMemory` | `Save` (closed check, channel, synchronous fallback), the writer's batch and flush, `DeleteSession`, `Close` |
| `SemanticIndex` | `syncFile` statement by statement by timers and the miner, rowids as SQLite gives them out, files edited meanwhile |
| `Chunker` | `ChunkMarkdown` as an operator over all small notes |
| `AuditLog` | open, append, failed and torn writes of several processes; `Verdict[n]` is the verifier's state after n lines |
| `GatewayHub` | `Run`'s select over four channels, the pumps, registration, `Stop` |
| `ProactiveEngine` | triggers on a bounded channel, dispatcher, cooldowns, `SetRules`, `Stop` |
| `CircuitBreaker` | the wrapper of a trigger, its shift in a word of `WordBits` bits |
| `CalendarTrigger` | polls, moved meetings, what was announced, a full engine queue |
| `MailWatch` | two watchers on one cursor over IMAP or a listing, `ProcessNewMail` statement by statement, crashes |
| `ConfigFile` | every command that rewrites the settings: read, expand, ask, truncate, write |
| `CronJobs` | the two schemas of one file, the daemon's entries |
| `RuleFile` | `rule` commands, an editor, the daemon's watcher |
| `SkillStore` | copies, checkouts and archives of a skill, removal |
| `ModelDownload` | names and files as in a file system; copy, download, rename |
| `ProcessTool` | `start`, `stop`, `list` with the probe that always fails |
| `SubAgents` | create, run, remove over one registry file |
| `DaemonLifecycle` | the order of `main` with its deferred calls, PID file, port, `stop` and `restart`, turns under way, a panic |

## 3. Runs

| Run | Instance | Shows |
|---|---|---|
| `reliable_sender` | 3 calls, 2 tries, threshold 2, cooldown 1, clock to 4; 625,672 states | the breaker is justified, its probe flag is owned, the deadline bounded, the dead-letter file truthful, `Delivery` implemented |
| `outbox` | 2 notifications, 1 worker, cap 2; 191,280 states | no loss before the cap, `Delivery` implemented, the table drains |
| `email_goals` | 2 programs, 3 drafts, 1 mail, 1 handler, 1 follow-up; 1,488,180 states | no program adds a follow-up to a pending one of its own, one draft per mail |
| `email_goals_live` | the same with 1 program; 112,148 states | the inbox drains, silence is followed up |
| `conversation` | the parts of `MCConversation`; 240,563 states | `TurnsAreWhole` (calls and results stay paired in the memory and in every request; a turn reports its end once), `NoPrimaryOverlooked`, `TextIsFaithful` (what a turn takes for a reply is a beginning of it, tokens reach the channel once and in order), `McpAnswers`, `VectorsAreOwn`, `WiringHolds`, everything that came in is dealt with (`ConversationSettles`), a healthy provider is used again (`OutageEnds`) |
| `daemon` | the parts of `MCDaemon`; 507,898 states | fourteen invariants, one or two a part (see Proofs), and that every shutdown comes to an end (`ServicesStop`) |
| `reliable_probe` | 4 calls, 1 try, threshold 1 | **violated**: two probes at once |
| `outbox_addressee` | 1 notification, 2 workers on the table | **violated**: the wrong channel sends it |
| `goal_cancel` | as `email_goals_live` | **violated**: a cancelled goal comes back |
| `goal_double_send` | 1 program, 2 handlers | **violated**: a draft that is no longer pending, or an older text, is sent |
| `followup_cap` | as `email_goals_live` | **violated**: one follow-up more than the cap |
| `engine_deaf` | as `daemon` | **violated**: a rule for a trigger behind a breaker hears nothing |

The violated runs check a promise that the repository's own text makes; each is
described, with the quoted line, under `findings` in `PROJECT.json`. In short:

- *Probe.* `onFailure` lowers `halfOpenProbe` whoever reports. A late failure of a call
  admitted before the trip frees the slot of a probe still in flight. `ProbeOwned`, the
  part that matters for recovery, holds.
- *Addressee.* All outboxes share `proactive-outbox.db` and the table does not name the
  notifier. `NoLossBeforeCap` still holds for any number of workers (proved), but a
  notification can reach another channel or two of them.
- *Cancel.* Status updates are unconditional: a verdict or an approval that was under
  way overwrites `abandoned`.
- *Double send.* Check and send are not tied by a claim of the row.
- *Cap.* The counter follows the send; a scan in between drafts one more.
- *Deaf.* The wrapper registers under the name with `+cb`, the events keep the inner one.

### What the invariants concede

Much of this code has no lock around what it shares, and an invariant that pretended
otherwise would be false. Where several programs rewrite a file, the property says what
every user may still rely on, and names the races that take it from him. The models show,
among others:

- *Goals.* Nothing ties the scan of one program's follow-up loop to the insert of another's:
  the REPL and `--serve` may each add a follow-up to the same silence, and both wait for
  approval (`OnePendingFollowup` counts per program). The mails are safe, as the row of a
  mail is unique in the table.
- *Index.* `DeleteBySource` deletes from `documents` only; its vector is left behind, the rowid
  is given out again, and the next chunk that gets it is refused: its file is given up, and one
  whose chunks before were stored is then skipped as indexed (`broken` names it).
- *Text.* What `/auto` tells after its command is over comes behind `Done`: the buffer's timer
  posts it, and Slack keeps it until the next empty chunk, which nobody sends. A long text
  whose later parts are refused stands in the chat in part.
- *Settings.* `config.Load` expands the whole text with `os.ExpandEnv`, and `mcp add` and `mcp
  remove` write what it gave: the references to the environment that the README recommends
  for passwords (`README.md:318`) are then written out in the file, or blank where the
  variable was not set. `ConfigKept` excuses just these values (`Expanded`, the section
  "text"); of the other commands only the wizard does not keep them: what it asks about it
  writes as it loaded it, and the rest not at all. Defaults that a load writes out count as the absent values they
  stand for. The wizard writes only the sections it knows: mail accounts, MCP clients,
  memory, security, tracing, other providers and Azure's API version are gone after it; a
  secondary provider equal to the primary makes a file that no longer parses; `mcp remove` of the
  server that MemPalace needs, or `email setup` before `onboard`, one that does not load.
- *Jobs.* CLI and agent tool write `cron_jobs.json` by two schemas, and each rewrite empties the
  other's jobs; a rewrite that fails or ends half-way may leave a file nobody can read; an `add`
  with an invalid schedule ends the old job and keeps its definition; every program that runs `kernel.Build` starts a scheduler of its own.
- *Rules.* `rule add` takes a file it cannot parse for an empty one; one rule with an unknown
  name keeps the whole file from being taken; a deleted file leaves its rules in force.
- *Skills.* A copy that failed leaves a directory that counts as installed; after a failed
  checkout the archive of the whole repository goes into the same directory.
- *Model.* Two downloads share a temporary name and the digest is that of the stream: the one
  that is done first moves the other's half-written file into place.
- *Daemon.* The PID file is checked after channels and engine already run; `stop`
  removes it at once; the deferred removal of an old daemon takes a new one's.
- *Sub-agents.* `Create` ignores that the registry could not be read and overwrites it.
- *Processes.* The probe sends a nil signal, an error for every process: a name is given away
  while its process runs, and nothing is restored after a restart.
- *Audit.* A failed write uses up a number ("sequence gap" on an honest log); behind a torn
  line the next entry is called "tampered".
- *Meetings.* What was announced is in memory only, and by the event's ID.
- *MCP.* Lines are matched by position; AssistClaw's own server answers a notification, so
  that an AssistClaw client of it registers no tool.
- *Wiring.* Every provider is asked for the name resolved for the first one; one without that
  model refuses for good, as one does that takes the key or the request amiss, and neither the
  others nor the local fallback are reached. Vertex cannot stream and every turn streams, so
  that it ends each turn that reaches it (`vertex.go:230`).
- *Embedders.* The table of vectors knows a length and no model: two backends of one length share
  it, and `VectorsAreOwn` says only that a vector is that of its text, by the backend of its
  time. Cohere's is listed with 1024 numbers, while the model it asks for gives 1536.
- *Streams.* A connection that ends early ends a reply as if it were complete; of a read error
  only the OpenAI provider tells, of an error that the vendor sends in the stream only
  Anthropic's. OpenAI's fragments of a tool call each become a call.

### Bounds, and why they are enough

*Delivery and goals.* Three calls are one probe, one late reporter and one that meets the gate;
with threshold 2 and two tries a trip needs two calls or both tries of one; the clock passes
two cooldowns. Two notifications give the `ORDER BY id` something to order and let one
wait behind a failing one; a cap of 2 has a first, a middle and a last try.
`nextId` needs no bound, as a message is sent once; the counters of history saturate at
`CountCap`. Three drafts are the opener, a reply and a follow-up, or the opener and a follow-up of
each of two programs; one mail is enough for the retry of a mail and for two watchers that
take it up at once, and `MaxFollowups` 1 has the boundary. Two programs are the REPL beside
`--serve`; they are alike, hence the symmetry. For liveness one program is enough: another
one's steps either do what is waited for (a row for the mail, a draft for the silence) or touch
only their own program's place. The three violated promises need one program only.

*Conversation.* Two turns on one memory are enough for a turn to find the memory another one
compacted; the casts are a background goal with commands beside it, and two chat messages.
Two calls and two primaries make a stale report; a threshold of 2 distinguishes one failure
from a trip. `StreamCap` 1 blocks the reader at once. Two events and two slots are as many
events as slots, the case in which everyone could wait. Two stray lines shift the answers by
more than one. Three texts can be permuted without a fixed point. Two starts let
the backend change; a vendor changes twice: it goes and comes back, or
releases a model and withdraws it.

*Daemon.* All channels have capacity 1, the boundary at every step. Three messages and a batch
of 2 leave one behind a full batch. Three rowids are one more than a file has chunks. Notes of
up to 3 lines of up to 6 characters with chunks of 4 have lines below, at and above the size.
A word of 8 bits and a second of 3 units overflow after 7 failures; 12 failures go beyond it.
Two processes, programs, shells, installers and daemons are what a race takes; two mails
with a page of 1 hide one from the first page; one crash per run is enough for a row without
its draft. Turns of the gateway and of rules stand for those that the shutdown waits for and
those it does not.

The proofs remove these bounds for what they cover.

### Deadlock

Checked for the outbox, whose worker never stops for good. The other systems may really
stop (all calls returned; the goal closed; the daemon ended): `CHECK_DEADLOCK FALSE`. Where
everyone could wait on everyone, liveness finds it.

### Fairness

Liveness is stated as "again and again everything is settled" (`[]<>`), since more work may
always come in.

| Module | Assumed | Why |
|---|---|---|
| `ReliableSender` | nothing | checked for safety only |
| `Outbox` | the worker weakly fair, time passes | its ticker fires and its context ends a notifier that hangs; `Drained` speaks of the time after `Settle`; no boot or stop is fair |
| `EmailGoals` | time and the goroutines of each program weakly fair; statements and LLM calls on the way to a stored mail and a follow-up strongly | they may fail any number of times, not for ever; the poll and the ticker repeat; no command of the user is fair. `SilenceIsFollowedUp` excludes by name a goal without its anchor row, after which follow-ups fail for ever |
| `AgentLoop` | some turn's step | goroutines run; a provider's call has a deadline |
| `FailoverProvider` | each call's step, the end of a cooldown | goroutines and time |
| `ModelStream` | reader and consumer | two goroutines; the vendor need not send, the context ends |
| `StreamingBuffer` | the timer, its callback | the Go runtime |
| `ChannelInbound` | ends of turns, the bridge's return, the timer of a buffer with text in it, and that a free slot goes to one of those that wait | Go wakes a waiter of a channel; which one does not matter, as each event waits twice at most |
| `McpClient` | a step of the client or an answer of the server | without the server's answer the call waits for ever: the code has no deadline |
| `EpisodicMemory` | the writer; `Close` returns | goroutines |
| `GatewayHub` | only that `Run` takes the shutdown and `Stop` returns | no client need read its queue |
| `ProactiveEngine` | dispatcher, some trigger's return after the cancel, `Stop` | a trigger ends when its context does |
| `DaemonLifecycle` | each daemon goes on, its turn ends | a goroutine, and `AgentLoop` |

## 4. Proofs

TLAPS checks all of the following for every value of the constants, from the
assumptions named in the modules (`ReliabilityConfig`, `OutboxConfig`, `HubConfig` and so
on). They say that settings and bounds are natural numbers, that model values are distinct,
and that sets of actors are finite where something is counted; beyond that only what the
code enforces, as `Second <= CooldownMax` and a cap that fits the word for the breaker, IDs
of jobs that are no names of jobs, or `OneWorker` where it is named.

| Module | Theorem | Says |
|---|---|---|
| `ReliableSenderProofs` | `TypeCorrect`, `BreakerIsJustified`, `ProbeIsOwned`, `CooldownIsBounded`, `DeadLettersAreAccurate`, `RefinesDelivery` | all properties of the run `reliable_sender` |
| `OutboxProofs` | `TypeCorrect`, `RowsAreKept` | for any number of workers on one table |
| `OutboxProofs` | `RefinesDelivery` | under `OneWorker` (two workers can send a row the other just deleted) |
| `EmailGoalsProofs` | `TypeCorrect`, `FollowupsDoNotPileUp`, `RepliesAreDraftedOnce` | for any number of drafts, mails, handlers and programs |
| `ConversationProofs` | `TurnsStayWhole` | calls and results stay paired in the memory and in every request; a turn ends once |
| `ConversationProofs` | `TextStaysFaithful` | a reply is the vendor's, whole or cut by a named loss; tokens reach the channel once and in order, those of the turn by its end |
| `ConversationProofs` | `EveryPrimaryCounts`, `WiringStaysTrue` | no primary is overlooked; a name is vouched for, a request fails only for the named reasons |
| `ConversationProofs` | `ToolsStayAnswered`, `VectorsStayOwn` | a call of a tool has its own answer while nothing strays; a text has its own vector |
| `ConversationProofs` | `ConversationTypes` | the types of all nine parts of `MCConversation` |
| `StoreProofs` | `NothingIsMislaid`, `ForgottenForGood` | an accepted message is in one place; a deleted session's messages come back only if they were on the way |
| `StoreProofs` | `IndexStaysTrue` | a skipped file is indexed completely, a chunk is found by its own vector |
| `StoreProofs` | `LogIsJudged` | the log of a lone process is a chain, and the verifier's verdict on any log is right |
| `DaemonProofs` | `QueuesCloseOnce`, `ListedMissNothing` | send queues of the hub; what a listed client has heard |
| `DaemonProofs` | `CursorIsHonest`, `DraftedOnce` | no mail is passed over; one draft each |
| `DaemonProofs` | `PausesStayKept`, `MeetingsStayAnnounced` | cooldowns of rules, pauses of a trigger's breaker; meetings |
| `DaemonProofs` | `FilesStayKept`, `RegistriesStayTrue`, `DaemonStaysKept` | settings, jobs, rules, skill and model; processes and sub-agents; PID file and order of the shutdown |
| `DaemonProofs` | `ShortLinesStay` | a line that fits into a chunk is found, for any note, size and overlap |
| `DaemonProofs` | `DaemonTypes` | the types of all parts of `MCDaemon` |

Every invariant that a passing run checks, and its action properties and refinements, is
stated by one of these theorems.

The proofs follow the composition. `RecursionProofs` has what is not about this system:
numbers, recursion over them, sequences put one behind another. `StoreProofs` (what is kept in
databases and tables) and `StreamProofs` (the streamed reply, on which a reader, a bounded
channel and a consumer work) prove step lemmas about the components' own next-state relations;
`DaemonProofs` and `ConversationProofs` do so for the other components, show that a step of
`MCDaemon` or `MCConversation` is one of each part or leaves it alone, and put the lemmas
together.

### Inductive invariants

The properties are seldom inductive. What they need, each first checked by TLC:

- *ReliableSender.* That `attempt` stays below the cap follows from where a call sleeps
  (`CallInv`, also the truth of the dead-letter line). `BreakerInv` relates the counter to the
  history of reports; `ProbeInv` says that a raised flag has a prober among the calls that
  still have to report, which survives a second probe because any report lowers the flag.
- *Outbox.* Two workers may hold the same row, so the row's counter may lag behind or be
  raised twice for one try's worth of waiting. `CountInv` bounds the counter plus the tries
  not yet counted by the tries that failed; `JobInv` says what each place in `flush`
  knows. For the refinement, `SoleInv` says that the only worker's row is still queued.
- *EmailGoals.* `RowsInv` (tokens are given out in order), `ScanInv` (between a program's scan
  and its insert none of its own follow-ups can become pending, as its loop is alone in
  inserting them; another program's can), `WatchInv` (a mail has its row before its draft, at
  most one watcher is between the two, and only a mail without a row is taken up).
- *AgentLoop.* `PairsInv`: with the pairs of the memory, that a call to be executed is its turn's
  own and is in the memory unless it is named `dropped`, that every call is in one message and
  the next reply's are new, and that no message of the system carries one; it survives a
  compaction by position that another turn makes between two steps. `TurnsInv` (what each
  phase of a turn knows, and `OneEnd`) and `MemoryInv` are what `AgentInv` is cut into, as an
  action disturbs one of the two.
- *WireMessages.* `WireInv`: the requests are those built from the history. The builder of
  Bedrock's merges turns of one role: `MergeInv` says of the merge after n messages that
  neighbours differ where results are, and that the ids heard so far, in order, are those told.
- *ModelStream.* `ReaderInv`: there is a number p of chunks that the reader has read, such that the
  connection holds the rest of the reply and its ending (`WireAt`), the fragments put together
  are those of the first p chunks (`PartialAt`), and the events on channel and in the reader's hand
  are what p chunks make and the consumer has not seen: texts (`TextQueue`), calls
  (`CallQueue`) and the end (`EndQueue`). The invariants of reader and consumer meet in p only.
- *StreamingBuffer.* `BufferInv`: what was handed on, followed by the buffer, is what was pushed,
  and after `Done` the buffer has only what was pushed since.
- *ChannelInbound.* `SlotsInv` (who has a slot is on his way), `TextsInv` (no text is posted twice).
- *McpClient.* `HeldByReader`, `InOrder` (each request has its time), `NothingStray` (all that is
  under way is the holder's), `OneStray` (where the one line that AssistClaw's own server writes
  unasked is).
- *Embedders.* `EmbedInv`: the table is made before there is anything to put into it; that every
  kind of answer is put in place is `VectorsPlaced`, about permutations of any length.
- *ProviderWiring.* `WiringInv`: what each stage of the start has registered (`Starting`), that a
  list holds what the vendor had once (`Listing`), that the chosen name was found in one
  (`Vouched`), and who is asked first (`AskingOne`).
- *FailoverProvider.* `OverlookedStep`: a primary that a call no longer has before it was seen
  open, or was asked and refused.
- *EpisodicMemory.* `QueueInv` (channel and batch repeat nothing), `PlacesInv` (the place of a
  message follows from where its `Save` stands), `CloseInv` (who may still put something into
  the channel once it is closed), `ForgottenInv` (what is stored of a deleted session was on
  its way).
- *Chunker.* `ChunkInv`: the chunks are pieces in a row each, and all the pieces together; of
  those with one first and last line the last one has a short line whole.
- *SemanticIndex.* `JobsInv`, `StepsInv`: what each place in `syncFile` has done to the rows
  of its file while others index other files, or the same; `RowsInv`, `VectorsMatch`: a rowid
  above all documents may carry a vector left behind, which the insert then meets.
- *AuditLog.* `NumbersInv`, `GrowInv` (numbers grow along the file), `CarryInv` (what an open
  process carries on from is the last entry, or is ahead of it by failed writes). For the verifier
  `VerdictInv(n)` over the lines: the hash it carries is that of the last entry read,
  no violation so far means a chain so far, violations have a cause, and valid and tampered
  lines add up to the entries.
- *GatewayHub.* `OpenInv`: `RegisterInv` says where a client's requests are, so that a client
  is not listed twice; `HubInv` adds `HeardInv` (queue and received events are a beginning of
  what was broadcast, all of it unless the queue is closed) and `LeftInv`.
- *MailWatch.* `PollInv` (what is left of a poll is an interval whose lower mails are
  accounted for), `ReadInv` (so is a cursor that was read), `StepInv`, `DraftInv` (who may
  still insert the draft of a mail).
- *ProactiveEngine, CircuitBreaker, CalendarTrigger.* `EngineInv`: the age the code keeps is
  the time since the last firing. `BreakerInv`: a backoff is a power of two times a second
  unless the shift overflowed; `WordHolds` shows that a product below the limit is not
  wrapped. `CalendarInv`: with `WarnBefore >= Interval` a meeting that is not remembered
  still has a poll before it (`InTimeInv`).
- *ConfigFile.* `EditTypes`, `SettingsInv`, `LostInv`: the text that a command is about to
  write has the settings it read, but for what it decides, has expanded or cannot have; when
  nobody writes, the file has what the users were told; the only writer of a truncated file is
  about to write that.
- *Types of the daemon.* `CronRest` (the daemon's own jobs are prompts with a schedule that it
  takes), and `RuleRest`: `NoticesInv` bounds the notices by those of the shells still to write,
  as one command gives two at most.
- *CronJobs.* `NamesInv`: for a name that nothing spoiled there is one call at a time, and file,
  entries and promises agree with what that call has done so far.
- *RuleFile.* `FileInv`: the only writer of an empty file agrees with what was promised;
  `ReadInForce`: the rules in force are those of a reading, or a notice is pending.
- *SkillStore.* `WorkInv`: a file of a directory without a mishap is whole, or some install will
  still bring it.
- *ModelDownload.* `FilesInv`, `StreamInv`: a file belongs to one attempt and has one name at
  most; an uncontested file holds its only writer's stream so far.
- *ProcessTool, SubAgents, DaemonLifecycle.* `CallsInv`; `KeptInv`: the registry without what was
  lost is what users know without what was lost, also while the file cannot be read;
  `StacksInv`: the deferred calls fit the stage of `main`, and `PidInv`.

### Numbers and recursion

TLAPS has no induction over data with an operator as parameter, and knows nothing of `2^n`. The
recursive definitions that proofs need are functions on numbers: `PowerOfTwo`, the verifier's
`Verdict`, the chunker's `Packed`, the merge of turns in `WireMessages`. `RecursionExists` in
`RecursionProofs` shows, from set induction, that such a function exists and obeys its equations,
with functions in the place of operators; step lemmas (`VerdictSteps`, `AllPacked`,
`PowersOfTwo`) then follow. `FlattenSeq`, which puts the calls of a reply and the parts of a
request one behind another, is reasoned about by its definition in the same way.

The prover's obligations are checked from nothing in about 20 minutes for `DaemonProofs`, 13 for
`ConversationProofs`, 9 for `StoreProofs`, 6 for `StreamProofs` and less than one for each of the
others (more when two run at once).

### Only model-checked

- Liveness under fairness, and ENABLED, are beyond the prover: `Drained`, `InboxDrains`,
  `SilenceIsFollowedUp`, `ConversationSettles`, `OutageEnds`, `ServicesStop`.
- That the violated runs' properties fail is a matter of a counterexample, which TLC finds.

## 5. Not modelled

- *Email.* Several goals of one counterpart, thread references (`goals_store.go:118` reads,
  edits and writes them as JSON, and can lose one) and the rate limiter's window; drafts of the
  generic triage; building and parsing of mails.
- *Tools and skills.* Scoring and choosing tools and skills for a prompt
  (`internal/graph`, `tools/catalog.go`, `internal/autotool`): what is chosen is text, and what
  they keep orders a choice. Tools that act on the host and keep nothing.
- *Security.* Guardrail patterns, PII and owner paths: matching of texts.
- *Vendors.* Headers, credentials, prices; the cgo engine of the local model; voice.
- *Presentation*, the web UI, metrics, snapshots of awareness, formatting and logging.
- `Start` after `Stop` of an outbox, which nothing calls.

Each has its reason in `PROJECT.json`.

## 6. Plan

Done: all modules above, and the proofs of every invariant, action property and refinement
that their runs check.

Left: the rest of what section 5 names, in the order in which it keeps state: several goals of
one counterpart with their thread references, drafts of the generic triage, the rate limiter's
window. A model of the first has to count in tokens of mails what `EmailGoals` has as one mail's
place, and its invariants start from `RowsInv` and `DraftInv`.
