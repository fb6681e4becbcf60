---------------------------- MODULE ProactiveEngine ----------------------------
(***************************************************************************)
(* The proactive engine (internal/proactive/engine.go): triggers emit      *)
(* events into a bounded channel, one dispatcher goroutine matches each    *)
(* against the rules and runs the actions, a watcher replaces the rules    *)
(* when their file changes (watcher.go), and Stop ends it all.             *)
(*                                                                         *)
(* An event is the trigger it comes from; what a rule's Match makes of its *)
(* payload is left open.  Time is the age of each rule's last firing, up   *)
(* to MaxAge, no less than any cooldown.                                   *)
(***************************************************************************)
EXTENDS Integers, Sequences, SequencesExt

CONSTANTS
  Triggers,
  BehindBreaker, \* the ones in a CircuitBreakerTrigger
  RuleIds,
  RuleFiles,     \* the rule lists the file may hold, as sequences of rules
  EventCap,      \* of the channel of events, 256 in the code
  MaxAge,
  MaxEmitted     \* bound: events the triggers emit

\* A breaker registers under a name of its own; its events keep the inner name.
RegisteredName(t) == IF t \in BehindBreaker THEN <<t, "+cb">> ELSE <<t, "">>

\* A rule without a trigger hears them all.
Anything == <<"any", "">>

\* A file may name any trigger, the engine takes rules of those that are registered.
FileRule == [id : RuleIds, trigger : (Triggers \union {"any"}) \X {"", "+cb"}, match : BOOLEAN,
             cooldown : 0..MaxAge, enabled : BOOLEAN]

RuleTriggers == {RegisteredName(t) : t \in Triggers} \union {Anything}

Rule == {rule \in FileRule : rule.trigger \in RuleTriggers}

ASSUME EngineConfig ==
  /\ BehindBreaker \subseteq Triggers
  /\ \A file \in RuleFiles : file \in Seq(FileRule)
  /\ EventCap \in Nat \ {0} /\ MaxAge \in Nat /\ MaxEmitted \in Nat

VARIABLES
  rules,
  age,          \* of the last firing of each rule id; -1 if it has not fired
  eventCh,      \* the channel
  trigger,      \* "idle", "emitting" while the channel is full, "returned"
  emitted,      \* events so far
  dispatcher,   \* "waiting", "matching", "acting" or "returned"
  event,        \* the event being handled
  snapshot,     \* the rules still to be matched with it
  engine,       \* "running", "stopping" after the cancel, "stopped"
  sinceFired,   \* history: the time since each rule id fired, as age
  tooEarly,     \* history: a rule fired within its cooldown
  deaf          \* history: rules skipped for an event of the trigger they name

engineHistory == <<sinceFired, tooEarly, deaf>>
engineVars == <<rules, age, eventCh, trigger, emitted, dispatcher, event, snapshot, engine,
                engineHistory>>

EngineInit ==
  /\ rules = <<>>
  /\ age = [r \in RuleIds |-> -1]
  /\ eventCh = <<>>
  /\ trigger = [t \in Triggers |-> "idle"]
  /\ emitted = 0
  /\ dispatcher = "waiting"
  /\ event \in Triggers
  /\ snapshot = <<>>
  /\ engine = "running"
  /\ sinceFired = age /\ tooEarly = FALSE
  /\ deaf = {}

-----------------------------------------------------------------------------
(* The rules' file *)

Known(file) == \A i \in DOMAIN file : file[i].trigger \in RuleTriggers

\* A list that refers to an unknown trigger, action or notifier is refused and
\* the old rules stay; the dispatcher finishes its event with the old ones.
SetRules == \E file \in RuleFiles :
  /\ Known(file)
  /\ rules' = file
  /\ UNCHANGED <<age, eventCh, trigger, emitted, dispatcher, event, snapshot, engine,
                 engineHistory>>

-----------------------------------------------------------------------------
(* The triggers *)

Emit(t) ==
  /\ trigger[t] = "idle" /\ engine = "running" /\ emitted < MaxEmitted
  /\ emitted' = emitted + 1
  /\ trigger' = [trigger EXCEPT ![t] = "emitting"]
  /\ UNCHANGED <<rules, age, eventCh, dispatcher, event, snapshot, engine, engineHistory>>

\* The emitting goroutine waits for room.
Enqueue(t) ==
  /\ trigger[t] = "emitting"
  /\ Len(eventCh) < EventCap
  /\ eventCh' = Append(eventCh, t)
  /\ trigger' = [trigger EXCEPT ![t] = "idle"]
  /\ UNCHANGED <<rules, age, emitted, dispatcher, event, snapshot, engine, engineHistory>>

\* The cancelled context ends the trigger, and an emit that still waits drops
\* its event.
TriggerReturns(t) ==
  /\ engine = "stopping" /\ trigger[t] # "returned"
  /\ trigger' = [trigger EXCEPT ![t] = "returned"]
  /\ UNCHANGED <<rules, age, eventCh, emitted, dispatcher, event, snapshot, engine, engineHistory>>

-----------------------------------------------------------------------------
(* The dispatcher *)

\* select may still choose an event when the context is cancelled, too.
TakeEvent ==
  /\ dispatcher = "waiting" /\ eventCh # <<>>
  /\ dispatcher' = "matching"
  /\ event' = Head(eventCh) /\ eventCh' = Tail(eventCh)
  /\ snapshot' = rules
  /\ UNCHANGED <<rules, age, trigger, emitted, engine, engineHistory>>

DispatcherReturns ==
  /\ dispatcher = "waiting" /\ engine = "stopping"
  /\ dispatcher' = "returned"
  /\ UNCHANGED <<rules, age, eventCh, trigger, emitted, event, snapshot, engine, engineHistory>>

OnCooldown(rule) ==
  rule.cooldown > 0 /\ age[rule.id] # -1 /\ age[rule.id] < rule.cooldown

\* The event's source is compared with the registered name the rule gives.
Hears(rule) == rule.trigger = Anything \/ rule.trigger = <<event, "">>

\* Disabled, another trigger, a Match that fails, or the cooldown.
SkipRule ==
  LET rule == Head(snapshot) IN
  /\ dispatcher = "matching" /\ snapshot # <<>>
  /\ ~rule.enabled \/ ~Hears(rule) \/ rule.match \/ OnCooldown(rule)
  /\ snapshot' = Tail(snapshot)
  /\ deaf' = IF rule.enabled /\ ~Hears(rule) /\ rule.trigger = RegisteredName(event)
             THEN deaf \union {rule.id} ELSE deaf
  /\ UNCHANGED <<rules, age, eventCh, trigger, emitted, dispatcher, event, engine, sinceFired,
                 tooEarly>>

\* The cooldown starts before the action, whose success does not matter.
FireRule ==
  LET rule == Head(snapshot) IN
  /\ dispatcher = "matching" /\ snapshot # <<>>
  /\ rule.enabled /\ Hears(rule) /\ ~OnCooldown(rule)
  /\ age' = [age EXCEPT ![rule.id] = 0]
  /\ sinceFired' = [sinceFired EXCEPT ![rule.id] = 0]
  /\ tooEarly' = (tooEarly \/ sinceFired[rule.id] \in 0..(rule.cooldown - 1))
  /\ dispatcher' = "acting"
  /\ UNCHANGED <<rules, eventCh, trigger, emitted, event, snapshot, engine, deaf>>

\* The action and the notifiers are done, have failed, or were cut off after
\* five minutes or by the cancel.
ActionEnds ==
  /\ dispatcher = "acting"
  /\ dispatcher' = "matching"
  /\ snapshot' = Tail(snapshot)
  /\ UNCHANGED <<rules, age, eventCh, trigger, emitted, event, engine, engineHistory>>

EventDone ==
  /\ dispatcher = "matching" /\ snapshot = <<>>
  /\ dispatcher' = "waiting"
  /\ UNCHANGED <<rules, age, eventCh, trigger, emitted, event, snapshot, engine, engineHistory>>

-----------------------------------------------------------------------------
StopEngine ==
  /\ engine = "running"
  /\ engine' = "stopping"
  /\ UNCHANGED <<rules, age, eventCh, trigger, emitted, dispatcher, event, snapshot, engineHistory>>

\* Stop waits for the dispatcher and every trigger.
EngineStopped ==
  /\ engine = "stopping" /\ dispatcher = "returned"
  /\ \A t \in Triggers : trigger[t] = "returned"
  /\ engine' = "stopped"
  /\ UNCHANGED <<rules, age, eventCh, trigger, emitted, dispatcher, event, snapshot, engineHistory>>

Older(ages) ==
  [r \in RuleIds |-> IF ages[r] \in 0..(MaxAge - 1) THEN ages[r] + 1 ELSE ages[r]]

EngineTick ==
  /\ \E r \in RuleIds : Older(sinceFired)[r] # sinceFired[r]
  /\ age' = Older(age) /\ sinceFired' = Older(sinceFired)
  /\ UNCHANGED <<rules, eventCh, trigger, emitted, dispatcher, event, snapshot, engine,
                 tooEarly, deaf>>

Dispatch ==
  TakeEvent \/ DispatcherReturns \/ SkipRule \/ FireRule \/ ActionEnds \/ EventDone

EngineNext ==
  \/ SetRules
  \/ \E t \in Triggers : Emit(t) \/ Enqueue(t) \/ TriggerReturns(t)
  \/ Dispatch
  \/ StopEngine \/ EngineStopped \/ EngineTick

EngineSpec == EngineInit /\ [][EngineNext]_engineVars

\* Goroutines are scheduled and an action ends with its context.
EngineFairness ==
  /\ WF_engineVars(Dispatch)
  /\ WF_engineVars(\E t \in Triggers : TriggerReturns(t))
  /\ WF_engineVars(EngineStopped)
-----------------------------------------------------------------------------
(* Properties *)

EngineTypeOK ==
  /\ rules \in Seq(Rule) /\ snapshot \in Seq(Rule)
  /\ age \in [RuleIds -> -1..MaxAge] /\ sinceFired \in [RuleIds -> -1..MaxAge]
  /\ eventCh \in Seq(Triggers) /\ event \in Triggers
  /\ trigger \in [Triggers -> {"idle", "emitting", "returned"}]
  /\ emitted \in 0..MaxEmitted
  /\ dispatcher \in {"waiting", "matching", "acting", "returned"}
  /\ engine \in {"running", "stopping", "stopped"}
  /\ tooEarly \in BOOLEAN
  /\ deaf \subseteq RuleIds

\* "minimum time between firings": no rule id fires again before the cooldown of
\* the rule that fires has passed, through bursts, slow actions and reloads that
\* replace the rule meanwhile.
CooldownHolds == ~tooEarly

\* No Stop waits: the dispatcher leaves its event, and no trigger stays blocked on a full
\* channel that nobody empties any more.
EngineStopIsBack == engine # "stopping"

\* "Source // trigger name": a rule that SetRules accepted hears the events of
\* the trigger it names.
RulesHearTheirTrigger == deaf = {}
=============================================================================
