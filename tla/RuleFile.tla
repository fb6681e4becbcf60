------------------------------- MODULE RuleFile -------------------------------
(***************************************************************************)
(* The file of proactive rules: "rule add / enable / disable"              *)
(* (cmd/assistclaw/rule_cmd.go) and an editor rewrite it, each without a   *)
(* lock, and the daemon's watcher (internal/proactive/watcher.go,          *)
(* yaml_loader.go) reads it again at every notice of a change.             *)
(*                                                                         *)
(* A rule is an ID, whether all it names is known to the engine, and       *)
(* whether it is enabled.  Notices are counted and none is lost; commands  *)
(* are given the daemon's directory, which with --config need not be so.   *)
(* What the engine does with the rules is ProactiveEngine.                 *)
(***************************************************************************)
EXTENDS Integers

CONSTANTS
  RuleNames,
  Shells,        \* processes that run commands
  MaxRuleEdits   \* bound: commands and saves of the editor

ASSUME RuleFileConfig == MaxRuleEdits \in Nat

VARIABLES
  ruleFile,   \* its state and its rules
  command,    \* per shell the command it runs
  ruleEdits,
  watcher,    \* "off", "loading" before the directory is watched, "on"
  notices,    \* of changes, still to be read
  inForce,    \* the engine's rules
  promised,   \* history: the rules the users were told are in the file
  disturbed   \* history: IDs of rules that a named hazard may have lost or brought back

ruleFileVars ==
  <<ruleFile, command, ruleEdits, watcher, notices, inForce, promised, disturbed>>

FileRules == [id : RuleNames, known : BOOLEAN, on : BOOLEAN]

\* The file has one rule per ID.
RuleSets == {s \in SUBSET FileRules : \A r \in s, q \in s : r.id = q.id => r = q}

NoCommand == [pc |-> "idle", base |-> {}, next |-> {}, id |-> "none"]

RuleFileInit ==
  /\ ruleFile \in {[state |-> "missing", rules |-> {}]} \cup
                  {[state |-> "ok", rules |-> s] :
                     s \in {s \in RuleSets : \A r \in s : r.known /\ r.on}}
  /\ command = [c \in Shells |-> NoCommand]
  /\ ruleEdits = 0
  /\ watcher = "off" /\ notices = 0 /\ inForce = {}
  /\ promised = ruleFile.rules /\ disturbed = {}

IdsOf(rules) == {r.id : r \in rules}

-----------------------------------------------------------------------------
(* The commands *)

ReadRules(c, id, next) ==
  command' = [command EXCEPT ![c] =
                [pc |-> "open", base |-> ruleFile.rules, next |-> next, id |-> id]]

Edits == ruleEdits < MaxRuleEdits /\ ruleEdits' = ruleEdits + 1

\* A file that does not parse counts as empty: its rules will be gone.  The trigger, the
\* action and the notifiers are not looked up.
AddRule(c, id) ==
  /\ command[c].pc = "idle" /\ Edits
  /\ id \notin IdsOf(ruleFile.rules)
  /\ \E known \in BOOLEAN :
       ReadRules(c, id, ruleFile.rules \cup {[id |-> id, known |-> known, on |-> TRUE]})
  /\ disturbed' = IF ruleFile.state = "unparsable" THEN RuleNames ELSE disturbed
  /\ UNCHANGED <<ruleFile, watcher, notices, inForce, promised>>

Switched(rules, id, on) ==
  {IF r.id = id THEN [r EXCEPT !.on = on] ELSE r : r \in rules}

SetRuleEnabled(c, id, on) ==
  /\ command[c].pc = "idle" /\ Edits
  /\ ruleFile.state \in {"ok", "empty"} /\ id \in IdsOf(ruleFile.rules)
  /\ ReadRules(c, id, Switched(ruleFile.rules, id, on))
  /\ UNCHANGED <<ruleFile, watcher, notices, inForce, promised, disturbed>>

Noticed(n) == notices' = IF watcher = "on" THEN notices + n ELSE notices

RulesApart(a, b) == IdsOf((a \ b) \cup (b \ a))

\* os.WriteFile truncates the file, over what others wrote since it was read.
TruncateRules(c) ==
  /\ command[c].pc = "open"
  /\ command' = [command EXCEPT ![c].pc = "write"]
  /\ ruleFile' = [state |-> "empty", rules |-> {}]
  /\ Noticed(1)
  /\ disturbed' = disturbed \cup RulesApart(ruleFile.rules, command[c].base)
                    \cup (IF ruleFile.state = "unparsable" THEN RuleNames ELSE {})
  /\ UNCHANGED <<ruleEdits, watcher, inForce, promised>>

\* Over what another command wrote since the truncation, the longer text shows at the end;
\* a file that was deleted since then stays away.
WriteRules(c) ==
  /\ command[c].pc = "write"
  /\ command' = [command EXCEPT ![c] = NoCommand]
  /\ \/ /\ ruleFile.state # "missing"
        /\ ruleFile' = [state |-> "ok", rules |-> command[c].next]
        /\ Noticed(1)
     \/ /\ ruleFile.state \in {"ok", "unparsable"}
        /\ ruleFile' = [state |-> "unparsable", rules |-> {}]
        /\ Noticed(1)
     \/ /\ ruleFile.state = "missing"
        /\ UNCHANGED <<ruleFile, notices>>
  /\ promised' = {r \in promised : r.id # command[c].id}
                   \cup {r \in command[c].next : r.id = command[c].id}
  /\ disturbed' = IF ruleFile.state = "empty" THEN disturbed \ {command[c].id} ELSE RuleNames
  /\ UNCHANGED <<ruleEdits, watcher, inForce>>

\* The process ends, or the disk is full, in between.
WriteRulesLost(c) ==
  /\ command[c].pc = "write"
  /\ command' = [command EXCEPT ![c] = NoCommand]
  /\ disturbed' = RuleNames
  /\ UNCHANGED <<ruleFile, ruleEdits, watcher, notices, inForce, promised>>

\* A user saves the file with a slip, or deletes it.
EditByHand ==
  /\ Edits
  /\ \E state \in {"unparsable", "missing"} :
       /\ state # ruleFile.state
       /\ ruleFile' = [state |-> state, rules |-> {}]
       /\ Noticed(IF state = "missing" THEN 0 ELSE 1)
  /\ disturbed' = RuleNames
  /\ UNCHANGED <<command, watcher, inForce, promised>>

-----------------------------------------------------------------------------
(* The daemon *)

\* One rule that names something unknown, and none of the file is taken.
Acceptable(file) == file.state \in {"ok", "empty"} /\ \A r \in file.rules : r.known

\* What the engine goes by after a reload.
Reloaded ==
  CASE ruleFile.state = "missing" -> {}
    [] Acceptable(ruleFile) -> ruleFile.rules
    [] OTHER -> inForce

\* main loads the rules before it starts the engine.
LoadAtStart ==
  /\ watcher = "off"
  /\ watcher' = "loading"
  /\ inForce' = IF Acceptable(ruleFile) THEN ruleFile.rules ELSE {}
  /\ UNCHANGED <<ruleFile, command, ruleEdits, notices, promised, disturbed>>

\* The watcher reads the file once more when its directory is watched.
StartWatching ==
  /\ watcher = "loading"
  /\ watcher' = "on"
  /\ notices' = 1
  /\ UNCHANGED <<ruleFile, command, ruleEdits, inForce, promised, disturbed>>

Reload ==
  /\ watcher = "on" /\ notices > 0
  /\ notices' = notices - 1
  /\ inForce' = Reloaded
  /\ UNCHANGED <<ruleFile, command, ruleEdits, watcher, promised, disturbed>>

StopWatching ==
  /\ watcher = "on"
  /\ watcher' = "off"
  /\ notices' = 0 /\ inForce' = {}
  /\ UNCHANGED <<ruleFile, command, ruleEdits, promised, disturbed>>

RuleFileNext ==
  \/ \E c \in Shells, id \in RuleNames :
       AddRule(c, id) \/ \E on \in BOOLEAN : SetRuleEnabled(c, id, on)
  \/ \E c \in Shells : TruncateRules(c) \/ WriteRules(c) \/ WriteRulesLost(c)
  \/ EditByHand
  \/ LoadAtStart \/ StartWatching \/ Reload \/ StopWatching

-----------------------------------------------------------------------------
(* Properties *)

RuleFileTypeOK ==
  /\ ruleFile.state \in {"missing", "empty", "ok", "unparsable"}
  /\ ruleFile.rules \in RuleSets
  /\ \A c \in Shells : /\ command[c].pc \in {"idle", "open", "write"}
                       /\ command[c].base \in RuleSets /\ command[c].next \in RuleSets
  /\ ruleEdits \in 0..MaxRuleEdits
  /\ watcher \in {"off", "loading", "on"} /\ notices \in 0..(2 * MaxRuleEdits + 1)
  /\ inForce \in RuleSets /\ promised \in RuleSets /\ disturbed \subseteq RuleNames

\* While no command runs, the file holds the rules the users were told it holds, each but
\* those that a command wrote over with what it had read before, or that a torn, mixed or
\* unparsable file took along.  When the daemon has read its notices, a file whose rules
\* are all known is in force.  (A deleted file leaves the rules in force until a restart.)
RulesKept ==
  /\ (ruleFile.state = "ok" /\ \A c \in Shells : command[c].pc = "idle") =>
       {r \in ruleFile.rules : r.id \notin disturbed} = {r \in promised : r.id \notin disturbed}
  /\ (watcher = "on" /\ notices = 0 /\ Acceptable(ruleFile)) => inForce = ruleFile.rules
=============================================================================
