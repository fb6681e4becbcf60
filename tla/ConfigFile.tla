------------------------------ MODULE ConfigFile ------------------------------
(***************************************************************************)
(* The settings file and the commands that rewrite it, each in a process   *)
(* of its own and none with a lock: "mcp add / remove", "email setup",     *)
(* "skills enable / disable / install / remove / configure" and the        *)
(* wizard, which every command that loads the settings also starts when    *)
(* there is no file.  Each reads the file, edits what it read, truncates   *)
(* the file and writes the whole of it.                                    *)
(*                                                                         *)
(* A setting is a pair <<section, value>>; the file is a set of them.      *)
(* "default" and "fallback" are the model routes with the credentials of   *)
(* their provider, "creds" a provider without a route; "detail" is all     *)
(* that the wizard neither asks nor writes: memory, tracing, security, the *)
(* API version of Azure, further providers and embeddings.  A setting that *)
(* a default fills in counts as absent.  "text" is how the values that no  *)
(* command replaces, such as the password of an account, are written: with *)
(* references to the environment (or anything else that os.ExpandEnv takes *)
(* for one), or blank where a reference came out empty.  An environment    *)
(* whose values break the YAML, so that nothing loads, is left out.        *)
(***************************************************************************)
EXTENDS Integers, FiniteSets

CONSTANTS
  Editors,        \* processes that run commands
  ProviderNames,  \* LLM providers the wizard offers
  Accepted,       \* those among them that validate accepts without a route
  SkillNames,     \* skills of the catalogue
  Accounts,       \* e-mail accounts
  Servers,        \* MCP servers
  Palace,         \* the server that an enabled MemPalace needs
  Questions,      \* bound: sections whose answer a user of the wizard may change
  MaxCommands     \* bound: commands given

\* The answer of a user who leaves a question of the wizard as it is.
Keep == "keep"

ASSUME ConfigAssumption ==
  /\ Palace \in Servers
  /\ ProviderNames # {} /\ Accepted \subseteq ProviderNames
  /\ Keep \notin SkillNames
  /\ MaxCommands \in Nat

VARIABLES
  settings, \* the file: its state and the settings in it
  editor,   \* per process the command it runs
  given,    \* commands given so far
  wanted,   \* history: the settings as the users were told they are
  excused   \* history: settings that a named hazard may have lost or brought back

configVars == <<settings, editor, given, wanted, excused>>

Settings ==
  ({"default", "fallback", "creds"} \X ProviderNames) \cup ({"route"} \X {"coding", "vision"})
    \cup ({"skill"} \X SkillNames) \cup ({"account"} \X Accounts) \cup ({"server"} \X Servers)
    \cup {<<"plano", "on">>, <<"embed", "chosen">>, <<"intel", "on">>, <<"gateway", "lan">>,
          <<"gateway", "token">>, <<"channel", "telegram">>, <<"detail", "palace">>,
          <<"text", "reference">>, <<"text", "blank">>}

Section(items, s) == {i \in items : i[1] = s}

\* The sections that the wizard's text does not have: it writes what it loaded, expanded.
Unwritten == {"creds", "account", "server", "detail", "text"}

\* A complete file, and what the environment alone gives.
complete(p, q) ==
  {<<"default", p>>, <<"fallback", q>>, <<"plano", "on">>, <<"route", "coding">>,
   <<"gateway", "token">>, <<"channel", "telegram">>, <<"detail", "palace">>,
   <<"text", "reference">>, <<"server", Palace>>}
    \cup ({"skill"} \X SkillNames) \cup ({"account"} \X Accounts)

FromEnv == {{}} \cup {{<<"creds", p>>} : p \in ProviderNames}

Nobody ==
  [pc |-> "idle", name |-> "none", item |-> <<"none", "none">>, rest |-> {}, wizard |-> FALSE,
   base |-> {}, next |-> {}, parses |-> TRUE, said |-> {}]

ConfigInit ==
  /\ \/ settings = [state |-> "missing", items |-> {}]
     \/ \E p \in ProviderNames : \E q \in ProviderNames \ {p} :
          settings = [state |-> "ok", items |-> complete(p, q)]
  /\ editor = [e \in Editors |-> Nobody]
  /\ given = 0
  /\ wanted = settings.items
  /\ excused = {}

-----------------------------------------------------------------------------
(* What a command makes of the settings it read.                           *)

\* validate: a route or a provider that needs none, and the server of an enabled MemPalace.
Loads(items) ==
  /\ Section(items, "default") # {} \/ items \cap ({"creds"} \X Accepted) # {}
  /\ <<"detail", "palace">> \in items => <<"server", Palace>> \in items

\* Load: it reads, expands, parses, fills in defaults and validates.
Loadable == settings.state = "ok" /\ Loads(settings.items)

\* Load expands the references in the whole text, to what the environment of this process
\* has for them or, where it has nothing, to nothing.
Expansions(items) ==
  LET plain == items \ {<<"text", "reference">>}
  IN IF plain = items THEN {items} ELSE {plain, plain \cup {<<"text", "blank">>}}

\* A yes-or-no question, its answer prefilled from the old settings.
Chosen(old, item, c) == IF c = "on" \/ (c = Keep /\ item \in old) THEN {item} ELSE {}

\* The routes of the old settings; without one the first provider of the list is preselected.
PrimaryKept(old) ==
  LET now == Section(old, "default")
  IN IF now # {} THEN now ELSE {<<"default", CHOOSE p \in ProviderNames : TRUE>>}

SecondaryKept(old) == Section(old, "fallback")

AskPrimary(old, c) == IF c = Keep THEN PrimaryKept(old) ELSE {<<"default", c>>}

AskSecondary(old, c) ==
  CASE c = Keep -> SecondaryKept(old)
    [] c = "none" -> {}
    [] OTHER -> {<<"fallback", c>>}

\* Smart routing is only asked about beside a secondary provider, and kept without.
AskPlano(old, secondary, c) ==
  Chosen(old, <<"plano", "on">>, IF secondary = {} THEN Keep ELSE c)

AskRoutes(old, c) ==
  {<<"route", t>> : t \in {t \in {"coding", "vision"} : (<<"route", t>> \in old) # (c = t)}}

AskEmbedding(old, c) == Chosen(old, <<"embed", "chosen">>, c)

\* Preparing the model may fail, and the wizard with it: see Interrupted.
AskLocalIntel(old, c) == Chosen(old, <<"intel", "on">>, c)

\* An empty token is replaced by a random one.
AskGateway(old, c) == Chosen(old, <<"gateway", "lan">>, c) \cup {<<"gateway", "token">>}

\* Broken: the channels of the old settings are not preselected.
AskChannelsAfresh(old, c) == Chosen({}, <<"channel", "telegram">>, c)

AskChannels(old, c) == Chosen(old, <<"channel", "telegram">>, c)

\* The selection stays as it was when the catalogue cannot be fetched.
AskSkills(old, c) ==
  {<<"skill", s>> : s \in {s \in SkillNames : (<<"skill", s>> \in old) # (c = s)}}

\* The user changes the answer to at most one question, one of Questions.
Answers ==
  {<<"none", Keep>>} \cup
  {a \in ({"default"} \X ProviderNames) \cup ({"fallback"} \X (ProviderNames \cup {"none"}))
           \cup ({"route"} \X {"coding", "vision"}) \cup ({"skill"} \X SkillNames)
           \cup ({"plano", "embed", "intel", "gateway", "channel"} \X {"on", "off"}) :
     a[1] \in Questions}

\* The text that the wizard writes: nothing but what it asked.
WizardText(old, a) ==
  LET c(s) == IF a[1] = s THEN a[2] ELSE Keep
      secondary == AskSecondary(old, c("fallback"))
  IN AskPrimary(old, c("default")) \cup secondary \cup AskPlano(old, secondary, c("plano"))
       \cup AskRoutes(old, c("route")) \cup AskEmbedding(old, c("embed"))
       \cup AskLocalIntel(old, c("intel")) \cup AskGateway(old, c("gateway"))
       \cup AskChannels(old, c("channel")) \cup AskSkills(old, c("skill"))

\* One provider as primary and as secondary makes a key appear twice.
OneKeyEach(items) ==
  \A d \in Section(items, "default") : <<"fallback", d[2]>> \notin items

ToggleSkill(items, name, item) ==
  IF name \in {"skills disable", "skills remove"} THEN items \ {item} ELSE items \cup {item}

-----------------------------------------------------------------------------
Done(e) == editor' = [editor EXCEPT ![e] = Nobody]

At(e, pc, names) == editor[e].pc = pc /\ editor[e].name \in names

ServerCommands == {"mcp add", "mcp remove"}
SwitchCommands == {"skills enable", "skills disable"}
LoadingSwitches == {"skills install", "skills remove", "skills configure"}

CommandNames ==
  ServerCommands \cup SwitchCommands \cup LoadingSwitches \cup {"email setup", "onboard"}

GiveCommand(e) ==
  /\ editor[e].pc = "idle"
  /\ given < MaxCommands /\ given' = given + 1
  /\ \E name \in CommandNames :
     \E item \in Settings \cup {<<"none", "none">>} :
       /\ item[1] = CASE name \in ServerCommands -> "server"
                      [] name = "email setup" -> "account"
                      [] name = "onboard" -> "none"
                      [] OTHER -> "skill"
       /\ \E rest \in SUBSET SkillNames :
            /\ rest # {} => name = "skills configure"
            /\ item[2] \notin rest
            /\ editor' = [editor EXCEPT ![e] = [Nobody EXCEPT !.pc = "load", !.name = name,
                                                              !.item = item, !.rest = rest]]
  /\ UNCHANGED <<settings, wanted, excused>>

\* The wizard: its questions are prefilled from a file that loads.  Answers count as
\* given when the user changed them or had nothing to keep; the token is announced.
Onboard(e) ==
  /\ editor[e].pc = "load"
  /\ \/ editor[e].name = "onboard"
     \/ /\ editor[e].name \in ServerCommands \cup LoadingSwitches
        /\ settings.state = "missing"
  /\ LET old == IF Loadable THEN settings.items ELSE {}
     IN \E a \in Answers :
          editor' = [editor EXCEPT
            ![e].pc = "open", ![e].wizard = TRUE,
            ![e].base = settings.items, ![e].next = WizardText(old, a),
            ![e].parses = OneKeyEach(WizardText(old, a)),
            ![e].said = IF ~Loadable THEN {i[1] : i \in Settings} \ Unwritten
                          ELSE IF Section(old, "default") = {} THEN {a[1], "gateway", "default"}
                          ELSE {a[1], "gateway"}]
  /\ UNCHANGED <<settings, given, wanted, excused>>

\* The wizard is left at a question, or cannot prepare the local model.  A command that
\* wanted the settings goes on with those of the environment, where no server is known.
Interrupted(e) ==
  /\ editor[e].pc = "open" /\ editor[e].wizard
  /\ \/ /\ editor[e].name \in {"onboard", "mcp remove"}
        /\ Done(e) /\ UNCHANGED excused
     \/ /\ editor[e].name \in LoadingSwitches
        /\ editor' = [editor EXCEPT ![e].pc = "read", ![e].wizard = FALSE]
        /\ UNCHANGED excused
     \/ /\ editor[e].name = "mcp add"
        /\ \E env \in FromEnv :
             /\ editor' = [editor EXCEPT ![e].base = env, ![e].next = env \cup {editor[e].item},
                                         ![e].wizard = FALSE, ![e].parses = TRUE]
             /\ excused' = excused \cup env
  /\ UNCHANGED <<settings, given, wanted>>

\* mcp add refuses a name that is registered, mcp remove one that is not.  What they will
\* write is what Load made of the file.
LoadForServer(e) ==
  /\ At(e, "load", ServerCommands) /\ settings.state # "missing"
  /\ LET known == editor[e].item \in settings.items
         adding == editor[e].name = "mcp add"
     IN IF ~Loadable \/ adding = known
          THEN Done(e)
          ELSE \E loaded \in Expansions(settings.items) :
                 editor' = [editor EXCEPT
                   ![e].pc = "open", ![e].base = settings.items,
                   ![e].next = IF adding THEN loaded \cup {editor[e].item}
                                         ELSE loaded \ {editor[e].item}]
  /\ UNCHANGED <<settings, given, wanted, excused>>

\* The account is added to the file, or replaced in it; no file, or an empty one, is a start.
EmailSettings(items, account) == items \cup {account}

\* email setup reads the file without expanding or validating it.
LoadForEmail(e) ==
  /\ At(e, "load", {"email setup"})
  /\ IF settings.state = "unparsable"
       THEN Done(e)
       ELSE editor' = [editor EXCEPT ![e].pc = "open", ![e].base = settings.items,
                                     ![e].next = EmailSettings(settings.items, editor[e].item)]
  /\ UNCHANGED <<settings, given, wanted, excused>>

\* install, remove and configure load the settings before they reach the switch; the
\* skill may then not be had.
LoadForSwitch(e) ==
  /\ At(e, "load", SwitchCommands \cup LoadingSwitches)
  /\ editor[e].name \in LoadingSwitches => settings.state # "missing"
  /\ \/ /\ editor[e].name \in SwitchCommands \/ Loadable
        /\ editor' = [editor EXCEPT ![e].pc = "read"]
     \/ /\ editor[e].name \in LoadingSwitches
        /\ ~Loadable \/ editor[e].name # "skills remove"
        /\ Done(e)
  /\ UNCHANGED <<settings, given, wanted, excused>>

Rest(e) ==
  IF editor[e].rest = {}
    THEN Nobody
    ELSE LET s == CHOOSE s \in editor[e].rest : TRUE
         IN [Nobody EXCEPT !.pc = "read", !.name = editor[e].name, !.item = <<"skill", s>>,
                           !.rest = editor[e].rest \ {s}]

\* The switch reads the file as it is; over an empty one the process panics, and configure
\* goes on to its next skill after an error.
ReadForSwitch(e) ==
  /\ editor[e].pc = "read"
  /\ LET now == editor[e]
     IN editor' = [editor EXCEPT ![e] =
          CASE settings.state = "ok" ->
                 [now EXCEPT !.pc = "open", !.base = settings.items,
                             !.next = ToggleSkill(settings.items, now.name, now.item)]
            [] settings.state = "empty" -> Nobody
            [] OTHER -> Rest(e)]
  /\ UNCHANGED <<settings, given, wanted, excused>>

-----------------------------------------------------------------------------
(* os.WriteFile: the file is truncated when it is opened, and written then. *)

Differing(a, b) == (a \ b) \cup (b \ a)

\* What the command tells its user.
Promise(e) ==
  LET now == editor[e]
  IN IF now.wizard
       THEN {i \in wanted : i[1] \notin now.said} \cup {i \in now.next : i[1] \in now.said}
       ELSE (wanted \ {now.item}) \cup (now.next \cap {now.item})

\* What a command that loads the settings to write them has made of references.
Expanded(now) ==
  IF now.name \in ServerCommands THEN Section(Differing(now.base, now.next), "text") ELSE {}

\* Settings that others wrote since this command read the file are overwritten.
OpenFile(e) ==
  /\ editor[e].pc = "open"
  /\ settings' = [state |-> "empty", items |-> {}]
  /\ editor' = [editor EXCEPT ![e].pc = "write"]
  /\ excused' = IF settings.state = "ok"
                  THEN excused \cup Differing(settings.items, editor[e].base) ELSE excused
  /\ UNCHANGED <<given, wanted>>

\* The file cannot be opened: every command but the wizard says so.
OpenFails(e) ==
  /\ editor[e].pc = "open"
  /\ IF editor[e].wizard
       THEN wanted' = Promise(e) /\ excused' = Settings
       ELSE UNCHANGED <<wanted, excused>>
  /\ editor' = [editor EXCEPT ![e] = Rest(e)]
  /\ UNCHANGED <<settings, given>>

\* The text is written from the file's start: over what another command wrote since the
\* truncation, the longer of the two shows at the end.
WriteFile(e) ==
  /\ editor[e].pc = "write"
  /\ wanted' = Promise(e)
  /\ \/ /\ settings.state = "empty" /\ editor[e].parses
        /\ settings' = [state |-> "ok", items |-> editor[e].next]
        /\ excused' = IF editor[e].wizard
                        THEN {i \in excused : i[1] \notin editor[e].said}
                               \cup {i \in wanted : i[1] \in Unwritten}
                        ELSE (excused \ {editor[e].item}) \cup Expanded(editor[e])
     \/ /\ settings.state # "empty" /\ editor[e].parses
        /\ settings' = [state |-> "ok", items |-> editor[e].next]
        /\ excused' = Settings
     \/ /\ settings.state # "empty" \/ ~editor[e].parses
        /\ settings' = [state |-> "unparsable", items |-> {}]
        /\ excused' = Settings
  /\ IF editor[e].wizard /\ editor[e].name # "onboard"
       THEN editor' = [editor EXCEPT ![e].pc = "load", ![e].wizard = FALSE]
       ELSE editor' = [editor EXCEPT ![e] = Rest(e)]
  /\ UNCHANGED given

\* The process ends, or the disk is full, between the two.
WriteLost(e) ==
  /\ editor[e].pc = "write"
  /\ excused' = Settings
  /\ Done(e)
  /\ UNCHANGED <<settings, given, wanted>>

ConfigNext ==
  \E e \in Editors :
    \/ GiveCommand(e) \/ Onboard(e) \/ Interrupted(e)
    \/ LoadForServer(e) \/ LoadForEmail(e) \/ LoadForSwitch(e) \/ ReadForSwitch(e)
    \/ OpenFile(e) \/ OpenFails(e) \/ WriteFile(e) \/ WriteLost(e)

-----------------------------------------------------------------------------
ConfigTypeOK ==
  /\ settings.state \in {"missing", "empty", "ok", "unparsable"}
  /\ settings.items \subseteq Settings
  /\ \A e \in Editors :
       /\ editor[e].pc \in {"idle", "load", "read", "open", "write"}
       /\ editor[e].base \subseteq Settings /\ editor[e].next \subseteq Settings
  /\ given \in 0..MaxCommands
  /\ wanted \subseteq Settings /\ excused \subseteq Settings

\* While no command runs, the settings are the ones that the commands told their users,
\* each of them but those which a command wrote over with what it had read before, which a
\* failed, torn or mixed write took along, which the wizard does not write, or of which "mcp
\* add" or "mcp remove" has written what a reference to the environment stood for.
ConfigKept ==
  (settings.state = "ok" /\ \A e \in Editors : editor[e].pc = "idle") =>
    settings.items \ excused = wanted \ excused
=============================================================================
