------------------------------- MODULE MailWatch -------------------------------
(***************************************************************************)
(* The watchers of one mail account (internal/email: imap.go, gmail.go,    *)
(* graph.go) and what the email service makes of a new mail (service.go    *)
(* Run, pipeline.go ProcessNewMail).  The daemon starts two on every       *)
(* account: the service's own and the proactive engine's email trigger     *)
(* (cmd/assistclaw/main.go, proactive/email_trigger.go), on one database.  *)
(*                                                                         *)
(* A mail is its UID.  Mails of goals are EmailGoals'; a server that does  *)
(* not announce UIDNEXT is left out.                                       *)
(***************************************************************************)
EXTENDS Integers, FiniteSets

CONSTANTS
  Watchers,      \* of {"service", "trigger"}
  Backends,      \* of {"imap", "list"}; Gmail and Graph list the newest mails
  PageSize,      \* of such a list, 15 in the code
  MaxMails,      \* bound: mails that are in the mailbox or arrive
  MaxCrashes     \* bound: crashes of the daemon

ASSUME MailConfig ==
  /\ Watchers \subseteq {"service", "trigger"}
  /\ Backends \subseteq {"imap", "list"}
  /\ {PageSize, MaxMails, MaxCrashes} \subseteq Nat

VARIABLES
  backend,
  mails,        \* the UID of the newest mail
  lastUID,      \* the cursor in imap_state
  stored,       \* rows of email_messages
  drafts,       \* how many drafts of each mail, a function on the rows
  watch,        \* each watcher: "waiting", "selected", "reading" or "handling"
  seenNext,     \* UIDNEXT of its SELECT
  from,         \* the cursor it read
  todo,         \* mails its search found, still to be handled
  handled,      \* the highest UID it has handled in this poll
  step,         \* of ProcessNewMail: "fetch", "stored" or "drafted"
  crashes,
  baseline,     \* history: the highest UID passed over as old mail
  seen,         \* history: mails the trigger handled
  settled,      \* history: mails the rules ignore or the rate limit passed over
  botched        \* history: mails whose processing failed or crashed half-way

mailStore   == <<lastUID, stored, drafts>>
pollVars    == <<watch, seenNext, from, todo, handled, step>>
mailHistory == <<baseline, seen, settled, botched>>
mailVars    == <<backend, mails, mailStore, pollVars, crashes, mailHistory>>

MailInit ==
  /\ backend \in Backends
  /\ mails \in 0..MaxMails
  /\ lastUID = 0 /\ stored = {} /\ drafts = [m \in 1..MaxMails |-> 0]
  /\ watch = [w \in Watchers |-> "waiting"]
  /\ seenNext = [w \in Watchers |-> 0]
  /\ from = [w \in Watchers |-> 0]
  /\ todo = [w \in Watchers |-> {}]
  /\ handled = [w \in Watchers |-> 0]
  /\ step = "fetch"
  /\ crashes = 0
  /\ baseline = 0 /\ seen = {} /\ settled = {} /\ botched = {}

MailArrives ==
  /\ mails < MaxMails
  /\ mails' = mails + 1
  /\ UNCHANGED <<backend, mailStore, pollVars, crashes, mailHistory>>

-----------------------------------------------------------------------------
(* poll of the IMAP backend *)

Select(w) ==
  /\ backend = "imap" /\ watch[w] = "waiting"
  /\ watch' = [watch EXCEPT ![w] = "selected"]
  /\ seenNext' = [seenNext EXCEPT ![w] = mails + 1]
  /\ UNCHANGED <<backend, mails, mailStore, from, todo, handled, step, crashes, mailHistory>>

ReadCursor(w) ==
  /\ watch[w] = "selected"
  /\ from' = [from EXCEPT ![w] = lastUID]
  /\ watch' = [watch EXCEPT ![w] = "reading"]
  /\ UNCHANGED <<backend, mails, mailStore, seenNext, todo, handled, step, crashes, mailHistory>>

\* With no cursor, the mails that are there count as old.  A mailbox that was
\* empty leaves no cursor either: the next poll takes its first mails for old.
FirstSync(w) == from[w] = 0 /\ seenNext[w] > 1

Start(w) == IF FirstSync(w) THEN seenNext[w] - 1 ELSE from[w]

Search(w) ==
  /\ watch[w] = "reading"
  /\ IF FirstSync(w)
     THEN /\ lastUID' = Start(w)
          /\ baseline' = IF Start(w) > baseline THEN Start(w) ELSE baseline
     ELSE UNCHANGED <<lastUID, baseline>>
  /\ from' = [from EXCEPT ![w] = Start(w)]
  /\ todo' = [todo EXCEPT ![w] = (Start(w) + 1)..mails]
  /\ handled' = [handled EXCEPT ![w] = 0]
  /\ watch' = [watch EXCEPT ![w] = "handling"]
  /\ UNCHANGED <<backend, mails, stored, drafts, seenNext, step, crashes, seen, settled, botched>>

(* poll of the Gmail and Graph backends: the newest page, without a cursor *)

List(w) ==
  /\ backend = "list" /\ watch[w] = "waiting"
  /\ todo' = [todo EXCEPT ![w] = {m \in 1..mails : m > mails - PageSize}]
  /\ watch' = [watch EXCEPT ![w] = "handling"]
  /\ UNCHANGED <<backend, mails, mailStore, seenNext, from, handled, step, crashes, mailHistory>>

\* The watcher waits for its ticker, and the variables of its poll are gone.
PollOver(w) ==
  /\ watch' = [watch EXCEPT ![w] = "waiting"]
  /\ seenNext' = [seenNext EXCEPT ![w] = 0] /\ from' = [from EXCEPT ![w] = 0]
  /\ handled' = [handled EXCEPT ![w] = 0]

\* Broken: the cursor moves even if a mail failed.
PollEndsAlways(w) ==
  /\ watch[w] = "handling"
  /\ lastUID' = IF backend = "imap" /\ mails > from[w] THEN mails ELSE lastUID
  /\ PollOver(w)
  /\ UNCHANGED <<backend, mails, stored, drafts, todo, step, crashes, mailHistory>>

\* The cursor is saved when every mail of the poll was handled, back to an
\* earlier one if the other watcher was faster; a failure to save is ignored.
PollEnds(w) ==
  /\ watch[w] = "handling" /\ todo[w] = {}
  /\ lastUID' \in {lastUID} \union
       (IF backend = "imap" /\ handled[w] > from[w] THEN {handled[w]} ELSE {})
  /\ PollOver(w)
  /\ UNCHANGED <<backend, mails, stored, drafts, todo, step, crashes, mailHistory>>

-----------------------------------------------------------------------------
(* The handler of a mail *)

\* IMAP gives the oldest first, a list the newest.
NextMail(w) ==
  IF backend = "imap" THEN CHOOSE m \in todo[w] : \A n \in todo[w] : m <= n
                      ELSE CHOOSE m \in todo[w] : \A n \in todo[w] : m >= n

Handling(w) == watch[w] = "handling" /\ todo[w] # {}

Advance(w) ==
  /\ todo' = [todo EXCEPT ![w] = @ \ {NextMail(w)}]
  /\ handled' = [handled EXCEPT ![w] = IF NextMail(w) > @ THEN NextMail(w) ELSE @]

\* A list is compared with the rows, mail by mail.
KnownMail(w) == backend = "list" /\ NextMail(w) \in stored

SkipKnown(w) ==
  /\ Handling(w) /\ KnownMail(w)
  /\ w = "service" => step = "fetch"
  /\ Advance(w)
  /\ UNCHANGED <<backend, mails, mailStore, watch, seenNext, from, step, crashes, mailHistory>>

\* The trigger emits an event, or gives a mail up that it cannot fetch.
TriggerHandles ==
  /\ "trigger" \in Watchers /\ Handling("trigger") /\ ~KnownMail("trigger")
  /\ Advance("trigger")
  /\ seen' = seen \union {NextMail("trigger")}
  /\ UNCHANGED <<backend, mails, mailStore, watch, seenNext, from, step, crashes, baseline,
                 settled, botched>>

ServiceAt(s) == "service" \in Watchers /\ Handling("service") /\ step = s

Mail == NextMail("service")

\* An error ends the poll before the cursor is saved.
Abort ==
  /\ PollOver("service")
  /\ todo' = [todo EXCEPT !["service"] = {}]
  /\ step' = "fetch"
  /\ UNCHANGED <<backend, mails, lastUID, stored, crashes, baseline, seen, settled>>

\* The fetch, the rules, the rate limit or the insertion fails.
ServiceFailsEarly ==
  /\ ServiceAt("fetch") /\ ~KnownMail("service")
  /\ Abort
  /\ UNCHANGED <<drafts, botched>>

\* A rule ignores the mail, the account has had its drafts of this hour, or the
\* mail is stored already.
ServicePasses ==
  /\ ServiceAt("fetch") /\ ~KnownMail("service")
  /\ Advance("service")
  /\ settled' = IF Mail \in stored THEN settled ELSE settled \union {Mail}
  /\ UNCHANGED <<backend, mails, mailStore, watch, seenNext, from, step, crashes, baseline,
                 seen, botched>>

\* Broken: does not look whether the mail is stored.
ServiceStoresAgain ==
  /\ ServiceAt("fetch")
  /\ stored' = stored \union {Mail}
  /\ step' = "stored"
  /\ UNCHANGED <<backend, mails, lastUID, drafts, watch, seenNext, from, todo, handled, crashes,
                 mailHistory>>

ServiceStores ==
  /\ ServiceAt("fetch") /\ Mail \notin stored
  /\ stored' = stored \union {Mail}
  /\ step' = "stored"
  /\ UNCHANGED <<backend, mails, lastUID, drafts, watch, seenNext, from, todo, handled, crashes,
                 mailHistory>>

\* The model or the insertion of the draft fails: the row stays.
DraftFails ==
  /\ ServiceAt("stored")
  /\ Abort
  /\ botched' = botched \union {Mail}
  /\ UNCHANGED drafts

InsertDraft ==
  /\ ServiceAt("stored")
  /\ drafts' = [drafts EXCEPT ![Mail] = @ + 1]
  /\ step' = "drafted"
  /\ UNCHANGED <<backend, mails, lastUID, stored, watch, seenNext, from, todo, handled, crashes,
                 mailHistory>>

\* The post asks the user to approve the draft.
PublishDraft ==
  /\ ServiceAt("drafted")
  /\ Advance("service")
  /\ step' = "fetch"
  /\ UNCHANGED <<backend, mails, mailStore, watch, seenNext, from, crashes, mailHistory>>

\* The draft stays pending and nobody was told.
PublishFails ==
  /\ ServiceAt("drafted")
  /\ Abort
  /\ UNCHANGED <<drafts, botched>>

-----------------------------------------------------------------------------
\* The daemon is killed and started again.
MailCrash ==
  /\ crashes < MaxCrashes
  /\ crashes' = crashes + 1
  /\ watch' = [w \in Watchers |-> "waiting"]
  /\ seenNext' = [w \in Watchers |-> 0] /\ from' = [w \in Watchers |-> 0]
  /\ handled' = [w \in Watchers |-> 0] /\ todo' = [w \in Watchers |-> {}]
  /\ step' = "fetch"
  /\ botched' = IF ServiceAt("stored") THEN botched \union {Mail} ELSE botched
  /\ UNCHANGED <<backend, mails, mailStore, baseline, seen, settled>>

Service ==
  \/ ServiceFailsEarly \/ ServicePasses \/ ServiceStores \/ DraftFails
  \/ InsertDraft \/ PublishDraft \/ PublishFails

MailNext ==
  \/ MailArrives
  \/ \E w \in Watchers : 
       Select(w) \/ ReadCursor(w) \/ Search(w) \/ List(w) \/ SkipKnown(w) \/ PollEnds(w)
  \/ TriggerHandles
  \/ Service
  \/ MailCrash

MailSpec == MailInit /\ [][MailNext]_mailVars

-----------------------------------------------------------------------------
(* Properties *)

MailTypeOK ==
  /\ backend \in Backends
  /\ mails \in 0..MaxMails /\ lastUID \in 0..MaxMails
  /\ stored \subseteq 1..MaxMails
  /\ drafts \in [1..MaxMails -> Nat]
  /\ watch \in [Watchers -> {"waiting", "selected", "reading", "handling"}]
  /\ seenNext \in [Watchers -> Nat] /\ from \in [Watchers -> Nat]
  /\ todo \in [Watchers -> SUBSET (1..MaxMails)]
  /\ handled \in [Watchers -> 0..MaxMails]
  /\ step \in {"fetch", "stored", "drafted"}
  /\ crashes \in 0..MaxCrashes
  /\ baseline \in 0..MaxMails
  /\ {seen, settled, botched} \subseteq SUBSET (1..MaxMails)

\* The cursor never passes a mail that was not looked at: through failures,
\* crashes and the other watcher's moves of the same cursor, every mail up to it
\* was taken for old by a first poll, was stored, ignored or limited by the
\* service, or went to the trigger, in which case the service may never see it.
NothingPassedOver == \A m \in 1..lastUID :
  m <= baseline \/ m \in stored \union settled \union seen

\* A mail gets one draft at most, however often it is polled, and one that is
\* stored without a draft is being worked on or met a failure or a crash then
\* (no later poll drafts it: the row is all the polls look at).
OneDraftEach == \A m \in stored :
  /\ drafts[m] <= 1
  /\ drafts[m] = 0 => m \in botched \/ (ServiceAt("stored") /\ m = Mail)
=============================================================================
