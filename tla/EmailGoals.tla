----------------------------- MODULE EmailGoals -----------------------------
(***************************************************************************)
(* Goal-driven email threads (internal/email/goals.go, goals_store.go,     *)
(* approvals.go and store.go, cmd/assistclaw/goal_cmd.go): one goal, its   *)
(* drafts, and the actors that share its rows in email.db:                 *)
(*   - the opener: `goal add`, a process of its own;                       *)
(*   - handlers of approve, reject and edit: one goroutine per chat        *)
(*     message, and the process of `email approve`;                        *)
(*   - the follow-up loop and the mail watcher of each program that runs   *)
(*     the email service: the REPL and --serve both do, over one email.db; *)
(*   - `goal cancel`, a process of its own.                                *)
(* The store runs one SQL statement at a time and no transactions, so a    *)
(* step is one statement, one mail or one LLM call, and any actor may be   *)
(* aborted between two (an error returned, its context ended, a kill).     *)
(* Every mail here comes from the goal's counterpart, and the thread's     *)
(* references are left out: FindActiveGoalForInbound matches the sender.   *)
(***************************************************************************)
EXTENDS Naturals, FiniteSets

CONSTANTS
  MaxDrafts,     \* bound: rows of email_drafts
  Mails,         \* mails of the counterpart
  Handlers,      \* commands that can run at the same time
  Programs,      \* processes that run Service.Run: the REPL, --serve
  MaxFollowups,  \* max_followups
  None           \* no mail

ASSUME GoalConfig ==
  /\ MaxDrafts \in Nat
  /\ MaxFollowups \in Nat \ {0}   \* InsertGoal replaces 0 by 3
  /\ None \notin Mails \union Programs
  /\ "opener" \notin Mails \union Programs
  /\ Mails \intersect Programs = {}

Drafts == 1..MaxDrafts

VARIABLES
  goal,          \* status of the goal's row; "none" before it exists
  followups,     \* followups_sent, counted up to MaxFollowups
  silent,        \* last_activity + followup_after_secs <= now
  nDrafts,       \* rows of email_drafts, in the order of their tokens
  draft,         \* their status; "none" for a row to come
  origin,        \* what a draft answers: the mail, or the goal's anchor row
  stored,        \* the mails with a row in email_messages
  sent,          \* the mails the counterpart has sent
  behind,        \* those behind the cursor of each program's watcher
  opening, cancelling,  \* where these two processes stand
  loop, watch,   \* where the loop and the watcher of each program stand
  cur,           \* the mail its watcher processes
  at,            \* where each handler stands
  tok,           \* its draft, 0 when idle
  nudge,         \* the handlers whose wasFollowup is true
  outdated       \* the handlers whose draft was edited since they read its body

goalRow == <<goal, followups, silent>>
drafts  == <<nDrafts, draft, origin>>
inbox   == <<stored, sent, behind, watch, cur>>
command == <<at, tok, nudge, outdated>>
others  == <<opening, cancelling, loop>>
vars    == <<goalRow, drafts, inbox, command, others>>

GoalOpen     == goal \in {"active", "waiting_reply", "blocked"}
Pending      == {d \in Drafts : draft[d] = "pending"}
\* The anchor row serves openers and follow-ups alike; they are told apart by who
\* inserted them, a follow-up by the program whose loop did.
IsFollowup(d) == origin[d] \in Programs
Inbox(p)      == sent \ behind[p]

Init ==
  /\ goal = "none"
  /\ followups = 0
  /\ silent = FALSE
  /\ nDrafts = 0
  /\ draft = [d \in Drafts |-> "none"]
  /\ origin = [d \in Drafts |-> None]
  /\ stored = {}
  /\ sent = {}
  /\ behind = [p \in Programs |-> {}]
  /\ opening = "start"
  /\ cancelling = FALSE
  /\ loop = [p \in Programs |-> "idle"]
  /\ watch = [p \in Programs |-> "idle"]
  /\ cur = [p \in Programs |-> None]
  /\ at = [h \in Handlers |-> "idle"]
  /\ tok = [h \in Handlers |-> 0]
  /\ nudge = {}
  /\ outdated = {}

\* The statements of the store.
SetGoalStatus(s) == goal' = s /\ silent' = FALSE /\ UNCHANGED followups
TouchGoal        == silent' = FALSE /\ UNCHANGED <<goal, followups>>

InsertGoalDraft(o) ==
  /\ nDrafts < MaxDrafts
  /\ nDrafts' = nDrafts + 1
  /\ draft' = [draft EXCEPT ![nDrafts + 1] = "pending"]
  /\ origin' = [origin EXCEPT ![nDrafts + 1] = o]

SetDraftStatus(d, s) ==
  /\ draft' = [draft EXCEPT ![d] = s]
  /\ UNCHANGED <<nDrafts, origin>>

\* followup_after passes without a touch of last_activity.  Tracked only while
\* it is read: entering and leaving waiting_reply touch last_activity.
Silence ==
  /\ goal = "waiting_reply" /\ ~silent
  /\ silent' = TRUE
  /\ UNCHANGED <<goal, followups, drafts, inbox, command, others>>

-----------------------------------------------------------------------------
(* OpenGoal.  The LLM writes the opener before the first row is inserted;  *)
(* the post to the channel is best effort.                                 *)

InsertGoal ==
  /\ opening = "start"
  /\ opening' = "goal"
  /\ SetGoalStatus("active")
  /\ UNCHANGED <<drafts, inbox, command, cancelling, loop>>

\* The row that openers and follow-ups hang on.
InsertAnchor ==
  /\ opening = "goal"
  /\ opening' = "anchored"
  /\ UNCHANGED <<goalRow, drafts, inbox, command, cancelling, loop>>

InsertOpener ==
  /\ opening = "anchored"
  /\ opening' = "done"
  /\ InsertGoalDraft("opener")
  /\ UNCHANGED <<goalRow, inbox, command, cancelling, loop>>

\* An insert failed: the goal stays, without its opener or even its anchor.
AbortOpen ==
  /\ \/ opening = "goal" /\ opening' = "unanchored"
     \/ opening = "anchored" /\ opening' = "done"
  /\ UNCHANGED <<goalRow, drafts, inbox, command, cancelling, loop>>

-----------------------------------------------------------------------------
(* HandleInboundCommand and approveGoalDraft.  A command on a token that is *)
(* not pending ends with a message and changes nothing.                     *)

Goto(h, from, to) ==
  /\ at[h] = from
  /\ at' = [at EXCEPT ![h] = to]
  /\ UNCHANGED <<tok, nudge, outdated>>

Reply(h, from) ==
  /\ at[h] = from
  /\ at' = [at EXCEPT ![h] = "idle"]
  /\ tok' = [tok EXCEPT ![h] = 0]
  /\ nudge' = nudge \ {h}
  /\ outdated' = outdated \ {h}

GetDraftByToken(h) == \E d \in Pending, verb \in {"approve", "reject", "edit"} :
  /\ at[h] = "idle"
  /\ at' = [at EXCEPT ![h] = verb]
  /\ tok' = [tok EXCEPT ![h] = d]
  /\ UNCHANGED <<goalRow, drafts, inbox, nudge, outdated, others>>

\* GetGoal; the goal's status is read for wasFollowup only.
LoadGoal(h) ==
  /\ at[h] = "approve"
  /\ at' = [at EXCEPT ![h] = "send"]
  /\ nudge' = IF goal = "waiting_reply" THEN nudge \union {h} ELSE nudge
  /\ UNCHANGED <<goalRow, drafts, inbox, tok, outdated, others>>

\* SendNew or Reply, with the body read above.
MailSent(h) ==
  /\ Goto(h, "send", "mark")
  /\ UNCHANGED <<goalRow, drafts, inbox, others>>

\* Broken: a status no other statement knows.
MarkSentUnknown(h) ==
  /\ Goto(h, "mark", "count")
  /\ SetDraftStatus(tok[h], "approved")
  /\ UNCHANGED <<goalRow, inbox, others>>

\* The errors of the next two statements are ignored: their row may stay as it is.
MarkSent(h) ==
  /\ Goto(h, "mark", "count")
  /\ SetDraftStatus(tok[h], "sent") \/ UNCHANGED drafts
  /\ UNCHANGED <<goalRow, inbox, others>>

CountFollowup(h) ==
  /\ Goto(h, "count", "await")
  /\ \/ h \in nudge /\ followups < MaxFollowups /\ followups' = followups + 1
     \/ UNCHANGED followups
  /\ UNCHANGED <<goal, silent, drafts, inbox, others>>

AwaitReply(h) ==
  /\ Reply(h, "await")
  /\ SetGoalStatus("waiting_reply")
  /\ UNCHANGED <<drafts, inbox, others>>

\* Errors are ignored here too.
RejectDraft(h) ==
  /\ Goto(h, "reject", "touch")
  /\ SetDraftStatus(tok[h], "rejected") \/ UNCHANGED drafts
  /\ UNCHANGED <<goalRow, inbox, others>>

TouchRejected(h) ==
  /\ Reply(h, "touch")
  /\ TouchGoal
  /\ UNCHANGED <<drafts, inbox, others>>

UpdateDraftBody(h) ==
  /\ at[h] = "edit"
  /\ at' = [at EXCEPT ![h] = "idle"]
  /\ tok' = [tok EXCEPT ![h] = 0]
  /\ outdated' = (outdated \union {k \in Handlers : tok[k] = tok[h]}) \ {h}
  /\ UNCHANGED <<goalRow, drafts, inbox, nudge, others>>

\* The mail was refused, an error returned, or the handler killed.
AbortCommand(h) ==
  /\ at[h] # "idle"
  /\ Reply(h, at[h])
  /\ UNCHANGED <<goalRow, drafts, inbox, others>>

-----------------------------------------------------------------------------
(* goal cancel *)

CheckOpen ==
  /\ ~cancelling /\ GoalOpen
  /\ cancelling' = TRUE
  /\ UNCHANGED <<goalRow, drafts, inbox, command, opening, loop>>

Abandon ==
  /\ cancelling
  /\ cancelling' = FALSE
  /\ SetGoalStatus("abandoned")
  /\ UNCHANGED <<drafts, inbox, command, opening, loop>>

-----------------------------------------------------------------------------
(* RunGoalFollowups: GoalsDueFollowup, then the LLM, the draft, the post.  *)
(* The loops know nothing of each other.                                   *)

LoopStep(p, from, to) ==
  /\ loop[p] = from
  /\ loop' = [loop EXCEPT ![p] = to]
  /\ UNCHANGED <<inbox, command, opening, cancelling>>

\* Broken: a scan that does not look at the drafts.
DueUnchecked ==
  /\ goal = "waiting_reply"
  /\ followups < MaxFollowups
  /\ silent

\* Broken: the last follow-up is never due.
DueOneShort ==
  /\ goal = "waiting_reply"
  /\ followups + 1 < MaxFollowups
  /\ silent
  /\ Pending = {}

Due ==
  /\ goal = "waiting_reply"
  /\ followups < MaxFollowups
  /\ silent
  /\ Pending = {}

ScanDue(p) ==
  /\ Due
  /\ LoopStep(p, "idle", "drafting")
  /\ UNCHANGED <<goalRow, drafts>>

\* MessageRowID must find the anchor.  The scan is not repeated.
DraftFollowup(p) ==
  /\ opening \in {"anchored", "done"}
  /\ LoopStep(p, "drafting", "posting")
  /\ InsertGoalDraft(p)
  /\ UNCHANGED goalRow

TouchPosted(p) ==
  /\ LoopStep(p, "posting", "idle")
  /\ TouchGoal
  /\ UNCHANGED drafts

\* The LLM, the insert or the post failed, or the program was killed.
AbortLoop(p) ==
  /\ loop[p] # "idle"
  /\ LoopStep(p, loop[p], "idle")
  /\ UNCHANGED <<goalRow, drafts>>

-----------------------------------------------------------------------------
(* The watchers: maybeHandleGoalInbound and handleGoalInbound.  A mail whose *)
(* processing failed stays in the program's inbox for its next poll.         *)

Arrive(m) ==
  /\ m \notin sent
  /\ sent' = sent \union {m}
  /\ UNCHANGED <<goalRow, drafts, stored, behind, watch, cur, command, others>>

Done(p, m) == behind' = [behind EXCEPT ![p] = @ \union {m}]
Idle(p, m) == watch[p] = "idle" /\ m \in Inbox(p)

\* Broken: a mail that has its row already is an error while the goal is open.
PassOverClosed(p, m) ==
  /\ Idle(p, m)
  /\ m \in stored /\ ~GoalOpen
  /\ Done(p, m)
  /\ UNCHANGED <<goalRow, drafts, stored, sent, watch, cur, command, others>>

\* A mail that has its row already is left alone, by the goal and by the triage.
PassOver(p, m) ==
  /\ Idle(p, m)
  /\ m \in stored
  /\ Done(p, m)
  /\ UNCHANGED <<goalRow, drafts, stored, sent, watch, cur, command, others>>

\* Without an open goal the generic triage takes the mail: it may store it, and it
\* may fail after that.  Its own drafts belong to no goal.
Triage(p, m) ==
  /\ Idle(p, m)
  /\ m \notin stored /\ ~GoalOpen
  /\ stored' \in {stored, stored \union {m}}
  /\ Done(p, m) \/ (m \in stored' /\ UNCHANGED behind)
  /\ UNCHANGED <<goalRow, drafts, sent, watch, cur, command, others>>

TakeUp(p, m) ==
  /\ Idle(p, m)
  /\ watch' = [watch EXCEPT ![p] = "store"]
  /\ cur' = [cur EXCEPT ![p] = m]
  /\ UNCHANGED <<goalRow, drafts, stored, sent, behind, command, others>>

MatchGoal(p, m) == GoalOpen /\ m \notin stored /\ TakeUp(p, m)

Process(p, m) == PassOver(p, m) \/ Triage(p, m) \/ MatchGoal(p, m)

\* Broken: email_messages takes a second row of the mail.
InsertMessageAgain(p) ==
  /\ watch[p] = "store"
  /\ watch' = [watch EXCEPT ![p] = "assess"]
  /\ stored' = stored \union {cur[p]}
  /\ UNCHANGED <<goalRow, drafts, sent, behind, cur, command, others>>

\* UNIQUE(account_name, provider_msg_id): the second program to insert the mail
\* gets an error, and passes it over at its next poll.
InsertMessage(p) ==
  /\ watch[p] = "store" /\ cur[p] \notin stored
  /\ watch' = [watch EXCEPT ![p] = "assess"]
  /\ stored' = stored \union {cur[p]}
  /\ UNCHANGED <<goalRow, drafts, sent, behind, cur, command, others>>

Finish(p, step) ==
  /\ watch[p] = step
  /\ watch' = [watch EXCEPT ![p] = "idle"]
  /\ cur' = [cur EXCEPT ![p] = None]
  /\ UNCHANGED <<stored, sent, drafts, command, others>>

\* The row may be updated and its event refused: an error, and the mail comes again.
Verdict(p, s) ==
  /\ Finish(p, "assess")
  /\ Done(p, cur[p]) \/ UNCHANGED behind
  /\ SetGoalStatus(s)

RateLimited(p) ==
  /\ Finish(p, "assess")
  /\ Done(p, cur[p])
  /\ UNCHANGED goalRow

DraftReply(p) ==
  /\ watch[p] = "assess"
  /\ watch' = [watch EXCEPT ![p] = "drafted"]
  /\ InsertGoalDraft(cur[p])
  /\ UNCHANGED <<goalRow, stored, sent, behind, cur, command, others>>

\* A failed post is returned as an error: the mail comes again.
Activate(p) ==
  /\ Finish(p, "drafted")
  /\ SetGoalStatus("active")
  /\ Done(p, cur[p]) \/ UNCHANGED behind

AbortWatch(p) ==
  /\ watch[p] # "idle"
  /\ Finish(p, watch[p])
  /\ UNCHANGED <<goalRow, behind>>

-----------------------------------------------------------------------------
Open    == InsertGoal \/ InsertAnchor \/ InsertOpener \/ AbortOpen
Approve(h) == LoadGoal(h) \/ MailSent(h) \/ MarkSent(h) \/ CountFollowup(h) \/ AwaitReply(h)
Reject(h)  == RejectDraft(h) \/ TouchRejected(h)
Handle(h)  == \/ GetDraftByToken(h) \/ Approve(h) \/ Reject(h) \/ UpdateDraftBody(h)
              \/ AbortCommand(h)
Cancel  == CheckOpen \/ Abandon
Followup(p) == ScanDue(p) \/ DraftFollowup(p) \/ TouchPosted(p) \/ AbortLoop(p)
Assess(p) == \/ \E s \in {"achieved", "blocked"} : Verdict(p, s)
             \/ RateLimited(p) \/ DraftReply(p)
Watch(p)  == InsertMessage(p) \/ Assess(p) \/ Activate(p) \/ AbortWatch(p)

Next ==
  \/ Silence \/ Open \/ Cancel
  \/ \E h \in Handlers : Handle(h)
  \/ \E m \in Mails : Arrive(m)
  \/ \E p \in Programs : Followup(p) \/ Watch(p) \/ \E m \in Mails : Process(p, m)

Spec == Init /\ [][Next]_vars

\* Time passes, the goroutines of each program run and its polls repeat.  Strong
\* fairness: the database and the LLM may fail any number of times, not always.
Fairness ==
  /\ WF_vars(Silence)
  /\ \A p \in Programs :
       /\ WF_vars(Watch(p)) /\ WF_vars(Followup(p))
       /\ SF_vars(InsertMessage(p)) /\ SF_vars(ScanDue(p)) /\ SF_vars(DraftFollowup(p))
       /\ \A m \in Mails : SF_vars(Process(p, m))

FairSpec == Spec /\ Fairness

-----------------------------------------------------------------------------
(* Properties *)

TypeOK ==
  /\ goal \in {"none", "active", "waiting_reply", "blocked", "achieved", "abandoned"}
  /\ followups \in 0..MaxFollowups
  /\ silent \in BOOLEAN
  /\ nDrafts \in 0..MaxDrafts
  /\ draft \in [Drafts -> {"none", "pending", "sent", "rejected"}]
  /\ origin \in [Drafts -> Mails \union Programs \union {None, "opener"}]
  /\ stored \subseteq Mails
  /\ sent \subseteq Mails
  /\ behind \in [Programs -> SUBSET Mails]
  /\ opening \in {"start", "goal", "anchored", "unanchored", "done"}
  /\ cancelling \in BOOLEAN
  /\ loop \in [Programs -> {"idle", "drafting", "posting"}]
  /\ watch \in [Programs -> {"idle", "store", "assess", "drafted"}]
  /\ cur \in [Programs -> Mails \union {None}]
  /\ at \in [Handlers -> {"idle", "approve", "send", "mark", "count", "await",
                          "reject", "touch", "edit"}]
  /\ tok \in [Handlers -> 0..MaxDrafts]
  /\ nudge \subseteq Handlers
  /\ outdated \subseteq Handlers

\* A program never adds a follow-up while one of its own waits for approval, although
\* the scan and the insert are an LLM call apart and approvals, replies, failures and
\* the other programs' steps happen in between.  So those that wait at once are of as
\* many programs: the REPL and --serve may each have one, for nothing ties the scan of
\* one to the insert of the other.
OnePendingFollowup == \A d, e \in Pending : IsFollowup(d) /\ origin[d] = origin[e] => d = e

\* However often a mail is processed again after a failure, and however many programs
\* watch the account, it leads to one draft.
OneDraftPerMail == \A d, e \in Drafts :
  origin[d] = origin[e] /\ origin[d] \in Mails => d = e

\* A mail whose processing fails, or is another program's, does not hold up a
\* program's inbox for ever.
InboxDrains == \A p \in Programs, m \in Mails : m \in Inbox(p) ~> m \in behind[p]

\* "follows up on silence": a goal that waits for a reply, with follow-ups left,
\* gets a draft to approve unless its state moves on first.  Only with the anchor
\* row: without it MessageRowID fails at every tick.
SilenceIsFollowedUp ==
  opening = "done" /\ goal = "waiting_reply" /\ followups < MaxFollowups
    ~> Pending # {} \/ goal # "waiting_reply" \/ followups >= MaxFollowups
       \/ nDrafts = MaxDrafts

\* `goal cancel`: "Abandon a goal (stops replies and follow-ups)".
AbandonedIsFinal == [][goal = "abandoned" => goal' = "abandoned"]_vars

\* --max-followups: "maximum number of follow-up nudges".
FollowupsCapped ==
  Cardinality({d \in Drafts : IsFollowup(d) /\ draft[d] = "sent"}) <= MaxFollowups

\* `email approve`: "Approve and send a pending draft"; a token that is no longer
\* pending sends nothing, and what goes out is the text the draft has.
SendsWhatIsPending == \A h \in Handlers :
  at[h] = "send" => draft[tok[h]] = "pending" /\ h \notin outdated
=============================================================================
