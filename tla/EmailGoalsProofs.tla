-------------------------- MODULE EmailGoalsProofs --------------------------
(***************************************************************************)
(* Theorems about EmailGoals for any number of drafts, mails, handlers and *)
(* programs and any cap.  A step moves the table of drafts in one of three ways: it     *)
(* leaves it, it takes one row out of "pending", or it inserts one row.    *)
(* The two invariants about the table follow from who inserts what, when.  *)
(***************************************************************************)
EXTENDS EmailGoals, TLAPS

\* The rows in use are the first nDrafts, and a handler works on one of them.
RowsInv ==
  /\ \A d \in Drafts : draft[d] = "none" <=> d > nDrafts
  /\ \A d \in Drafts : d > nDrafts => origin[d] = None
  /\ \A h \in Handlers : at[h] # "idle" => tok[h] \in 1..nDrafts

\* From the scan of a program's loop to its insert, no follow-up of that program can
\* come to wait for approval.
ScanInv == \A p \in Programs : loop[p] = "drafting" => \A d \in Pending : origin[d] # p

\* A mail has its row before it has a draft, one watcher has inserted that row, and
\* until that watcher's draft there is none.
WatchInv ==
  /\ \A p \in Programs :
       /\ watch[p] # "idle" => cur[p] \in Mails
       /\ watch[p] \in {"assess", "drafted"} => cur[p] \in stored
       /\ watch[p] = "assess" => \A d \in Drafts : origin[d] # cur[p]
  /\ \A p, q \in Programs :
       watch[p] = "assess" /\ watch[q] = "assess" /\ cur[p] = cur[q] => p = q
  /\ \A d \in Drafts : origin[d] \in Mails => origin[d] \in stored

IInv == TypeOK /\ RowsInv /\ ScanInv /\ WatchInv /\ OnePendingFollowup /\ OneDraftPerMail

-----------------------------------------------------------------------------
(* The three moves of the table *)

Closes == \E d \in 1..nDrafts, s \in {"sent", "rejected"} : SetDraftStatus(d, s)

LEMMA InitIInv == Init => IInv
<1> SUFFICES ASSUME Init PROVE IInv
  OBVIOUS
<1>1. TypeOK
  <2>1. 0 \in 0..MaxFollowups /\ 0 \in 0..MaxDrafts
    BY GoalConfig
  <2> QED  BY <2>1 DEF Init, TypeOK
<1>2. Pending = {} /\ \A d \in Drafts : origin[d] = None
  BY DEF Init, Pending
<1>3. RowsInv
  BY GoalConfig DEF Init, RowsInv, Drafts
<1>4. ScanInv /\ WatchInv /\ OnePendingFollowup /\ OneDraftPerMail
  BY <1>2, GoalConfig DEF Init, ScanInv, WatchInv, OnePendingFollowup, OneDraftPerMail
<1> QED  BY <1>1, <1>3, <1>4 DEF IInv

LEMMA InsertTypes ==
  ASSUME TypeOK, NEW o \in Mails \union Programs \union {"opener"}, InsertGoalDraft(o)
  PROVE  /\ nDrafts' \in 0..MaxDrafts
         /\ draft' \in [Drafts -> {"none", "pending", "sent", "rejected"}]
         /\ origin' \in [Drafts -> Mails \union Programs \union {None, "opener"}]
<1>1. nDrafts + 1 \in Drafts /\ nDrafts + 1 \in 0..MaxDrafts
  BY GoalConfig DEF InsertGoalDraft, TypeOK, Drafts
<1> QED  BY <1>1 DEF InsertGoalDraft, TypeOK

LEMMA FinishTypes ==
  ASSUME TypeOK, NEW p \in Programs, NEW step, Finish(p, step),
         UNCHANGED behind \/ (cur[p] \in Mails /\ Done(p, cur[p])),
         goal' \in {"none", "active", "waiting_reply", "blocked", "achieved", "abandoned"},
         silent' \in BOOLEAN, followups' = followups
  PROVE  TypeOK'
<1>1. /\ watch' \in [Programs -> {"idle", "store", "assess", "drafted"}]
      /\ cur' \in [Programs -> Mails \union {None}]
      /\ behind' \in [Programs -> SUBSET Mails]
  BY DEF Finish, Done, TypeOK
<1> QED  BY <1>1 DEF Finish, TypeOK, drafts, command, others

\* The goal's row, the table and every actor keep their types.
LEMMA TypeStep == ASSUME TypeOK, RowsInv, WatchInv, [Next]_vars PROVE TypeOK'
<1> USE DEF goalRow, drafts, inbox, command, others
<1>1. CASE UNCHANGED vars
  BY <1>1 DEF vars, TypeOK
<1>2. CASE Silence
  BY <1>2 DEF Silence, TypeOK
<1>3. CASE Open
  <2>1. CASE InsertGoal
    BY <2>1 DEF InsertGoal, SetGoalStatus, TypeOK
  <2>2. CASE InsertAnchor \/ AbortOpen
    BY <2>2 DEF InsertAnchor, AbortOpen, TypeOK
  <2>3. CASE InsertOpener
    BY <2>3, InsertTypes DEF InsertOpener, TypeOK
  <2> QED  BY <1>3, <2>1, <2>2, <2>3 DEF Open
<1>4. CASE Cancel
  <2>1. CASE CheckOpen
    BY <2>1 DEF CheckOpen, TypeOK
  <2>2. CASE Abandon
    BY <2>2 DEF Abandon, SetGoalStatus, TypeOK
  <2> QED  BY <1>4, <2>1, <2>2 DEF Cancel
<1>5. ASSUME NEW p \in Programs, Followup(p)  PROVE TypeOK'
  <2>1. CASE ScanDue(p) \/ AbortLoop(p)
    BY <2>1 DEF ScanDue, AbortLoop, LoopStep, TypeOK
  <2>2. CASE DraftFollowup(p)
    BY <2>2, InsertTypes DEF DraftFollowup, LoopStep, TypeOK
  <2>3. CASE TouchPosted(p)
    BY <2>3 DEF TouchPosted, LoopStep, TouchGoal, TypeOK
  <2> QED  BY <1>5, <2>1, <2>2, <2>3 DEF Followup
<1>6. ASSUME NEW p \in Programs, Watch(p)  PROVE TypeOK'
  <2>0. watch[p] # "idle" => cur[p] \in Mails
    BY DEF WatchInv
  <2>1. CASE InsertMessage(p)
    BY <2>0, <2>1 DEF InsertMessage, TypeOK
  <2>2. ASSUME NEW s \in {"achieved", "blocked"}, Verdict(p, s)  PROVE TypeOK'
    <3>1. cur[p] \in Mails
      BY <2>0, <2>2 DEF Verdict, Finish
    <3> QED  BY <2>2, <3>1, FinishTypes DEF Verdict, SetGoalStatus
  <2>3. CASE RateLimited(p)
    <3>1. cur[p] \in Mails
      BY <2>0, <2>3 DEF RateLimited, Finish
    <3>2. goal' = goal /\ silent' = silent /\ followups' = followups
      BY <2>3 DEF RateLimited
    <3> QED  BY <2>3, <3>1, <3>2, FinishTypes DEF RateLimited, TypeOK
  <2>4. CASE DraftReply(p)
    BY <2>0, <2>4, InsertTypes DEF DraftReply, TypeOK
  <2>5. CASE Activate(p)
    <3>1. cur[p] \in Mails
      BY <2>0, <2>5 DEF Activate, Finish
    <3> QED  BY <2>5, <3>1, FinishTypes DEF Activate, SetGoalStatus
  <2>6. CASE AbortWatch(p)
    <3>1. goal' = goal /\ silent' = silent /\ followups' = followups
      BY <2>6 DEF AbortWatch
    <3> QED  BY <2>6, <3>1, FinishTypes DEF AbortWatch, TypeOK
  <2> QED  BY <1>6, <2>1, <2>2, <2>3, <2>4, <2>5, <2>6 DEF Watch, Assess
<1>7. ASSUME NEW m \in Mails, Arrive(m)  PROVE TypeOK'
  BY <1>7 DEF Arrive, TypeOK
<1>9. ASSUME NEW p \in Programs, NEW m \in Mails, Process(p, m)  PROVE TypeOK'
  <2>1. CASE PassOver(p, m)
    BY <2>1 DEF PassOver, Done, TypeOK
  <2>2. CASE MatchGoal(p, m)
    BY <2>2 DEF MatchGoal, TakeUp, TypeOK
  <2>3. CASE Triage(p, m)
    BY <2>3 DEF Triage, Done, TypeOK
  <2> QED  BY <1>9, <2>1, <2>2, <2>3 DEF Process
<1>8. ASSUME NEW h \in Handlers, Handle(h)  PROVE TypeOK'
  <2>0. 0 \in 0..MaxDrafts
    BY GoalConfig
  <2>1. CASE GetDraftByToken(h)
    <3>1. PICK d \in Pending, verb \in {"approve", "reject", "edit"} :
            at' = [at EXCEPT ![h] = verb] /\ tok' = [tok EXCEPT ![h] = d]
      BY <2>1 DEF GetDraftByToken
    <3>2. d \in 0..MaxDrafts
      BY GoalConfig DEF Pending, Drafts
    <3> QED  BY <2>1, <3>1, <3>2 DEF GetDraftByToken, TypeOK
  <2>2. CASE LoadGoal(h)
    BY <2>2 DEF LoadGoal, TypeOK
  <2>3. CASE MailSent(h)
    BY <2>3 DEF MailSent, Goto, TypeOK
  <2>4. CASE MarkSent(h)
    BY <2>4 DEF MarkSent, SetDraftStatus, Goto, TypeOK
  <2>5. CASE CountFollowup(h)
    <3>1. followups' \in 0..MaxFollowups
      BY <2>5, GoalConfig DEF CountFollowup, TypeOK
    <3> QED  BY <2>5, <3>1 DEF CountFollowup, Goto, TypeOK
  <2>6. CASE AwaitReply(h)
    BY <2>6, <2>0 DEF AwaitReply, Reply, SetGoalStatus, TypeOK
  <2>7. CASE RejectDraft(h)
    BY <2>7 DEF RejectDraft, SetDraftStatus, Goto, TypeOK
  <2>8. CASE TouchRejected(h)
    BY <2>8, <2>0 DEF TouchRejected, Reply, TouchGoal, TypeOK
  <2>9. CASE UpdateDraftBody(h)
    BY <2>9, <2>0 DEF UpdateDraftBody, TypeOK
  <2>10. CASE AbortCommand(h)
    BY <2>10, <2>0 DEF AbortCommand, Reply, TypeOK
  <2> QED
    BY <1>8, <2>1, <2>2, <2>3, <2>4, <2>5, <2>6, <2>7, <2>8, <2>9, <2>10
       DEF Handle, Approve, Reject
<1> QED
  BY <1>1, <1>2, <1>3, <1>4, <1>5, <1>6, <1>7, <1>8, <1>9 DEF Next

\* A handler never inserts, and leaves every other actor where it stands.
LEMMA HandleMove ==
  ASSUME TypeOK, RowsInv, NEW h \in Handlers, Handle(h)
  PROVE  (UNCHANGED drafts \/ Closes) /\ UNCHANGED <<inbox, others>>
<1>1. at[h] # "idle" => tok[h] \in 1..nDrafts
  BY DEF RowsInv
<1> QED
  BY <1>1 DEF Handle, Approve, Reject, GetDraftByToken, LoadGoal, MailSent, MarkSent,
     CountFollowup, AwaitReply, RejectDraft, TouchRejected, UpdateDraftBody, AbortCommand,
     Goto, Reply, Closes, drafts, goalRow, inbox, others

\* What a handler holds stays a row in use.
LEMMA HandlerRows ==
  ASSUME TypeOK, RowsInv, NEW h \in Handlers, Handle(h)
  PROVE  \A k \in Handlers : at'[k] # "idle" => tok'[k] \in 1..nDrafts
<1> USE DEF TypeOK, RowsInv, Drafts, drafts, SetDraftStatus
<1>1. CASE GetDraftByToken(h)
  <2>1. PICK d \in Pending : tok' = [tok EXCEPT ![h] = d]
                            /\ \A k \in Handlers \ {h} : at'[k] = at[k]
    BY <1>1 DEF GetDraftByToken
  <2>2. d \in 1..nDrafts /\ nDrafts' = nDrafts
    BY <1>1, GoalConfig DEF Pending, GetDraftByToken, drafts
  <2> QED  BY <2>1, <2>2
<1>2. CASE LoadGoal(h)
  BY <1>2 DEF LoadGoal
<1>3. CASE MailSent(h) \/ MarkSent(h) \/ CountFollowup(h) \/ RejectDraft(h)
  BY <1>3 DEF MailSent, MarkSent, CountFollowup, RejectDraft, Goto
<1>4. CASE AwaitReply(h) \/ TouchRejected(h) \/ AbortCommand(h)
  BY <1>4 DEF AwaitReply, TouchRejected, AbortCommand, Reply
<1>5. CASE UpdateDraftBody(h)
  BY <1>5 DEF UpdateDraftBody
<1> QED
  BY <1>1, <1>2, <1>3, <1>4, <1>5 DEF Handle, Approve, Reject

-----------------------------------------------------------------------------
(* What each kind of step does to the table and to the actors that insert *)

LEMMA CloseKeeps ==
  ASSUME IInv, UNCHANGED drafts \/ Closes, UNCHANGED <<inbox, loop>>
  PROVE  /\ \A d \in Drafts : draft'[d] = "none" <=> d > nDrafts'
         /\ \A d \in Drafts : d > nDrafts' => origin'[d] = None
         /\ ScanInv' /\ WatchInv' /\ OnePendingFollowup' /\ OneDraftPerMail'
<1>1. nDrafts' = nDrafts /\ origin' = origin /\ Pending' \subseteq Pending
      /\ \A d \in Drafts : draft'[d] = "none" <=> draft[d] = "none"
  BY GoalConfig DEF IInv, TypeOK, RowsInv, Closes, SetDraftStatus, drafts, Pending, Drafts
<1> QED
  BY <1>1 DEF IInv, RowsInv, ScanInv, WatchInv, OnePendingFollowup, OneDraftPerMail,
     IsFollowup, inbox

LEMMA InsertGives ==
  ASSUME IInv, NEW o \in Mails \union Programs \union {"opener"}, InsertGoalDraft(o)
  PROVE  /\ nDrafts + 1 \in Drafts
         /\ \A d \in Drafts : draft'[d] = "none" <=> d > nDrafts'
         /\ \A d \in Drafts : d > nDrafts' => origin'[d] = None
         /\ \A d \in Drafts : origin'[d] = IF d = nDrafts + 1 THEN o ELSE origin[d]
         /\ Pending' \subseteq Pending \union {nDrafts + 1}
         /\ nDrafts + 1 \notin Pending
         /\ 1..nDrafts \subseteq 1..nDrafts'
  BY GoalConfig DEF IInv, TypeOK, RowsInv, InsertGoalDraft, Pending, Drafts

LEMMA InsertKeeps ==
  ASSUME IInv, NEW o \in Mails \union Programs \union {"opener"}, InsertGoalDraft(o),
         UNCHANGED <<command, stored>>,
         o \in Mails => o \in stored /\ \A d \in Drafts : origin[d] # o,
         o \in Programs => \A d \in Pending : origin[d] # o
  PROVE  /\ RowsInv' /\ OnePendingFollowup' /\ OneDraftPerMail'
         /\ \A d \in Drafts : origin'[d] = o \/ origin'[d] = origin[d]
         /\ \A d \in Drafts : origin'[d] \in Mails => origin'[d] \in stored'
         /\ \A d \in Pending' : origin'[d] # o => d \in Pending /\ origin'[d] = origin[d]
<1> DEFINE new == nDrafts + 1
<1>1. /\ new \in Drafts /\ new \notin Pending /\ Pending' \subseteq Pending \union {new}
      /\ \A d \in Drafts : origin'[d] = IF d = new THEN o ELSE origin[d]
  BY InsertGives
<1>2. RowsInv'
  BY InsertGives DEF RowsInv, command, IInv
<1> HIDE DEF new
<1>3. OnePendingFollowup'
  BY <1>1 DEF OnePendingFollowup, IsFollowup, IInv, Pending
<1>4. OneDraftPerMail'
  BY <1>1 DEF OneDraftPerMail, IInv
<1> QED
  BY <1>1, <1>2, <1>3, <1>4 DEF IInv, WatchInv, Pending

LEMMA Step == ASSUME IInv, [Next]_vars PROVE IInv'
<1> USE DEF goalRow, drafts, inbox, command, others
<1>0. TypeOK'
  BY TypeStep DEF IInv
<1> SUFFICES RowsInv' /\ ScanInv' /\ WatchInv' /\ OnePendingFollowup' /\ OneDraftPerMail'
  BY <1>0 DEF IInv
<1>1. CASE UNCHANGED <<drafts, command, inbox, loop>>
  BY <1>1, CloseKeeps DEF RowsInv, IInv
<1>2. ASSUME NEW h \in Handlers, Handle(h)
      PROVE  RowsInv' /\ ScanInv' /\ WatchInv' /\ OnePendingFollowup' /\ OneDraftPerMail'
  <2>1. (UNCHANGED drafts \/ Closes) /\ UNCHANGED <<inbox, loop, nDrafts>>
    BY <1>2, HandleMove DEF IInv, Closes, SetDraftStatus
  <2> QED  BY <1>2, <2>1, CloseKeeps, HandlerRows DEF RowsInv, IInv
<1>3. CASE InsertOpener
  <2>1. InsertGoalDraft("opener") /\ UNCHANGED <<command, inbox, loop>>
    BY <1>3 DEF InsertOpener
  <2>2. "opener" \notin Mails /\ "opener" \notin Programs
    BY GoalConfig
  <2>3. /\ RowsInv' /\ OnePendingFollowup' /\ OneDraftPerMail'
        /\ \A d \in Drafts : origin'[d] = "opener" \/ origin'[d] = origin[d]
        /\ \A d \in Drafts : origin'[d] \in Mails => origin'[d] \in stored'
        /\ \A d \in Pending' :
             origin'[d] # "opener" => d \in Pending /\ origin'[d] = origin[d]
    BY <2>1, <2>2, InsertKeeps
  <2>4. ScanInv'
    BY <2>1, <2>2, <2>3 DEF IInv, ScanInv
  <2>5. WatchInv'
    BY <2>1, <2>2, <2>3 DEF IInv, WatchInv
  <2> QED  BY <2>3, <2>4, <2>5
<1>4. ASSUME NEW p \in Programs, ScanDue(p)
      PROVE  RowsInv' /\ ScanInv' /\ WatchInv' /\ OnePendingFollowup' /\ OneDraftPerMail'
  BY <1>4 DEF ScanDue, LoopStep, Due, IInv, RowsInv, ScanInv, WatchInv, OnePendingFollowup,
     OneDraftPerMail, IsFollowup, Pending, TypeOK
<1>5. ASSUME NEW p \in Programs, DraftFollowup(p)
      PROVE  RowsInv' /\ ScanInv' /\ WatchInv' /\ OnePendingFollowup' /\ OneDraftPerMail'
  <2>1. InsertGoalDraft(p) /\ loop[p] = "drafting" /\ loop' = [loop EXCEPT ![p] = "posting"]
        /\ UNCHANGED <<command, inbox>>
    BY <1>5 DEF DraftFollowup, LoopStep
  <2>2. p \notin Mails
    BY GoalConfig
  <2>3. \A d \in Pending : origin[d] # p
    BY <2>1 DEF IInv, ScanInv
  <2>4. /\ RowsInv' /\ OnePendingFollowup' /\ OneDraftPerMail'
        /\ \A d \in Drafts : origin'[d] = p \/ origin'[d] = origin[d]
        /\ \A d \in Drafts : origin'[d] \in Mails => origin'[d] \in stored'
        /\ \A d \in Pending' : origin'[d] # p => d \in Pending /\ origin'[d] = origin[d]
    BY <2>1, <2>2, <2>3, InsertKeeps
  <2>5. \A q \in Programs : loop'[q] = "drafting" => loop[q] = "drafting" /\ q # p
    BY <2>1 DEF IInv, TypeOK
  <2>6. ScanInv'
    BY <2>4, <2>5 DEF IInv, ScanInv
  <2>7. WatchInv'
    BY <2>1, <2>2, <2>4 DEF IInv, WatchInv
  <2> QED  BY <2>4, <2>6, <2>7
<1>6. ASSUME NEW p \in Programs, TouchPosted(p) \/ AbortLoop(p)
      PROVE  RowsInv' /\ ScanInv' /\ WatchInv' /\ OnePendingFollowup' /\ OneDraftPerMail'
  BY <1>6 DEF TouchPosted, AbortLoop, LoopStep, IInv, RowsInv, ScanInv, WatchInv,
     OnePendingFollowup, OneDraftPerMail, IsFollowup, Pending, TypeOK
<1>7. ASSUME NEW m \in Mails, Arrive(m)
      PROVE  RowsInv' /\ ScanInv' /\ WatchInv' /\ OnePendingFollowup' /\ OneDraftPerMail'
  BY <1>7 DEF Arrive, IInv, RowsInv, ScanInv, WatchInv, OnePendingFollowup, OneDraftPerMail,
     IsFollowup, Pending
<1>11. ASSUME NEW p \in Programs, NEW m \in Mails, Process(p, m)
       PROVE  RowsInv' /\ ScanInv' /\ WatchInv' /\ OnePendingFollowup' /\ OneDraftPerMail'
  <2>1. UNCHANGED <<drafts, loop, command>>
    BY <1>11 DEF Process, PassOver, Triage, MatchGoal, TakeUp
  <2>2. RowsInv' /\ ScanInv' /\ OnePendingFollowup' /\ OneDraftPerMail'
    BY <2>1 DEF IInv, RowsInv, ScanInv, OnePendingFollowup, OneDraftPerMail, IsFollowup,
       Pending
  <2>3. CASE PassOver(p, m) \/ Triage(p, m)
    <3>1. stored \subseteq stored' /\ UNCHANGED <<watch, cur>>
      BY <2>3 DEF PassOver, Triage
    <3>2. WatchInv'
      BY <2>1, <3>1 DEF IInv, WatchInv
    <3> QED  BY <2>2, <3>2
  <2>4. CASE MatchGoal(p, m)
    <3>1. WatchInv'
      BY <2>1, <2>4 DEF MatchGoal, TakeUp, IInv, WatchInv, TypeOK
    <3> QED  BY <2>2, <3>1
  <2> QED  BY <1>11, <2>3, <2>4 DEF Process
<1>8. ASSUME NEW p \in Programs, InsertMessage(p)
      PROVE  RowsInv' /\ ScanInv' /\ WatchInv' /\ OnePendingFollowup' /\ OneDraftPerMail'
  <2>1. /\ cur[p] \in Mails /\ cur[p] \notin stored /\ stored' = stored \union {cur[p]}
        /\ watch' = [watch EXCEPT ![p] = "assess"] /\ UNCHANGED <<drafts, loop, command, cur>>
    BY <1>8 DEF InsertMessage, IInv, WatchInv
  <2>2. RowsInv' /\ ScanInv' /\ OnePendingFollowup' /\ OneDraftPerMail'
    BY <2>1 DEF IInv, RowsInv, ScanInv, OnePendingFollowup, OneDraftPerMail, IsFollowup,
       Pending
  <2>3. \A d \in Drafts : origin[d] # cur[p]
    BY <2>1 DEF IInv, WatchInv
  <2>4. \A q \in Programs : watch[q] = "assess" => cur[q] # cur[p]
    BY <2>1 DEF IInv, WatchInv
  <2>5. WatchInv'
    BY <2>1, <2>3, <2>4 DEF IInv, WatchInv, TypeOK
  <2> QED  BY <2>2, <2>5
<1>9. ASSUME NEW p \in Programs, DraftReply(p)
      PROVE  RowsInv' /\ ScanInv' /\ WatchInv' /\ OnePendingFollowup' /\ OneDraftPerMail'
  <2>1. /\ InsertGoalDraft(cur[p]) /\ cur[p] \in stored /\ cur[p] \in Mails
        /\ watch[p] = "assess" /\ watch' = [watch EXCEPT ![p] = "drafted"]
        /\ UNCHANGED <<command, stored, cur, loop>>
    BY <1>9 DEF DraftReply, IInv, WatchInv
  <2>2. \A d \in Drafts : origin[d] # cur[p]
    BY <2>1 DEF IInv, WatchInv
  <2>3. cur[p] \notin Programs
    BY <2>1, GoalConfig
  <2>4. /\ RowsInv' /\ OnePendingFollowup' /\ OneDraftPerMail'
        /\ \A d \in Drafts : origin'[d] = cur[p] \/ origin'[d] = origin[d]
        /\ \A d \in Drafts : origin'[d] \in Mails => origin'[d] \in stored'
        /\ \A d \in Pending' : origin'[d] # cur[p] => d \in Pending /\ origin'[d] = origin[d]
    BY <2>1, <2>2, <2>3, InsertKeeps
  <2>5. ScanInv'
    BY <2>1, <2>3, <2>4 DEF IInv, ScanInv
  <2>6. \A q \in Programs : watch'[q] = "assess" => watch[q] = "assess" /\ q # p
    BY <2>1 DEF IInv, TypeOK
  <2>7. \A q \in Programs : watch'[q] # "idle" => watch[q] # "idle"
          /\ (watch'[q] = "drafted" => watch[q] \in {"assess", "drafted"})
    BY <2>1 DEF IInv, TypeOK
  <2>8. \A q \in Programs : watch'[q] = "assess" => cur[q] # cur[p]
    BY <2>1, <2>6 DEF IInv, WatchInv
  <2>9. WatchInv'
    BY <2>1, <2>4, <2>6, <2>7, <2>8 DEF IInv, WatchInv
  <2> QED  BY <2>4, <2>5, <2>9
<1>10. ASSUME NEW p \in Programs, NEW step, Finish(p, step)
       PROVE  RowsInv' /\ ScanInv' /\ WatchInv' /\ OnePendingFollowup' /\ OneDraftPerMail'
  BY <1>10 DEF Finish, IInv, RowsInv, ScanInv, WatchInv, OnePendingFollowup,
     OneDraftPerMail, IsFollowup, Pending, TypeOK
<1> QED
  <2>1. CASE UNCHANGED vars
    BY <2>1, <1>1 DEF vars
  <2>2. CASE Silence
    BY <2>2, <1>1 DEF Silence
  <2>3. CASE Open
    BY <2>3, <1>1, <1>3 DEF Open, InsertGoal, InsertAnchor, AbortOpen
  <2>4. CASE Cancel
    BY <2>4, <1>1 DEF Cancel, CheckOpen, Abandon
  <2>5. ASSUME NEW p \in Programs, Followup(p)
        PROVE  RowsInv' /\ ScanInv' /\ WatchInv' /\ OnePendingFollowup' /\ OneDraftPerMail'
    BY <2>5, <1>4, <1>5, <1>6 DEF Followup
  <2>6. ASSUME NEW p \in Programs, Watch(p)
        PROVE  RowsInv' /\ ScanInv' /\ WatchInv' /\ OnePendingFollowup' /\ OneDraftPerMail'
    <3>1. CASE \E s \in {"achieved", "blocked"} : Verdict(p, s)
      BY <3>1, <1>10 DEF Verdict
    <3>2. CASE RateLimited(p)
      BY <3>2, <1>10 DEF RateLimited
    <3>3. CASE Activate(p)
      BY <3>3, <1>10 DEF Activate
    <3>4. CASE AbortWatch(p)
      BY <3>4, <1>10 DEF AbortWatch
    <3> QED  BY <2>6, <3>1, <3>2, <3>3, <3>4, <1>8, <1>9 DEF Watch, Assess
  <2> QED  BY <1>2, <1>7, <1>11, <2>1, <2>2, <2>3, <2>4, <2>5, <2>6 DEF Next

-----------------------------------------------------------------------------
\* The inductive invariant holds of every reachable state.
THEOREM IInvAlways == Spec => []IInv
  BY InitIInv, Step, PTL DEF Spec

\* The rows, the actors and the handlers keep their types, whatever fails where.
THEOREM TypeCorrect == Spec => []TypeOK
<1>1. IInv => TypeOK
  BY DEF IInv
<1> QED  BY <1>1, IInvAlways, PTL

\* However many programs run the follow-up loop, the follow-ups that wait for approval
\* at once are of as many programs: the NOT EXISTS of GoalsDueFollowup is enough within a
\* program, although the LLM call separates it from the insert.
THEOREM FollowupsDoNotPileUp == Spec => []OnePendingFollowup
<1>1. IInv => OnePendingFollowup
  BY DEF IInv
<1> QED  BY <1>1, IInvAlways, PTL

\* A mail leads to at most one draft however often its processing is repeated.
THEOREM RepliesAreDraftedOnce == Spec => []OneDraftPerMail
<1>1. IInv => OneDraftPerMail
  BY DEF IInv
<1> QED  BY <1>1, IInvAlways, PTL
=============================================================================
