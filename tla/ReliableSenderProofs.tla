------------------------ MODULE ReliableSenderProofs ------------------------
(***************************************************************************)
(* For any number of concurrent Send calls and any configuration:          *)
(*   - the bookkeeping of a call (CallInv) is inductive and gives the      *)
(*     truth of the dead-letter file;                                      *)
(*   - the breaker's fields (BreakerInv) are justified by the failures     *)
(*     reported, never look further ahead than a cooldown, and a raised    *)
(*     probe flag has an owner;                                            *)
(*   - every step is a step of Delivery or leaves it unchanged.            *)
(***************************************************************************)
EXTENDS ReliableSender, TLAPS

\* What each place in Send knows about its own tries.  TypeOK is not inductive
\* without it: attempt stays below the cap only because of where a call sleeps.
CallInv == \A m \in Msgs :
  /\ copies[m] <= attempt[m]
  /\ pc[m] \in {"idle", "gate"} => attempt[m] = 0 /\ refusals[m] = 0
  /\ pc[m] \in {"sending", "ok"} => attempt[m] = refusals[m] + 1
  /\ pc[m] = "sending" => copies[m] <= refusals[m]
  /\ pc[m] \in {"ok", "delivered"} => copies[m] > 0
  /\ pc[m] \in GivenUp \union {"fail", "perm", "sleep", "failed", "cancelled"} =>
       attempt[m] = refusals[m]
  /\ pc[m] = "rejected" => attempt[m] = 0
  /\ pc[m] = "exhausted" => attempt[m] = MaxAttempts
  /\ pc[m] = "sleep" => attempt[m] < MaxAttempts
  /\ pc[m] # "failed" => dlq[m] = <<>>
  /\ pc[m] = "failed" => dlq[m] = <<>> \/ dlq[m] = <<attempt[m]>>

\* The breaker against the history of reports.
BreakerInv ==
  /\ \A m \in Msgs : seen[m] <= now
  /\ CooldownBounded
  /\ breakerOpenTill # 0 => failStreak >= FailureThreshold
  /\ breakerOpenTill = 0 =>
       /\ consecutiveFail <= failStreak
       /\ consecutiveFail < FailureThreshold
       /\ ~halfOpenProbe

\* Any report lowers the flag, so its owner cannot leave before it is down.
ProbeInv == probing \subseteq InFlight /\ (halfOpenProbe => probing # {})

IInv == TypeOK /\ CallInv /\ BreakerInv /\ ProbeInv

USE ReliabilityConfig

LEMMA InitIInv == Init => IInv
<1> SUFFICES ASSUME Init PROVE IInv
    OBVIOUS
<1>1. TypeOK
  <2>1. 0 \in 0..MaxAttempts /\ <<>> \in Seq(0..MaxAttempts)
    OBVIOUS
  <2>2. /\ pc \in [Msgs -> Steps]
        /\ attempt \in [Msgs -> 0..MaxAttempts]
        /\ dlq \in [Msgs -> Seq(0..MaxAttempts)]
    BY <2>1 DEF Init, Steps, GivenUp
  <2>3. QED
    BY <2>2 DEF Init, TypeOK
<1>2. CallInv
  BY DEF Init, CallInv
<1>3. BreakerInv
  BY DEF Init, BreakerInv, CooldownBounded
<1>4. ProbeInv
  BY DEF Init, ProbeInv
<1>5. QED
  BY <1>1, <1>2, <1>3, <1>4 DEF IInv

\* Whatever made Send give up, the line it writes says how often it tried.
LEMMA LineIsTrue ==
  ASSUME CallInv, NEW m \in Msgs, pc[m] \in GivenUp
  PROVE  DLQAttempts(m) = attempt[m]
  BY DEF CallInv, GivenUp, DLQAttempts

\* The call's own bookkeeping survives every step.
LEMMA CallStep == TypeOK /\ CallInv /\ [Next]_vars => TypeOK' /\ CallInv'
<1> SUFFICES ASSUME TypeOK, CallInv, [Next]_vars
             PROVE  TypeOK' /\ CallInv'
    OBVIOUS
<1> USE DEF TypeOK, CallInv, Steps, GivenUp, breaker, wire, Goto, ReadClock, UsedClock,
            StartTry, Took
<1>1. ASSUME NEW m \in Msgs, Submit(m) PROVE TypeOK' /\ CallInv'
  BY <1>1 DEF Submit
<1>2. ASSUME NEW m \in Msgs, Reject(m) PROVE TypeOK' /\ CallInv'
  BY <1>2 DEF Reject
<1>3. ASSUME NEW m \in Msgs, Admit(m) PROVE TypeOK' /\ CallInv'
  BY <1>3 DEF Admit
<1>4. ASSUME NEW m \in Msgs, AdmitProbe(m) PROVE TypeOK' /\ CallInv'
  BY <1>4 DEF AdmitProbe
<1>5. ASSUME NEW m \in Msgs, TransportOk(m) PROVE TypeOK' /\ CallInv'
  BY <1>5 DEF TransportOk
<1>6. ASSUME NEW m \in Msgs, TransportFail(m) PROVE TypeOK' /\ CallInv'
  BY <1>6 DEF TransportFail
<1>7. ASSUME NEW m \in Msgs, OnSuccess(m) PROVE TypeOK' /\ CallInv'
  BY <1>7 DEF OnSuccess
<1>8. ASSUME NEW m \in Msgs, OnFailure(m) PROVE TypeOK' /\ CallInv'
  <2>1. /\ breakerOpenTill' \in Nat
        /\ consecutiveFail' \in Nat
        /\ halfOpenProbe' \in BOOLEAN
        /\ failStreak' \in Nat
    <3>1. seen[m] + Cooldown \in Nat /\ consecutiveFail + 1 \in Nat
      OBVIOUS
    <3>2. breakerOpenTill' \in Nat /\ consecutiveFail' \in Nat
      BY <1>8, <3>1 DEF OnFailure, CountFailure
    <3>3. failStreak' \in Nat
      BY <1>8 DEF OnFailure
    <3>4. halfOpenProbe' = FALSE
      BY <1>8 DEF OnFailure, CountFailure
    <3>5. QED
      BY <3>2, <3>3, <3>4
  <2>2. /\ pc[m] \in {"fail", "perm"}
        /\ pc' = [pc EXCEPT ![m] = AfterFailure(m)]
        /\ seen' = [seen EXCEPT ![m] = 0]
        /\ probing' \subseteq Msgs
        /\ UNCHANGED <<now, attempt, dlq, copies, refusals>>
    BY <1>8 DEF OnFailure
  <2>3. /\ AfterFailure(m) \in {"permanent", "exhausted", "sleep"}
        /\ AfterFailure(m) = "sleep" => attempt[m] < MaxAttempts
        /\ AfterFailure(m) = "exhausted" => attempt[m] = MaxAttempts
    BY <2>2 DEF AfterFailure
  <2>4. TypeOK'
    BY <2>1, <2>2, <2>3
  <2>5. CallInv'
    BY <2>2, <2>3
  <2>6. QED
    BY <2>4, <2>5
<1>9. ASSUME NEW m \in Msgs, Wake(m) PROVE TypeOK' /\ CallInv'
  BY <1>9 DEF Wake
<1>10. ASSUME NEW m \in Msgs, Cancel(m) PROVE TypeOK' /\ CallInv'
  BY <1>10 DEF Cancel
<1>11. ASSUME NEW m \in Msgs, WriteDLQ(m) PROVE TypeOK' /\ CallInv'
  <2>1. dlq[m] = <<>> /\ attempt[m] \in 0..MaxAttempts /\ DLQAttempts(m) = attempt[m]
    BY <1>11, LineIsTrue DEF WriteDLQ
  <2>2. /\ Append(dlq[m], attempt[m]) = <<attempt[m]>>
        /\ <<attempt[m]>> \in Seq(0..MaxAttempts)
    BY <2>1
  <2>3. \/ dlq' = [dlq EXCEPT ![m] = <<attempt[m]>>]
        \/ dlq' = dlq
    BY <1>11, <2>1, <2>2 DEF WriteDLQ
  <2>4. TypeOK'
    BY <1>11, <2>2, <2>3 DEF WriteDLQ
  <2>5. CallInv'
    BY <1>11, <2>1, <2>3 DEF WriteDLQ
  <2>6. QED
    BY <2>4, <2>5
<1>12. CASE Tick
  BY <1>12 DEF Tick
<1>13. CASE UNCHANGED vars
  BY <1>13 DEF vars
<1>14. QED
  BY <1>1, <1>2, <1>3, <1>4, <1>5, <1>6, <1>7, <1>8, <1>9, <1>10, <1>11,
     <1>12, <1>13 DEF Next, Run, Gate, Report

\* Only reports and the probe's admission touch the breaker; the clock only helps.
LEMMA BreakerStep == TypeOK /\ BreakerInv /\ [Next]_vars => BreakerInv'
<1> SUFFICES ASSUME TypeOK, BreakerInv, [Next]_vars
             PROVE  BreakerInv'
    OBVIOUS
<1> USE DEF TypeOK, BreakerInv, CooldownBounded, breaker, wire, Goto,
            ReadClock, UsedClock, StartTry, Took
<1>1. ASSUME NEW m \in Msgs, Submit(m) PROVE BreakerInv'
  BY <1>1 DEF Submit
<1>2. ASSUME NEW m \in Msgs, Reject(m) PROVE BreakerInv'
  BY <1>2 DEF Reject
<1>3. ASSUME NEW m \in Msgs, Admit(m) PROVE BreakerInv'
  BY <1>3 DEF Admit
<1>4. ASSUME NEW m \in Msgs, AdmitProbe(m) PROVE BreakerInv'
  BY <1>4 DEF AdmitProbe, HalfOpen
<1>5. ASSUME NEW m \in Msgs, TransportOk(m) PROVE BreakerInv'
  BY <1>5 DEF TransportOk
<1>6. ASSUME NEW m \in Msgs, TransportFail(m) PROVE BreakerInv'
  BY <1>6 DEF TransportFail
<1>7. ASSUME NEW m \in Msgs, OnSuccess(m) PROVE BreakerInv'
  BY <1>7 DEF OnSuccess
<1>8. ASSUME NEW m \in Msgs, OnFailure(m) PROVE BreakerInv'
  BY <1>8 DEF OnFailure, CountFailure
<1>9. ASSUME NEW m \in Msgs, Wake(m) PROVE BreakerInv'
  BY <1>9 DEF Wake
<1>10. ASSUME NEW m \in Msgs, Cancel(m) PROVE BreakerInv'
  BY <1>10 DEF Cancel
<1>11. ASSUME NEW m \in Msgs, WriteDLQ(m) PROVE BreakerInv'
  BY <1>11 DEF WriteDLQ
<1>12. CASE Tick
  BY <1>12 DEF Tick
<1>13. CASE UNCHANGED vars
  BY <1>13 DEF vars
<1>14. QED
  BY <1>1, <1>2, <1>3, <1>4, <1>5, <1>6, <1>7, <1>8, <1>9, <1>10, <1>11,
     <1>12, <1>13 DEF Next, Run, Gate, Report

LEMMA ProbeStep == TypeOK /\ ProbeInv /\ [Next]_vars => ProbeInv'
<1> SUFFICES ASSUME TypeOK, ProbeInv, [Next]_vars
             PROVE  ProbeInv'
    OBVIOUS
<1> USE DEF TypeOK, Steps, ProbeInv, InFlight, breaker, wire, Goto, StartTry
<1>1. ASSUME NEW m \in Msgs, Submit(m) PROVE ProbeInv'
  BY <1>1 DEF Submit
<1>2. ASSUME NEW m \in Msgs, Gate(m) PROVE ProbeInv'
  <2>1. CASE Reject(m)
    BY <2>1 DEF Reject
  <2>2. CASE Admit(m)
    BY <2>2 DEF Admit
  <2>3. CASE AdmitProbe(m)
    BY <2>3 DEF AdmitProbe
  <2>4. QED
    BY <1>2, <2>1, <2>2, <2>3 DEF Gate
<1>3. ASSUME NEW m \in Msgs, TransportOk(m) PROVE ProbeInv'
  BY <1>3 DEF TransportOk
<1>4. ASSUME NEW m \in Msgs, TransportFail(m) PROVE ProbeInv'
  BY <1>4 DEF TransportFail
<1>5. ASSUME NEW m \in Msgs, Report(m) PROVE ProbeInv'
  BY <1>5 DEF Report, OnSuccess, OnFailure, CountFailure
<1>6. ASSUME NEW m \in Msgs, Wake(m) PROVE ProbeInv'
  BY <1>6 DEF Wake
<1>7. ASSUME NEW m \in Msgs, Cancel(m) \/ WriteDLQ(m) PROVE ProbeInv'
  <2>1. CASE Cancel(m)
    BY <2>1 DEF Cancel
  <2>2. CASE WriteDLQ(m)
    BY <2>2 DEF WriteDLQ, GivenUp
  <2>3. QED
    BY <1>7, <2>1, <2>2
<1>8. CASE Tick \/ UNCHANGED vars
  BY <1>8 DEF Tick, vars
<1>9. QED
  BY <1>1, <1>2, <1>3, <1>4, <1>5, <1>6, <1>7, <1>8 DEF Next, Run

THEOREM IInvAlways == Spec => []IInv
<1>1. IInv /\ [Next]_vars => IInv'
  BY CallStep, BreakerStep, ProbeStep DEF IInv
<1>2. QED
  BY InitIInv, <1>1, PTL DEF Spec

-----------------------------------------------------------------------------
(* The properties of the run, for every value of the constants. *)

\* Every variable keeps its type; in particular no call exceeds MaxAttempts tries.
THEOREM TypeCorrect == Spec => []TypeOK
<1>1. IInv => TypeOK  BY DEF IInv
<1>2. QED  BY <1>1, IInvAlways, PTL

\* An open breaker has been earned by FailureThreshold failures in a row.
THEOREM BreakerIsJustified == Spec => []BreakerJustified
<1>1. IInv => BreakerJustified
  BY DEF IInv, BreakerInv, BreakerJustified
<1>2. QED  BY <1>1, IInvAlways, PTL

\* The half-open flag never outlives the call that will lower it.
THEOREM ProbeIsOwned == Spec => []ProbeOwned
<1>1. IInv => ProbeOwned
  BY DEF IInv, ProbeInv, ProbeOwned
<1>2. QED  BY <1>1, IInvAlways, PTL

\* Stale clock readings never push the deadline past one cooldown from now.
THEOREM CooldownIsBounded == Spec => []CooldownBounded
<1>1. IInv => CooldownBounded
  BY DEF IInv, BreakerInv
<1>2. QED  BY <1>1, IInvAlways, PTL

\* The dead-letter file reports the tries that were really refused.
THEOREM DeadLettersAreAccurate == Spec => []DeadLetterAccurate
<1>1. IInv => DeadLetterAccurate
  <2> SUFFICES ASSUME IInv, NEW m \in Msgs
               PROVE  /\ Len(dlq[m]) <= 1
                      /\ dlq[m] # <<>> =>
                           /\ pc[m] = "failed"
                           /\ dlq[m][1] = refusals[m]
                           /\ refusals[m] = 0 => copies[m] = 0
      BY DEF DeadLetterAccurate
  <2>1. CASE dlq[m] = <<>>
    BY <2>1
  <2>2. CASE dlq[m] # <<>>
    <3>1. pc[m] = "failed" /\ dlq[m] = <<attempt[m]>>
      BY <2>2 DEF IInv, CallInv
    <3>2. Len(dlq[m]) = 1 /\ dlq[m][1] = attempt[m]
      BY <3>1
    <3>3. attempt[m] = refusals[m] /\ copies[m] <= attempt[m] /\ copies[m] \in Nat
      BY <3>1 DEF IInv, CallInv, TypeOK
    <3>4. QED
      BY <3>1, <3>2, <3>3
  <2>3. QED
    BY <2>1, <2>2
<1>2. QED  BY <1>1, IInvAlways, PTL

-----------------------------------------------------------------------------
(* Refinement: ReliableSender implements Delivery. *)

\* One call moves: only its phase can change.
LEMMA OnePhaseMoves ==
  ASSUME TypeOK, NEW m \in Msgs, NEW place, NEW lines,
         pc' = [pc EXCEPT ![m] = place], dlq' = [dlq EXCEPT ![m] = lines]
  PROVE  phaseBar' = [phaseBar EXCEPT ![m] = PhaseOf(place, lines)]
  BY DEF TypeOK, phaseBar

LEMMA SamePhase ==
  ASSUME TypeOK, NEW m \in Msgs, NEW place,
         pc' = [pc EXCEPT ![m] = place], dlq' = dlq,
         PhaseOf(place, dlq[m]) = PhaseOf(pc[m], dlq[m])
  PROVE  phaseBar' = phaseBar
  BY DEF TypeOK, phaseBar

LEMMA RefineInit == Init => Contract!Init
  BY DEF Init, Contract!Init, phaseBar, PhaseOf

LEMMA RefineStep == IInv /\ [Next]_vars => [Contract!Next]_Contract!vars
<1> SUFFICES ASSUME IInv, [Next]_vars
             PROVE  Contract!Next \/ UNCHANGED Contract!vars
    OBVIOUS
<1> USE DEF Contract!Next, Contract!vars
<1>0. TypeOK /\ CallInv
  BY DEF IInv
<1>1. ASSUME NEW m \in Msgs, Submit(m) PROVE Contract!Offer(m)
  <2>1. dlq[m] = <<>> /\ dlq' = [dlq EXCEPT ![m] = dlq[m]]
    BY <1>0, <1>1 DEF Submit, Goto, TypeOK, CallInv
  <2>2. phaseBar' = [phaseBar EXCEPT ![m] = PhaseOf("gate", dlq[m])]
    BY <1>0, <1>1, <2>1, OnePhaseMoves DEF Submit, Goto
  <2>3. PhaseOf("gate", dlq[m]) = "open" /\ phaseBar[m] = "new"
    BY <1>1 DEF Submit, Goto, PhaseOf, phaseBar
  <2>4. QED
    BY <1>1, <2>2, <2>3 DEF Submit, wire, Contract!Offer, Contract!Move
<1>2. ASSUME NEW m \in Msgs, Gate(m) PROVE UNCHANGED Contract!vars
  <2>1. PICK place \in {"rejected", "sending"} :
          pc[m] = "gate" /\ pc' = [pc EXCEPT ![m] = place]
    BY <1>2 DEF Gate, Reject, Admit, AdmitProbe, StartTry, Goto
  <2>2. dlq' = dlq /\ UNCHANGED wire
    BY <1>2 DEF Gate, Reject, Admit, AdmitProbe
  <2>3. phaseBar' = phaseBar
    BY <1>0, <2>1, <2>2, SamePhase DEF PhaseOf
  <2>4. QED
    BY <2>2, <2>3 DEF wire
<1>3. ASSUME NEW m \in Msgs, TransportOk(m) PROVE Contract!Try(m, TRUE, FALSE)
  <2>1. phaseBar' = phaseBar
    BY <1>0, <1>3, SamePhase DEF TransportOk, Goto, PhaseOf
  <2>2. phaseBar[m] = "open"
    BY <1>3 DEF TransportOk, Goto, PhaseOf, phaseBar
  <2>3. copies[m] < MaxAttempts
    BY <1>0, <1>3 DEF TransportOk, Goto, CallInv, TypeOK
  <2>4. copies' = [copies EXCEPT ![m] = @ + 1] /\ refusals' = refusals
    BY <1>3 DEF TransportOk, Took
  <2>5. refusals' = [refusals EXCEPT ![m] = refusals[m]]
    BY <1>0, <2>4 DEF TypeOK
  <2>6. QED
    BY <2>1, <2>2, <2>3, <2>4, <2>5 DEF Contract!Try, Contract!Bump
<1>4. ASSUME NEW m \in Msgs, TransportFail(m)
      PROVE  \E took \in BOOLEAN : Contract!Try(m, took, TRUE)
  <2>1. PICK took \in BOOLEAN, kind \in {"fail", "perm"} :
          /\ Goto(m, "sending", kind)
          /\ Took(m, took)
          /\ refusals' = [refusals EXCEPT ![m] = @ + 1]
          /\ dlq' = dlq
    BY <1>4 DEF TransportFail
  <2>2. phaseBar' = phaseBar
    BY <1>0, <2>1, SamePhase DEF Goto, PhaseOf
  <2>3. phaseBar[m] = "open"
    BY <2>1 DEF Goto, PhaseOf, phaseBar
  <2>4. copies[m] < MaxAttempts /\ refusals[m] < MaxAttempts
    BY <1>0, <2>1 DEF Goto, CallInv, TypeOK
  <2>5. Contract!Try(m, took, TRUE)
    BY <2>1, <2>2, <2>3, <2>4 DEF Contract!Try, Contract!Bump, Took
  <2>6. QED
    BY <2>5
<1>5. ASSUME NEW m \in Msgs, OnSuccess(m) PROVE Contract!Confirm(m)
  <2>1. dlq[m] = <<>> /\ dlq' = [dlq EXCEPT ![m] = dlq[m]] /\ copies[m] > 0
    BY <1>0, <1>5 DEF OnSuccess, Goto, TypeOK, CallInv
  <2>2. phaseBar' = [phaseBar EXCEPT ![m] = PhaseOf("delivered", dlq[m])]
    BY <1>0, <1>5, <2>1, OnePhaseMoves DEF OnSuccess, Goto
  <2>3. PhaseOf("delivered", dlq[m]) = "delivered" /\ phaseBar[m] = "open"
    BY <1>5 DEF OnSuccess, Goto, PhaseOf, phaseBar
  <2>4. QED
    BY <1>5, <2>1, <2>2, <2>3 DEF OnSuccess, wire, Contract!Confirm, Contract!Move
<1>6. ASSUME NEW m \in Msgs, OnFailure(m) \/ Wake(m)
      PROVE  UNCHANGED Contract!vars
  <2>1. PICK place \in {"permanent", "exhausted", "sleep", "sending"} :
          /\ pc[m] \in {"fail", "perm", "sleep"}
          /\ pc' = [pc EXCEPT ![m] = place]
    BY <1>6 DEF OnFailure, AfterFailure, Wake, StartTry, Goto
  <2>2. dlq' = dlq /\ UNCHANGED wire
    BY <1>6 DEF OnFailure, Wake
  <2>3. phaseBar' = phaseBar
    BY <1>0, <2>1, <2>2, SamePhase DEF PhaseOf
  <2>4. QED
    BY <2>2, <2>3 DEF wire
<1>7. ASSUME NEW m \in Msgs, Cancel(m) PROVE Contract!Abandon(m)
  <2>1. dlq[m] = <<>> /\ dlq' = [dlq EXCEPT ![m] = dlq[m]] /\ refusals[m] >= 0
    BY <1>0, <1>7 DEF Cancel, Goto, TypeOK, CallInv
  <2>2. phaseBar' = [phaseBar EXCEPT ![m] = PhaseOf("cancelled", dlq[m])]
    BY <1>0, <1>7, <2>1, OnePhaseMoves DEF Cancel, Goto
  <2>3. PhaseOf("cancelled", dlq[m]) = "abandoned" /\ phaseBar[m] = "open"
    BY <1>7 DEF Cancel, Goto, PhaseOf, phaseBar
  <2>4. QED
    BY <1>7, <2>1, <2>2, <2>3 DEF Cancel, wire, Contract!Abandon, Contract!Move
<1>8. ASSUME NEW m \in Msgs, WriteDLQ(m)
      PROVE  Contract!Park(m) \/ Contract!Abandon(m)
  <2>1. /\ phaseBar[m] = "open"
        /\ refusals[m] >= 0
        /\ dlq[m] = <<>>
        /\ Append(dlq[m], DLQAttempts(m)) # <<>>
    <3>1. pc[m] \in GivenUp /\ dlq[m] = <<>> /\ refusals[m] \in Nat
      BY <1>0, <1>8 DEF WriteDLQ, TypeOK, CallInv, GivenUp
    <3>2. phaseBar[m] = "open"
      BY <3>1 DEF PhaseOf, phaseBar, GivenUp
    <3>3. Len(Append(dlq[m], DLQAttempts(m))) = 1
      BY <1>0, <3>1, LineIsTrue DEF TypeOK
    <3>4. QED
      BY <3>1, <3>2, <3>3
  <2>2. CASE dlq' = [dlq EXCEPT ![m] = Append(@, DLQAttempts(m))]
    <3>1. phaseBar' = [phaseBar EXCEPT ![m] = PhaseOf("failed", Append(dlq[m], DLQAttempts(m)))]
      BY <1>0, <1>8, <2>2, OnePhaseMoves DEF WriteDLQ, Goto
    <3>2. PhaseOf("failed", Append(dlq[m], DLQAttempts(m))) = "parked"
      BY <2>1 DEF PhaseOf
    <3>3. QED
      BY <1>8, <2>1, <3>1, <3>2 DEF WriteDLQ, wire, Contract!Park, Contract!Move
  <2>3. CASE dlq' = dlq
    <3>1. dlq' = [dlq EXCEPT ![m] = dlq[m]]
      BY <1>0, <2>3 DEF TypeOK
    <3>2. phaseBar' = [phaseBar EXCEPT ![m] = PhaseOf("failed", dlq[m])]
      BY <1>0, <1>8, <3>1, OnePhaseMoves DEF WriteDLQ, Goto
    <3>3. PhaseOf("failed", dlq[m]) = "abandoned"
      BY <2>1 DEF PhaseOf
    <3>4. QED
      BY <1>8, <2>1, <3>2, <3>3 DEF WriteDLQ, wire, Contract!Abandon, Contract!Move
  <2>4. QED
    BY <1>8, <2>2, <2>3 DEF WriteDLQ
<1>9. CASE Tick \/ UNCHANGED vars
  BY <1>9 DEF Tick, vars, wire, phaseBar
<1>10. QED
  BY <1>1, <1>2, <1>3, <1>4, <1>5, <1>6, <1>7, <1>8, <1>9 DEF Next, Run, Report

\* ReliableSender implements Delivery for every number of concurrent calls and
\* every configuration: nothing reaches the peer after Send returned, nothing
\* is reported delivered that the peer never took.
THEOREM RefinesDelivery == Spec => ImplementsDelivery
<1>1. QED
  BY RefineInit, RefineStep, IInvAlways, PTL
  DEF Spec, ImplementsDelivery, Contract!Spec
=============================================================================
