---------------------------- MODULE OutboxProofs ----------------------------
(***************************************************************************)
(* For any number of notifications and of workers on the shared table, and *)
(* any MaxAttempts: no fault costs a row that was neither delivered nor    *)
(* refused MaxAttempts + 1 times.  For one worker, every step is a step of *)
(* Delivery or leaves it unchanged.                                        *)
(***************************************************************************)
EXTENDS Outbox, FiniteSetTheorems, TLAPS

Busy == {"sending", "sent", "failed", "drop", "backoff"}

\* What a worker's place says about the row in its local variables.
JobInv == \A w \in Workers :
  /\ pc[w] \in Busy => job[w] \in Msgs
  /\ pc[w] = "sent" => copies[job[w]] > 0
  /\ pc[w] = "drop" => fails[job[w]] > MaxAttempts

\* The workers whose failed try of m is not yet counted in its row.
Uncounted(m) == {w \in Workers : pc[w] \in {"failed", "backoff"} /\ job[w] = m}

\* The row's counter plus the uncounted tries never exceed the tries that
\* failed.  Two workers may hold the same row, so the counter alone is not
\* inductive.  At its bound, fails says all that NoLossBeforeCap needs.
CountInv == \A m \in Msgs :
  fails[m] < CountCap => attempts[m] + Cardinality(Uncounted(m)) <= fails[m]

IInv == TypeOK /\ JobInv /\ CountInv /\ NoLossBeforeCap

USE OutboxConfig

LEMMA UncountedType == \A m : IsFiniteSet(Uncounted(m)) /\ Cardinality(Uncounted(m)) \in Nat
<1> TAKE m
<1>1. Uncounted(m) \subseteq Workers
  BY DEF Uncounted
<1>2. QED
  BY <1>1, FS_Subset, FS_CardinalityType

LEMMA InitIInv == Init => IInv
<1> SUFFICES ASSUME Init PROVE IInv
    OBVIOUS
<1>1. TypeOK
  <2>1. 0 \in 0..MaxAttempts /\ 0 \in 0..CountCap
    BY DEF CountCap
  <2>2. /\ attempts \in [Msgs -> 0..MaxAttempts]
        /\ copies \in [Msgs -> 0..CountCap]
        /\ fails \in [Msgs -> 0..CountCap]
    BY <2>1 DEF Init
  <2>3. QED
    BY <2>2 DEF Init, TypeOK
<1>2. JobInv
  BY DEF Init, JobInv, Busy
<1>3. CountInv
  <2>1. ASSUME NEW m \in Msgs PROVE Uncounted(m) = {}
    BY DEF Init, Uncounted
  <2>2. QED
    BY <2>1, FS_EmptySet DEF Init, CountInv
<1>4. NoLossBeforeCap
  BY DEF Init, NoLossBeforeCap
<1>5. QED
  BY <1>1, <1>2, <1>3, <1>4 DEF IInv

-----------------------------------------------------------------------------
(* How a step can disturb the count of one message. *)

\* No new uncounted try of m, its counter does not grow.
LEMMA CountKept ==
  ASSUME TypeOK, TypeOK', NEW m \in Msgs,
         fails[m] < CountCap => attempts[m] + Cardinality(Uncounted(m)) <= fails[m],
         Uncounted(m)' \subseteq Uncounted(m),
         attempts'[m] <= attempts[m], fails'[m] = fails[m]
  PROVE  fails'[m] < CountCap => attempts'[m] + Cardinality(Uncounted(m)') <= fails'[m]
<1>1. Cardinality(Uncounted(m)') <= Cardinality(Uncounted(m))
  BY UncountedType, FS_Subset
<1>2. Cardinality(Uncounted(m)') \in Nat /\ Cardinality(Uncounted(m)) \in Nat
  BY <1>1, UncountedType, FS_Subset, FS_CardinalityType
<1>3. attempts[m] \in Nat /\ attempts'[m] \in Nat /\ fails[m] \in Nat
  BY DEF TypeOK, CountCap
<1>4. QED
  BY <1>1, <1>2, <1>3 DEF CountCap

\* A try of m fails: one more uncounted try.
LEMMA CountFailed ==
  ASSUME TypeOK, NEW m \in Msgs, NEW w \in Workers,
         fails[m] < CountCap => attempts[m] + Cardinality(Uncounted(m)) <= fails[m],
         Uncounted(m)' = Uncounted(m) \union {w},
         attempts'[m] = attempts[m], fails'[m] = Sat(fails[m], CountCap)
  PROVE  fails'[m] < CountCap => attempts'[m] + Cardinality(Uncounted(m)') <= fails'[m]
<1>1. Cardinality(Uncounted(m)') <= Cardinality(Uncounted(m)) + 1
  <2>1. IsFiniteSet(Uncounted(m)) /\ Cardinality(Uncounted(m)) \in Nat
    BY UncountedType
  <2>2. Cardinality(Uncounted(m) \union {w}) = IF w \in Uncounted(m)
          THEN Cardinality(Uncounted(m)) ELSE Cardinality(Uncounted(m)) + 1
    BY <2>1, FS_AddElement
  <2>3. QED
    BY <2>1, <2>2
<1>2. Cardinality(Uncounted(m)') \in Nat /\ Cardinality(Uncounted(m)) \in Nat
  BY UncountedType, FS_AddElement, FS_CardinalityType
<1>3. attempts[m] \in Nat /\ fails[m] \in Nat
  BY DEF TypeOK, CountCap
<1>4. QED
  BY <1>1, <1>2, <1>3 DEF CountCap, Sat

\* A worker counts its try in the row.
LEMMA CountMoved ==
  ASSUME TypeOK, NEW m \in Msgs, NEW w \in Uncounted(m),
         fails[m] < CountCap => attempts[m] + Cardinality(Uncounted(m)) <= fails[m],
         Uncounted(m)' = Uncounted(m) \ {w},
         attempts'[m] = Sat(attempts[m], MaxAttempts), fails'[m] = fails[m]
  PROVE  fails'[m] < CountCap => attempts'[m] + Cardinality(Uncounted(m)') <= fails'[m]
<1>1. Cardinality(Uncounted(m)') = Cardinality(Uncounted(m)) - 1
  BY UncountedType, FS_RemoveElement
<1>2. Cardinality(Uncounted(m)) \in Nat
  BY UncountedType
<1>3. attempts[m] \in Nat /\ fails[m] \in Nat
  BY DEF TypeOK, CountCap
<1>4. QED
  BY <1>1, <1>2, <1>3 DEF CountCap, Sat

-----------------------------------------------------------------------------
LEMMA TypeStep == TypeOK /\ JobInv /\ [Next]_vars => TypeOK'
<1> SUFFICES ASSUME TypeOK, JobInv, [Next]_vars
             PROVE  TypeOK'
    OBVIOUS
<1> USE DEF TypeOK, rows, process, history, Goto
<1>1. ASSUME NEW w \in Workers, NEW m \in Msgs, Send(w, m) PROVE TypeOK'
  BY <1>1 DEF Send
<1>2. ASSUME NEW m \in Msgs, Elapse(m) PROVE TypeOK'
  BY <1>2 DEF Elapse
<1>3. ASSUME NEW w \in Workers, Tick(w) PROVE TypeOK'
  BY <1>3 DEF Tick
<1>4. ASSUME NEW w \in Workers, NEW m \in Msgs, Pick(w, m) PROVE TypeOK'
  BY <1>4 DEF Pick
<1>5. ASSUME NEW w \in Workers, EndFlush(w) PROVE TypeOK'
  BY <1>5 DEF EndFlush
<1>6. \A c \in 0..CountCap : Sat(c, CountCap) \in 0..CountCap
  BY DEF Sat, CountCap
<1>7. ASSUME NEW w \in Workers, NEW took, Took(w, took)
      PROVE  takers' \in [Msgs -> SUBSET Workers] /\ copies' \in [Msgs -> 0..CountCap]
  BY <1>6, <1>7 DEF Took
<1>8. ASSUME NEW w \in Workers, SendOk(w) PROVE TypeOK'
  BY <1>7, <1>8 DEF SendOk
<1>9. ASSUME NEW w \in Workers, SendFail(w) PROVE TypeOK'
  <2>1. fails' \in [Msgs -> 0..CountCap]
    <3>1. fails' = [fails EXCEPT ![job[w]] = Sat(fails[job[w]], CountCap)]
      BY <1>9 DEF SendFail
    <3>2. job[w] \in Msgs
      BY <1>9 DEF SendFail, JobInv, Busy
    <3>3. Sat(fails[job[w]], CountCap) \in 0..CountCap
      BY <1>6, <3>2
    <3>4. QED
      BY <3>1, <3>3
  <2>2. QED
    BY <1>7, <1>9, <2>1 DEF SendFail
<1>10. ASSUME NEW w \in Workers, DeleteSent(w) PROVE TypeOK'
  BY <1>10 DEF DeleteSent, NextRow, Remove, Keep
<1>11. ASSUME NEW w \in Workers, ReadAttempts(w) PROVE TypeOK'
  BY <1>11 DEF ReadAttempts
<1>12. ASSUME NEW w \in Workers, DropPoison(w) PROVE TypeOK'
  BY <1>12 DEF DropPoison, NextRow, Remove, Keep
<1>13. ASSUME NEW w \in Workers, ScheduleRetry(w) PROVE TypeOK'
  BY <1>13 DEF ScheduleRetry, NextRow, Postpone, Keep, Sat
<1>14. ASSUME NEW w \in Workers, Expire(w) \/ Exit(w) PROVE TypeOK'
  <2>1. CASE Expire(w)
    BY <2>1 DEF Expire
  <2>2. CASE Exit(w)
    BY <2>2 DEF Exit
  <2> QED  BY <1>14, <2>1, <2>2
<1>15. CASE Stop \/ Crash \/ Boot \/ Settle
  <2>1. CASE Stop \/ Settle
    BY <2>1 DEF Stop, Settle
  <2>2. CASE Crash \/ Boot
    BY <2>2 DEF Crash, Boot
  <2> QED  BY <1>15, <2>1, <2>2
<1>16. CASE UNCHANGED vars
  BY <1>16 DEF vars
<1>17. QED
  BY <1>1, <1>2, <1>3, <1>4, <1>5, <1>8, <1>9, <1>10, <1>11, <1>12, <1>13, <1>14,
     <1>15, <1>16 DEF Next, Flush, Deliver, Fault

LEMMA JobStep == TypeOK /\ JobInv /\ CountInv /\ [Next]_vars => JobInv'
<1> SUFFICES ASSUME TypeOK, JobInv, CountInv, [Next]_vars
             PROVE  JobInv'
    OBVIOUS
<1> USE DEF TypeOK, JobInv, Busy, rows, process, history, Goto
<1>1. ASSUME NEW w \in Workers, NEW m \in Msgs, Send(w, m) PROVE JobInv'
  BY <1>1 DEF Send
<1>2. ASSUME NEW m \in Msgs, Elapse(m) PROVE JobInv'
  BY <1>2 DEF Elapse
<1>3. ASSUME NEW w \in Workers, Tick(w) \/ EndFlush(w) PROVE JobInv'
  BY <1>3 DEF Tick, EndFlush
<1>4. ASSUME NEW w \in Workers, NEW m \in Msgs, Pick(w, m) PROVE JobInv'
  BY <1>4 DEF Pick
<1>5. /\ CountCap \in Nat /\ CountCap > MaxAttempts
      /\ \A c \in 0..CountCap : Sat(c, CountCap) >= c /\ Sat(c, CountCap) > 0
  BY DEF Sat, CountCap
<1>6. ASSUME NEW w \in Workers, SendOk(w) PROVE JobInv'
  <2>1. /\ job[w] \in Msgs
        /\ copies' = [copies EXCEPT ![job[w]] = Sat(copies[job[w]], CountCap)]
        /\ Sat(copies[job[w]], CountCap) > 0
    BY <1>5, <1>6 DEF SendOk, Took
  <2>2. \A m \in Msgs : copies[m] > 0 => copies'[m] > 0
    BY <2>1
  <2>3. QED
    BY <1>6, <2>1, <2>2 DEF SendOk
<1>7. ASSUME NEW w \in Workers, SendFail(w) PROVE JobInv'
  <2>1. PICK took \in BOOLEAN :
          /\ Goto(w, "sending", "failed")
          /\ Took(w, took)
          /\ fails' = [fails EXCEPT ![job[w]] = Sat(@, CountCap)]
          /\ UNCHANGED job
    BY <1>7 DEF SendFail
  <2>2. job[w] \in Msgs
    BY <2>1
  <2>3. \A m \in Msgs : copies[m] > 0 => copies'[m] > 0
    BY <1>5, <2>1, <2>2 DEF Took
  <2>4. \A m \in Msgs : fails[m] > MaxAttempts => fails'[m] > MaxAttempts
    <3>1. \A m \in Msgs : fails'[m] >= fails[m] /\ fails'[m] \in 0..CountCap
      <4>1. /\ Sat(fails[job[w]], CountCap) >= fails[job[w]]
            /\ Sat(fails[job[w]], CountCap) \in 0..CountCap
        BY <2>2 DEF Sat, CountCap
      <4>2. QED
        BY <2>1, <2>2, <4>1, <1>5
    <3>2. QED
      BY <3>1, <1>5
  <2>5. QED
    BY <2>1, <2>3, <2>4
<1>8. ASSUME NEW w \in Workers, ReadAttempts(w) PROVE JobInv'
  <2>1. CASE pc' = [pc EXCEPT ![w] = "backoff"]
    BY <1>8, <2>1 DEF ReadAttempts
  <2>2. CASE pc' = [pc EXCEPT ![w] = "drop"]
    <3> DEFINE m == job[w]
    <3>1. m \in Msgs /\ attempts[m] >= MaxAttempts /\ w \in Uncounted(m)
      BY <1>8, <2>2 DEF ReadAttempts, Uncounted
    <3>2. Cardinality(Uncounted(m)) >= 1
      <4>1. Uncounted(m) # {}
        BY <3>1
      <4>2. QED
        BY <4>1, UncountedType, FS_EmptySet
    <3>3. fails[m] > MaxAttempts
      <4>1. Cardinality(Uncounted(m)) \in Nat
        BY UncountedType
      <4>2. fails[m] < CountCap => attempts[m] + Cardinality(Uncounted(m)) <= fails[m]
        BY <3>1 DEF CountInv
      <4>3. fails[m] \in Nat /\ attempts[m] \in Nat
        BY <1>5, <3>1
      <4>4. QED
        BY <3>1, <3>2, <4>1, <4>2, <4>3 DEF CountCap
    <3>4. QED
      BY <1>8, <2>2, <3>3 DEF ReadAttempts
  <2>3. QED
    BY <1>8, <2>1, <2>2 DEF ReadAttempts
<1>9. ASSUME NEW w \in Workers, DeleteSent(w) \/ DropPoison(w) \/ ScheduleRetry(w)
      PROVE  JobInv'
  BY <1>9 DEF DeleteSent, DropPoison, ScheduleRetry, NextRow
<1>10. ASSUME NEW w \in Workers, Expire(w) \/ Exit(w) PROVE JobInv'
  BY <1>10 DEF Expire, Exit
<1>11. CASE Stop \/ Crash \/ Boot \/ Settle
  BY <1>11 DEF Stop, Crash, Boot, Settle
<1>12. CASE UNCHANGED vars
  BY <1>12 DEF vars
<1>13. QED
  BY <1>1, <1>2, <1>3, <1>4, <1>6, <1>7, <1>8, <1>9, <1>10, <1>11, <1>12
  DEF Next, Flush, Deliver, Fault

LEMMA CountStep == TypeOK /\ JobInv /\ CountInv /\ [Next]_vars => CountInv'
<1> SUFFICES ASSUME TypeOK, JobInv, CountInv, [Next]_vars, NEW m \in Msgs
             PROVE  (fails[m] < CountCap =>
                       attempts[m] + Cardinality(Uncounted(m)) <= fails[m])'
    BY DEF CountInv
<1> DEFINE Goal == fails'[m] < CountCap =>
                     attempts'[m] + Cardinality(Uncounted(m)') <= fails'[m]
<1>0. /\ TypeOK'
      /\ fails[m] < CountCap => attempts[m] + Cardinality(Uncounted(m)) <= fails[m]
      /\ attempts[m] \in Nat
  BY TypeStep DEF CountInv, TypeOK
\* What leaves every failed try where it was.
<1>1. ASSUME fails' = fails, attempts' = attempts,
             \A w \in Workers : /\ pc'[w] \in {"failed", "backoff"}
                              => pc[w] \in {"failed", "backoff"} /\ job'[w] = job[w]
      PROVE  Goal
  <2>1. Uncounted(m)' \subseteq Uncounted(m)
    BY <1>1 DEF Uncounted
  <2>2. attempts'[m] <= attempts[m] /\ fails'[m] = fails[m]
    BY <1>0, <1>1
  <2>3. QED
    BY <1>0, <2>1, <2>2, CountKept
<1> USE DEF rows, process, history, Goto
<1>2. ASSUME NEW w \in Workers, NEW n \in Msgs, Send(w, n) \/ Pick(w, n) PROVE Goal
  BY <1>1, <1>2 DEF Send, Pick, TypeOK
<1>3. ASSUME NEW n \in Msgs, Elapse(n) PROVE Goal
  BY <1>1, <1>3 DEF Elapse
<1>4. ASSUME NEW w \in Workers, Tick(w) \/ EndFlush(w) \/ SendOk(w) PROVE Goal
  BY <1>1, <1>4 DEF Tick, EndFlush, SendOk, TypeOK
<1>5. ASSUME NEW w \in Workers, SendFail(w) PROVE Goal
  <2>1. /\ pc[w] = "sending" /\ job[w] \in Msgs
        /\ pc' = [pc EXCEPT ![w] = "failed"]
        /\ fails' = [fails EXCEPT ![job[w]] = Sat(fails[job[w]], CountCap)]
        /\ UNCHANGED <<job, attempts>>
    BY <1>5 DEF SendFail, JobInv, Busy
  <2>2. CASE job[w] = m
    <3>1. Uncounted(m)' = Uncounted(m) \union {w}
      BY <2>1, <2>2 DEF Uncounted, TypeOK
    <3>2. attempts'[m] = attempts[m] /\ fails'[m] = Sat(fails[m], CountCap)
      BY <2>1, <2>2 DEF TypeOK
    <3>3. QED
      BY <1>0, <3>1, <3>2, CountFailed
  <2>3. CASE job[w] # m
    <3>1. Uncounted(m)' \subseteq Uncounted(m)
      BY <2>1, <2>3 DEF Uncounted, TypeOK
    <3>2. attempts'[m] <= attempts[m] /\ fails'[m] = fails[m]
      BY <1>0, <2>1, <2>3 DEF TypeOK
    <3>3. QED
      BY <1>0, <3>1, <3>2, CountKept
  <2>4. QED
    BY <2>2, <2>3
<1>6. ASSUME NEW w \in Workers, DeleteSent(w) \/ DropPoison(w) PROVE Goal
  <2>1. Uncounted(m)' \subseteq Uncounted(m)
    BY <1>6 DEF DeleteSent, DropPoison, NextRow, Uncounted, TypeOK
  <2>2. attempts'[m] <= attempts[m] /\ fails'[m] = fails[m]
    BY <1>0, <1>6 DEF DeleteSent, DropPoison, NextRow, Remove, Keep, TypeOK
  <2>3. QED
    BY <1>0, <2>1, <2>2, CountKept
<1>7. ASSUME NEW w \in Workers, ReadAttempts(w) PROVE Goal
  BY <1>1, <1>7 DEF ReadAttempts, TypeOK
<1>8. ASSUME NEW w \in Workers, ScheduleRetry(w) PROVE Goal
  <2>1. /\ pc[w] = "backoff" /\ pc' = [pc EXCEPT ![w] = "select"]
        /\ job' = [job EXCEPT ![w] = None]
        /\ fails' = fails
    BY <1>8 DEF ScheduleRetry, NextRow
  <2>2. CASE attempts' = [attempts EXCEPT ![m] = Sat(attempts[m], MaxAttempts)] /\ job[w] = m
    <3>1. Uncounted(m)' = Uncounted(m) \ {w} /\ w \in Uncounted(m)
      BY <2>1, <2>2 DEF Uncounted, TypeOK
    <3>2. attempts'[m] = Sat(attempts[m], MaxAttempts) /\ fails'[m] = fails[m]
      BY <2>1, <2>2 DEF TypeOK
    <3>3. QED
      BY <1>0, <3>1, <3>2, CountMoved
  <2>3. CASE attempts'[m] = attempts[m]
    <3>1. Uncounted(m)' \subseteq Uncounted(m)
      BY <2>1 DEF Uncounted, TypeOK
    <3>2. QED
      BY <1>0, <2>1, <2>3, <3>1, CountKept
  <2>4. QED
    BY <1>8, <2>2, <2>3 DEF ScheduleRetry, Postpone, Keep, TypeOK
<1>9. ASSUME NEW w \in Workers, Expire(w) \/ Exit(w) PROVE Goal
  BY <1>1, <1>9 DEF Expire, Exit, TypeOK
<1>10. CASE Stop \/ Crash \/ Boot \/ Settle
  BY <1>1, <1>10 DEF Stop, Crash, Boot, Settle
<1>11. CASE UNCHANGED vars
  BY <1>1, <1>11 DEF vars
<1>12. QED
  BY <1>2, <1>3, <1>4, <1>5, <1>6, <1>7, <1>8, <1>9, <1>10, <1>11
  DEF Next, Flush, Deliver, Fault

LEMMA NoLossStep ==
  TypeOK /\ JobInv /\ NoLossBeforeCap /\ [Next]_vars => NoLossBeforeCap'
<1> SUFFICES ASSUME TypeOK, JobInv, NoLossBeforeCap, [Next]_vars
             PROVE  NoLossBeforeCap'
    OBVIOUS
<1>1. /\ \A m \in Msgs : copies'[m] >= copies[m] /\ fails'[m] >= fails[m]
      /\ \A m \in Msgs : copies'[m] \in Nat /\ fails'[m] \in Nat
  <2>1. \A c \in 0..CountCap : Sat(c, CountCap) >= c
    BY DEF Sat, CountCap
  <2>2. \/ UNCHANGED <<copies, fails>>
        \/ \E w \in Workers : SendOk(w) \/ SendFail(w)
    BY DEF Next, Flush, Deliver, Fault, Send, Elapse, Tick, Pick, EndFlush,
           DeleteSent, ReadAttempts, DropPoison, ScheduleRetry, Expire, Stop, Exit,
           Crash, Boot, Settle, NextRow, history, vars
  <2>3. TypeOK'
    BY TypeStep
  <2>4. ASSUME NEW w \in Workers, SendOk(w) \/ SendFail(w)
        PROVE  \A m \in Msgs : copies'[m] >= copies[m] /\ fails'[m] >= fails[m]
    <3>1. job[w] \in Msgs
      BY <2>4 DEF SendOk, SendFail, Goto, JobInv, Busy
    <3>2. \/ copies' = copies
          \/ copies' = [copies EXCEPT ![job[w]] = Sat(copies[job[w]], CountCap)]
      BY <2>4 DEF SendOk, SendFail, Took
    <3>3. \/ fails' = fails
          \/ fails' = [fails EXCEPT ![job[w]] = Sat(fails[job[w]], CountCap)]
      BY <2>4 DEF SendOk, SendFail
    <3>4. \A m \in Msgs : copies[m] \in Nat /\ fails[m] \in Nat
      BY DEF TypeOK, CountCap
    <3>5. /\ Sat(copies[job[w]], CountCap) >= copies[job[w]]
          /\ Sat(fails[job[w]], CountCap) >= fails[job[w]]
      BY <2>1, <3>1 DEF TypeOK
    <3>6. /\ copies \in [Msgs -> 0..CountCap]
          /\ fails \in [Msgs -> 0..CountCap]
      BY DEF TypeOK
    <3>7. QED
      BY <3>1, <3>2, <3>3, <3>4, <3>5, <3>6
  <2>5. \A m \in Msgs : copies'[m] \in Nat /\ fails'[m] \in Nat
    BY <2>3 DEF TypeOK, CountCap
  <2>6. \A m \in Msgs : copies[m] \in Nat /\ fails[m] \in Nat
    BY DEF TypeOK, CountCap
  <2>7. QED
    BY <2>2, <2>4, <2>5, <2>6
\* Only the two deletions, which JobInv justifies, take a row away.
<1>2. \A m \in Msgs :
        /\ row'[m] = "delivered" => row[m] = "delivered" \/ copies[m] > 0
        /\ row'[m] = "dropped" => row[m] = "dropped" \/ fails[m] > MaxAttempts
  <2>1. \/ UNCHANGED row
        \/ \E w \in Workers, n \in Msgs : Send(w, n)
        \/ \E w \in Workers : DeleteSent(w) \/ DropPoison(w)
    BY DEF Next, Flush, Deliver, Fault, Elapse, Tick, Pick, EndFlush, SendOk,
           SendFail, ReadAttempts, ScheduleRetry, Postpone, Keep, Expire, Stop,
           Exit, Crash, Boot, Settle, rows, vars
  <2>2. ASSUME NEW w \in Workers, NEW n \in Msgs, Send(w, n)
        PROVE  row' = [row EXCEPT ![n] = "queued"]
    BY <2>2 DEF Send
  <2>3. ASSUME NEW w \in Workers, DeleteSent(w)
        PROVE  /\ copies[job[w]] > 0
               /\ row' = row \/ row' = [row EXCEPT ![job[w]] = "delivered"]
    <3>1. \/ row' = row
          \/ row' = [row EXCEPT ![job[w]] =
                      IF row[job[w]] = "queued" THEN "delivered" ELSE row[job[w]]]
      BY <2>3 DEF DeleteSent, Remove, Keep
    <3>2. QED
      BY <2>3, <3>1 DEF DeleteSent, NextRow, Goto, JobInv, TypeOK
  <2>4. ASSUME NEW w \in Workers, DropPoison(w)
        PROVE  /\ fails[job[w]] > MaxAttempts
               /\ row' = row \/ row' = [row EXCEPT ![job[w]] = "dropped"]
    <3>1. \/ row' = row
          \/ row' = [row EXCEPT ![job[w]] =
                      IF row[job[w]] = "queued" THEN "dropped" ELSE row[job[w]]]
      BY <2>4 DEF DropPoison, Remove, Keep
    <3>2. QED
      BY <2>4, <3>1 DEF DropPoison, NextRow, Goto, JobInv, TypeOK
  <2>5. QED
    BY <2>1, <2>2, <2>3, <2>4 DEF TypeOK
<1>3. \A m \in Msgs : copies[m] \in Nat /\ fails[m] \in Nat
  BY DEF TypeOK, CountCap
<1>4. QED
  BY <1>1, <1>2, <1>3 DEF NoLossBeforeCap

THEOREM IInvAlways == Spec => []IInv
<1>1. IInv /\ [Next]_vars => IInv'
  BY TypeStep, JobStep, CountStep, NoLossStep DEF IInv
<1>2. QED
  BY InitIInv, <1>1, PTL DEF Spec

-----------------------------------------------------------------------------
(* The properties of the runs, for every value of the constants. *)

THEOREM TypeCorrect == Spec => []TypeOK
<1>1. IInv => TypeOK  BY DEF IInv
<1>2. QED  BY <1>1, IInvAlways, PTL

\* However many workers share the table, and wherever the process is killed, a
\* row leaves only after a success or after MaxAttempts + 1 failed tries.
THEOREM RowsAreKept == Spec => []NoLossBeforeCap
<1>1. IInv => NoLossBeforeCap  BY DEF IInv
<1>2. QED  BY <1>1, IInvAlways, PTL

-----------------------------------------------------------------------------
(* Refinement: with one worker, Outbox implements Delivery. *)

OneWorker == \A v, w \in Workers : v = w

\* Nobody else deletes the row the worker holds.
SoleInv == \A w \in Workers : pc[w] \in Busy => row[job[w]] = "queued"

LEMMA SoleStep ==
  OneWorker /\ TypeOK /\ JobInv /\ SoleInv /\ [Next]_vars => SoleInv'
<1> SUFFICES ASSUME OneWorker, TypeOK, JobInv, SoleInv, [Next]_vars
             PROVE  SoleInv'
    OBVIOUS
<1> USE DEF TypeOK, JobInv, SoleInv, Busy, rows, process, history, Goto
<1>1. ASSUME NEW w \in Workers, NEW m \in Msgs, Send(w, m) PROVE SoleInv'
  BY <1>1 DEF Send
<1>2. ASSUME NEW m \in Msgs, Elapse(m) PROVE SoleInv'
  BY <1>2 DEF Elapse
<1>3. ASSUME NEW w \in Workers, Tick(w) \/ EndFlush(w) PROVE SoleInv'
  BY <1>3 DEF Tick, EndFlush
<1>4. ASSUME NEW w \in Workers, NEW m \in Msgs, Pick(w, m) PROVE SoleInv'
  BY <1>4 DEF Pick, Ready, Queued
<1>5. ASSUME NEW w \in Workers, SendOk(w) \/ SendFail(w) \/ ReadAttempts(w)
      PROVE  SoleInv'
  BY <1>5 DEF SendOk, SendFail, ReadAttempts
<1>6. ASSUME NEW w \in Workers, DeleteSent(w) \/ DropPoison(w) \/ ScheduleRetry(w)
      PROVE  SoleInv'
  <2>1. pc'[w] = "select"
    BY <1>6 DEF DeleteSent, DropPoison, ScheduleRetry, NextRow
  <2>2. QED
    BY <2>1 DEF OneWorker
<1>7. ASSUME NEW w \in Workers, Expire(w) \/ Exit(w) PROVE SoleInv'
  BY <1>7 DEF Expire, Exit
<1>8. CASE Stop \/ Crash \/ Boot \/ Settle
  BY <1>8 DEF Stop, Crash, Boot, Settle
<1>9. CASE UNCHANGED vars
  BY <1>9 DEF vars
<1>10. QED
  BY <1>1, <1>2, <1>3, <1>4, <1>5, <1>6, <1>7, <1>8, <1>9
  DEF Next, Flush, Deliver, Fault

LEMMA RefineInit == Init => Contract!Init
  BY DEF Init, Contract!Init, phaseBar, PhaseOf

LEMMA RowMoves ==
  ASSUME TypeOK, NEW m \in Msgs, NEW s, row' = [row EXCEPT ![m] = s]
  PROVE  phaseBar' = [phaseBar EXCEPT ![m] = PhaseOf(s)]
  BY DEF TypeOK, phaseBar

LEMMA RefineStep ==
  TypeOK /\ JobInv /\ SoleInv /\ [Next]_vars => [Contract!Next]_Contract!vars
<1> SUFFICES ASSUME TypeOK, JobInv, SoleInv, [Next]_vars
             PROVE  Contract!Next \/ UNCHANGED Contract!vars
    OBVIOUS
<1> USE DEF Contract!Next, Contract!vars
<1>0. /\ copies \in [Msgs -> 0..CountCap]
      /\ fails \in [Msgs -> 0..CountCap]
  BY DEF TypeOK
<1>1. ASSUME NEW w \in Workers, NEW m \in Msgs, Send(w, m) PROVE Contract!Offer(m)
  <2>1. phaseBar' = [phaseBar EXCEPT ![m] = PhaseOf("queued")] /\ phaseBar[m] = "new"
    BY <1>1, RowMoves DEF Send, phaseBar, PhaseOf
  <2>2. PhaseOf("queued") = "open"
    BY DEF PhaseOf
  <2>3. QED
    BY <1>1, <2>1, <2>2 DEF Send, Contract!Offer, Contract!Move
\* A worker with a row in hand: the message is open.
<1>2. ASSUME NEW w \in Workers, pc[w] \in Busy
      PROVE  job[w] \in Msgs /\ row[job[w]] = "queued" /\ phaseBar[job[w]] = "open"
  BY <1>2 DEF JobInv, SoleInv, phaseBar, PhaseOf
<1>3. ASSUME NEW w \in Workers, NEW took \in BOOLEAN, Took(w, took), job[w] \in Msgs
      PROVE  copies' = [copies EXCEPT ![job[w]] = Contract!Bump(copies[job[w]], took)]
  BY <1>0, <1>3 DEF Took, Sat, Contract!Bump
<1>4. ASSUME NEW w \in Workers, SendOk(w) PROVE Contract!Try(job[w], TRUE, FALSE)
  <2>1. job[w] \in Msgs /\ phaseBar[job[w]] = "open"
    BY <1>2, <1>4 DEF SendOk, Goto, Busy
  <2>2. phaseBar' = phaseBar /\ fails' = fails /\ Took(w, TRUE)
    BY <1>4 DEF SendOk, rows, phaseBar
  <2>3. fails' = [fails EXCEPT ![job[w]] = Contract!Bump(fails[job[w]], FALSE)]
    BY <1>0, <2>1, <2>2 DEF Contract!Bump
  <2>4. QED
    BY <1>3, <2>1, <2>2, <2>3 DEF Contract!Try
<1>5. ASSUME NEW w \in Workers, SendFail(w)
      PROVE  \E took \in BOOLEAN : Contract!Try(job[w], took, TRUE)
  <2>1. job[w] \in Msgs /\ phaseBar[job[w]] = "open"
    BY <1>2, <1>5 DEF SendFail, Goto, Busy
  <2>2. PICK took \in BOOLEAN :
          /\ Took(w, took)
          /\ fails' = [fails EXCEPT ![job[w]] = Sat(fails[job[w]], CountCap)]
          /\ phaseBar' = phaseBar
    BY <1>5 DEF SendFail, rows, phaseBar
  <2>3. Sat(fails[job[w]], CountCap) = Contract!Bump(fails[job[w]], TRUE)
    BY DEF Sat, Contract!Bump
  <2>4. Contract!Try(job[w], took, TRUE)
    BY <1>3, <2>1, <2>2, <2>3 DEF Contract!Try
  <2>5. QED
    BY <2>4
<1>6. ASSUME NEW w \in Workers, DeleteSent(w)
      PROVE  Contract!Confirm(job[w]) \/ UNCHANGED Contract!vars
  <2>1. /\ job[w] \in Msgs /\ phaseBar[job[w]] = "open" /\ row[job[w]] = "queued"
        /\ copies[job[w]] > 0
        /\ UNCHANGED <<copies, fails>>
    BY <1>2, <1>6 DEF DeleteSent, NextRow, Goto, Busy, JobInv, history
  <2>2. CASE Keep
    BY <2>1, <2>2 DEF Keep, phaseBar
  <2>3. CASE Remove(w, "delivered")
    <3>1. row' = [row EXCEPT ![job[w]] = "delivered"]
      BY <2>1, <2>3 DEF Remove
    <3>2. phaseBar' = [phaseBar EXCEPT ![job[w]] = "delivered"]
      BY <2>1, <3>1, RowMoves DEF PhaseOf
    <3>3. QED
      BY <2>1, <3>2 DEF Contract!Confirm, Contract!Move
  <2>4. QED
    BY <1>6, <2>2, <2>3 DEF DeleteSent
<1>7. ASSUME NEW w \in Workers, DropPoison(w)
      PROVE  Contract!Abandon(job[w]) \/ UNCHANGED Contract!vars
  <2>1. /\ job[w] \in Msgs /\ phaseBar[job[w]] = "open" /\ row[job[w]] = "queued"
        /\ fails[job[w]] >= CountCap
        /\ UNCHANGED <<copies, fails>>
    BY <1>0, <1>2, <1>7
    DEF DropPoison, NextRow, Goto, Busy, JobInv, history, CountCap
  <2>2. CASE Keep
    BY <2>1, <2>2 DEF Keep, phaseBar
  <2>3. CASE Remove(w, "dropped")
    <3>1. row' = [row EXCEPT ![job[w]] = "dropped"]
      BY <2>1, <2>3 DEF Remove
    <3>2. phaseBar' = [phaseBar EXCEPT ![job[w]] = "abandoned"]
      BY <2>1, <3>1, RowMoves DEF PhaseOf
    <3>3. QED
      BY <2>1, <3>2 DEF Contract!Abandon, Contract!Move
  <2>4. QED
    BY <1>7, <2>2, <2>3 DEF DropPoison
<1>8. ASSUME UNCHANGED <<row, copies, fails>> PROVE UNCHANGED Contract!vars
  BY <1>8 DEF phaseBar
<1>9. ASSUME NEW w \in Workers, ScheduleRetry(w) PROVE UNCHANGED Contract!vars
  BY <1>8, <1>9 DEF ScheduleRetry, NextRow, Postpone, Keep, history
<1>10. ASSUME NEW w \in Workers, Tick(w) \/ EndFlush(w) \/ ReadAttempts(w)
       PROVE  UNCHANGED Contract!vars
  <2>1. UNCHANGED rows /\ UNCHANGED history
    BY <1>10 DEF Tick, EndFlush, ReadAttempts
  <2>2. QED
    BY <1>8, <2>1 DEF rows, history
<1>11. ASSUME NEW w \in Workers, Expire(w) \/ Exit(w) \/ Deliver(w)
       PROVE  UNCHANGED Contract!vars
  <2>1. UNCHANGED rows /\ UNCHANGED history
    BY <1>11 DEF Expire, Exit, Deliver, Pick
  <2>2. QED
    BY <1>8, <2>1 DEF rows, history
<1>12. CASE Stop \/ Crash \/ Boot \/ Settle \/ UNCHANGED vars
  <2>1. UNCHANGED rows /\ UNCHANGED history
    BY <1>12 DEF Stop, Crash, Boot, Settle, vars
  <2>2. QED
    BY <1>8, <2>1 DEF rows, history
<1>13. ASSUME NEW m \in Msgs, Elapse(m) PROVE UNCHANGED Contract!vars
  BY <1>8, <1>13 DEF Elapse, history
<1>14. ASSUME NEW w \in Workers, Flush(w)
       PROVE  Contract!Next \/ UNCHANGED Contract!vars
  <2>1. CASE SendOk(w)
    <3>1. job[w] \in Msgs
      BY <1>2, <2>1 DEF SendOk, Goto, Busy
    <3>2. QED
      BY <1>4, <2>1, <3>1
  <2>2. CASE SendFail(w)
    <3>1. job[w] \in Msgs
      BY <1>2, <2>2 DEF SendFail, Goto, Busy
    <3>2. QED
      BY <1>5, <2>2, <3>1
  <2>3. CASE DeleteSent(w)
    <3>1. job[w] \in Msgs
      BY <1>2, <2>3 DEF DeleteSent, NextRow, Goto, Busy
    <3>2. QED
      BY <1>6, <2>3, <3>1
  <2>4. CASE DropPoison(w)
    <3>1. job[w] \in Msgs
      BY <1>2, <2>4 DEF DropPoison, NextRow, Goto, Busy
    <3>2. QED
      BY <1>7, <2>4, <3>1
  <2>5. QED
    BY <1>9, <1>10, <1>11, <1>14, <2>1, <2>2, <2>3, <2>4 DEF Flush
<1>15. QED
  BY <1>1, <1>11, <1>12, <1>13, <1>14 DEF Next, Fault

\* An outbox that owns its table implements Delivery for any number of
\* notifications and any MaxAttempts.
THEOREM RefinesDelivery == ASSUME OneWorker PROVE Spec => ImplementsDelivery
<1>1. Init => SoleInv
  BY DEF Init, SoleInv, Busy
<1>2. IInv /\ SoleInv /\ [Next]_vars => SoleInv'
  BY SoleStep DEF IInv
<1>3. IInv /\ SoleInv /\ [Next]_vars => [Contract!Next]_Contract!vars
  BY RefineStep DEF IInv
<1>4. QED
  BY RefineInit, IInvAlways, <1>1, <1>2, <1>3, PTL
  DEF Spec, ImplementsDelivery, Contract!Spec
=============================================================================
