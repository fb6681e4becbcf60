---------------------------- MODULE RecursionProofs ----------------------------
(***************************************************************************)
(* What the proofs about the components take from elsewhere: numbers and   *)
(* recursion over them, and sequences that are put one behind another      *)
(* (FlattenSeq of SequencesExt).                                           *)
(***************************************************************************)
EXTENDS Integers, Sequences, SequencesExt, FiniteSetTheorems, SequenceTheorems,
        WellFoundedInduction, TLAPS

-----------------------------------------------------------------------------
(* Numbers, and recursion over them *)

\* A set of numbers has a least one, and one that is bounded a greatest.
LEMMA LeastNumber ==
  ASSUME NEW T, T \subseteq Nat, T # {}
  PROVE  \E x \in T : \A y \in T : x <= y
<1>1. PICK x \in T : \A y \in T : ~ (<<y, x>> \in OpToRel(<, Nat))
  BY NatLessThanWellFounded, WFMin
<1>2. ASSUME NEW y \in T PROVE x <= y
  <2>1. x \in Nat /\ y \in Nat
    OBVIOUS
  <2>2. ~ (<<y, x>> \in OpToRel(<, Nat))
    BY <1>1
  <2>3. ~ (y < x)
    BY <2>1, <2>2 DEF OpToRel
  <2> QED BY <2>1, <2>3
<1> QED BY <1>2

LEMMA LeastIsMin ==
  ASSUME NEW T, T \subseteq Nat, T # {}
  PROVE  Min(T) \in T /\ \A y \in T : Min(T) <= y
<1>1. \E x \in T : \A y \in T : x <= y
  BY LeastNumber
<1> QED BY <1>1 DEF Min

LEMMA MaxOfBounded ==
  ASSUME NEW T, NEW n \in Nat, T \subseteq 0..n, T # {}
  PROVE  Max(T) \in T /\ \A y \in T : y <= Max(T)
<1> DEFINE U == {n - x : x \in T}
<1>0. \A x \in T : x \in Nat /\ n - x \in Nat
  OBVIOUS
<1>1. U \subseteq Nat /\ U # {}
  BY <1>0
<1>2. PICK u \in U : \A v \in U : u <= v
  <2> HIDE DEF U
  <2> QED BY <1>1, LeastNumber
<1>3. PICK x \in T : u = n - x
  OBVIOUS
<1>4. ASSUME NEW y \in T PROVE x >= y
  <2>1. n - y \in U
    OBVIOUS
  <2>2. n - x <= n - y
    BY <1>2, <1>3, <2>1
  <2>3. x \in Nat /\ y \in Nat
    BY <1>0
  <2> QED BY <2>2, <2>3
<1>5. \E z \in T : \A y \in T : z >= y
  BY <1>4
<1>6. Max(T) \in T /\ \A y \in T : Max(T) >= y
  BY <1>5 DEF Max
<1> QED BY <1>0, <1>6

\* Induction over the numbers in a set.
LEMMA SetInduction ==
  ASSUME NEW S, 0 \in S, \A n \in Nat : n \in S => n + 1 \in S
  PROVE  Nat \subseteq S
<1> SUFFICES ASSUME Nat \ S # {} PROVE FALSE
  OBVIOUS
<1>1. PICK x \in Nat \ S : \A y \in Nat \ S : ~ (<<y, x>> \in OpToRel(<, Nat))
  BY NatLessThanWellFounded, WFMin
<1>2. x \in Nat /\ x # 0
  OBVIOUS
<1>3. x - 1 \in Nat /\ x - 1 < x
  BY <1>2
<1>4. <<x - 1, x>> \in OpToRel(<, Nat)
  BY <1>2, <1>3 DEF OpToRel
<1>5. x - 1 \in S
  BY <1>1, <1>3, <1>4
<1>6. x - 1 + 1 = x
  BY <1>2
<1> QED BY <1>3, <1>5, <1>6


\* The beginning of a recursion, up to n.
Course(f, V, base, step, n) ==
  /\ f \in [0..n -> V] /\ f[0] = base
  /\ \A i \in 1..n : f[i] = step[<<i - 1, f[i - 1]>>]

LEMMA CoursesExist ==
  ASSUME NEW V, NEW base \in V, NEW step, \A n \in Nat, v \in V : step[<<n, v>>] \in V
  PROVE  \A n \in Nat : \E f : Course(f, V, base, step, n)
<1> DEFINE S == {n \in Nat : \E f : Course(f, V, base, step, n)}
<1>1. 0 \in S
  <2>1. Course([i \in 0..0 |-> base], V, base, step, 0)
    BY DEF Course
  <2> QED BY <2>1
<1>2. ASSUME NEW n \in Nat, n \in S PROVE n + 1 \in S
  <2>1. PICK f : Course(f, V, base, step, n)
    BY <1>2
  <2> DEFINE h == [i \in 0..(n + 1) |-> IF i = n + 1 THEN step[<<n, f[n]>>] ELSE f[i]]
  <2>2. n \in 0..n /\ 0 \in 0..n /\ n + 1 \in 0..(n + 1)
    OBVIOUS
  <2>3. \A i \in 0..n : f[i] \in V /\ h[i] = f[i]
    BY <2>1 DEF Course
  <2>4. h[n + 1] = step[<<n, f[n]>>]
    BY <2>2
  <2>5. step[<<n, f[n]>>] \in V
    BY <2>2, <2>3
  <2>6. h \in [0..(n + 1) -> V]
    <3>1. ASSUME NEW i \in 0..(n + 1) PROVE h[i] \in V
      <4>1. i = n + 1 \/ i \in 0..n
        OBVIOUS
      <4> HIDE DEF h
      <4> QED BY <2>3, <2>4, <2>5, <4>1
    <3> QED BY <3>1
  <2>7. h[0] = base
    BY <2>1, <2>2, <2>3 DEF Course
  <2>8. ASSUME NEW i \in 1..(n + 1) PROVE h[i] = step[<<i - 1, h[i - 1]>>]
    <3>1. i - 1 \in 0..n /\ (i = n + 1 => i - 1 = n) /\ (i # n + 1 => i \in 1..n /\ i \in 0..n)
      OBVIOUS
    <3>2. h[i - 1] = f[i - 1]
      BY <2>3, <3>1
    <3> HIDE DEF h
    <3>3. CASE i = n + 1
      BY <2>4, <3>1, <3>2, <3>3
    <3>4. CASE i # n + 1
      BY <2>1, <2>3, <3>1, <3>2, <3>4 DEF Course
    <3> QED BY <3>3, <3>4
  <2>9. Course(h, V, base, step, n + 1)
    BY <2>6, <2>7, <2>8 DEF Course
  <2> QED BY <2>9
<1>3. Nat \subseteq S
  <2> HIDE DEF S
  <2> QED BY <1>1, <1>2, SetInduction
<1> QED BY <1>3

LEMMA CoursesAgree ==
  ASSUME NEW V, NEW base, NEW step, NEW n \in Nat, NEW f, NEW g,
         Course(f, V, base, step, n), Course(g, V, base, step, n + 1)
  PROVE  f[n] = g[n]
<1> DEFINE S == {i \in Nat : i <= n => f[i] = g[i]}
<1>1. 0 \in S
  BY DEF Course
<1>2. ASSUME NEW i \in Nat, i \in S PROVE i + 1 \in S
  <2>1. CASE i + 1 <= n
    <3>1. i + 1 \in 1..n /\ i + 1 \in 1..(n + 1) /\ i + 1 - 1 = i /\ i <= n
      BY <2>1
    <3>2. f[i] = g[i]
      BY <1>2, <3>1
    <3>3. f[i + 1] = step[<<i, f[i]>>] /\ g[i + 1] = step[<<i, g[i]>>]
      BY <3>1 DEF Course
    <3> QED BY <3>2, <3>3
  <2> QED BY <2>1
<1>3. Nat \subseteq S
  <2> HIDE DEF S
  <2> QED BY <1>1, <1>2, SetInduction
<1> QED BY <1>3

\* The function that begins with base, and goes from each number to the next by step.
Recursion(f, V, base, step) ==
  f \in [Nat -> V] /\ f[0] = base /\ \A n \in Nat : f[n + 1] = step[<<n, f[n]>>]

\* There is one, which is what a definition by recursion takes for granted.
LEMMA RecursionExists ==
  ASSUME NEW V, NEW base \in V, NEW step, \A n \in Nat, v \in V : step[<<n, v>>] \in V
  PROVE  \E f : Recursion(f, V, base, step)
<1> DEFINE C(n) == CHOOSE f : Course(f, V, base, step, n)
           f == [n \in Nat |-> C(n)[n]]
<1>1. \A n \in Nat : Course(C(n), V, base, step, n)
  BY CoursesExist
<1> HIDE DEF C
<1>2. ASSUME NEW n \in Nat PROVE C(n)[n] \in V
  BY <1>1 DEF Course
<1>3. f \in [Nat -> V]
  BY <1>2
<1>4. f[0] = base
  BY <1>1 DEF Course
<1>5. ASSUME NEW n \in Nat PROVE f[n + 1] = step[<<n, f[n]>>]
  <2>1. n + 1 \in Nat /\ n + 1 \in 1..(n + 1) /\ n + 1 - 1 = n
    OBVIOUS
  <2>2. Course(C(n), V, base, step, n) /\ Course(C(n + 1), V, base, step, n + 1)
    BY <1>1, <2>1
  <2>3. C(n)[n] = C(n + 1)[n]
    BY <2>2, CoursesAgree
  <2> DEFINE D == C(n + 1)
  <2>4. \A i \in 1..(n + 1) : D[i] = step[<<i - 1, D[i - 1]>>]
    BY <2>2, Zenon DEF Course
  <2>5. D[n + 1] = step[<<n, D[n]>>]
    <3> HIDE DEF f, D
    <3>1. \A i \in 1..(n + 1) : i - 1 = n => D[i] = step[<<n, D[n]>>]
      BY <2>4
    <3> QED BY <2>1, <3>1
  <2> QED BY <2>1, <2>3, <2>5
<1> HIDE DEF f
<1> QED BY <1>3, <1>4, <1>5 DEF Recursion

-----------------------------------------------------------------------------
(* Sequences *)

\* Induction over the sequences in a set.
LEMMA SequencesInSet ==
  ASSUME NEW S, NEW T, <<>> \in T, \A s \in Seq(S), e \in S : s \in T => Append(s, e) \in T
  PROVE  Seq(S) \subseteq T
<1> DEFINE N == {n \in Nat : \A s \in Seq(S) : Len(s) = n => s \in T}
<1>1. 0 \in N
  BY EmptySeq
<1>2. ASSUME NEW n \in Nat, n \in N PROVE n + 1 \in N
  <2> SUFFICES ASSUME NEW s \in Seq(S), Len(s) = n + 1 PROVE s \in T
    OBVIOUS
  <2>1. s # <<>>
    BY EmptySeq
  <2>2. PICK r \in Seq(S), e \in S : s = Append(r, e)
    BY <2>1, SequenceEmptyOrAppend
  <2>3. Len(r) = n
    BY <2>2, LenProperties, AppendProperties
  <2> QED BY <1>2, <2>2, <2>3
<1>3. Nat \subseteq N
  <2> HIDE DEF N
  <2> QED BY <1>1, <1>2, SetInduction
<1>4. \A s \in Seq(S) : Len(s) \in Nat
  BY LenProperties
<1> QED BY <1>3, <1>4

\* The first n of ss one behind another, and the beginnings of that.
Flattening(f, ss, n) ==
  f = [i \in 1..n |-> IF i = 1 THEN ss[i] ELSE f[i - 1] \o ss[i]]

LEMMA FlatteningAt ==
  ASSUME NEW f, NEW ss, NEW n, Flattening(f, ss, n), NEW i \in 1..n
  PROVE  f[i] = IF i = 1 THEN ss[i] ELSE f[i - 1] \o ss[i]
  BY Zenon DEF Flattening

LEMMA FlatteningsExist ==
  ASSUME NEW S, NEW ss \in Seq(Seq(S))
  PROVE  \A n \in Nat : n <= Len(ss) => \E f \in [1..n -> Seq(S)] : Flattening(f, ss, n)
<1> DEFINE N == {n \in Nat : n <= Len(ss) => \E f \in [1..n -> Seq(S)] : Flattening(f, ss, n)}
<1>1. 0 \in N
  <2>1. Flattening(<<>>, ss, 0) /\ <<>> \in [1..0 -> Seq(S)]
    BY DEF Flattening
  <2> QED BY <2>1
<1>2. ASSUME NEW n \in Nat, n \in N PROVE n + 1 \in N
  <2> SUFFICES ASSUME n + 1 <= Len(ss)
               PROVE  \E f \in [1..(n + 1) -> Seq(S)] : Flattening(f, ss, n + 1)
    OBVIOUS
  <2>0. Len(ss) \in Nat
    BY LenProperties
  <2>1. PICK f \in [1..n -> Seq(S)] : Flattening(f, ss, n)
    BY <1>2, <2>0
  <2> DEFINE last == IF n = 0 THEN ss[1] ELSE f[n] \o ss[n + 1]
             g == [i \in 1..(n + 1) |-> IF i = n + 1 THEN last ELSE f[i]]
  <2>2. ss[n + 1] \in Seq(S)
    BY <2>0, ElementOfSeq
  <2>3. last \in Seq(S)
    <3>1. CASE n = 0
      BY <2>2, <3>1
    <3>2. CASE n # 0
      <4>1. f[n] \in Seq(S)
        BY <3>2
      <4> QED BY <2>2, <3>2, <4>1, ConcatProperties
    <3> QED BY <3>1, <3>2
  <2> HIDE DEF last
  <2>4. g \in [1..(n + 1) -> Seq(S)]
    BY <2>3
  <2>5. ASSUME NEW i \in 1..(n + 1)
        PROVE  g[i] = IF i = 1 THEN ss[i] ELSE g[i - 1] \o ss[i]
    <3>1. CASE i = n + 1
      <4>1. n # 0 => n \in 1..(n + 1) /\ g[n] = f[n]
        OBVIOUS
      <4> QED BY <3>1, <4>1 DEF last
    <3>2. CASE i # n + 1
      <4>1. i \in 1..n /\ (i # 1 => i - 1 \in 1..n /\ i - 1 # n + 1)
        BY <3>2
      <4>2. f[i] = IF i = 1 THEN ss[i] ELSE f[i - 1] \o ss[i]
        BY <2>1, <4>1 DEF Flattening
      <4>3. g[i] = f[i] /\ (i # 1 => g[i - 1] = f[i - 1])
        BY <3>2, <4>1
      <4> QED BY <4>2, <4>3
    <3> QED BY <3>1, <3>2
  <2>6. Flattening(g, ss, n + 1)
    <3> DEFINE h == [i \in 1..(n + 1) |-> IF i = 1 THEN ss[i] ELSE g[i - 1] \o ss[i]]
    <3>1. \A i \in 1..(n + 1) : g[i] = h[i]
      BY <2>5, Zenon
    <3>2. g = h
      <4>1. g = [i \in 1..(n + 1) |-> g[i]]
        BY <2>4
      <4> HIDE DEF g
      <4> QED BY <3>1, <4>1
    <3> HIDE DEF g
    <3> QED BY <3>2 DEF Flattening
  <2> QED BY <2>4, <2>6
<1>3. Nat \subseteq N
  <2> HIDE DEF N
  <2> QED BY <1>1, <1>2, SetInduction
<1> QED BY <1>3

Agree(s, t, n) == \A i \in 1..n : s[i] = t[i]

LEMMA FlatteningsAgree ==
  ASSUME NEW n \in Nat, NEW m \in Nat, n <= m, NEW ss, NEW tt, Agree(ss, tt, n),
         NEW f, Flattening(f, ss, n), NEW g, Flattening(g, tt, m)
  PROVE  Agree(f, g, n)
<1> DEFINE N == {i \in Nat : i \in 1..n => f[i] = g[i]}
<1>1. 0 \in N
  OBVIOUS
<1>2. ASSUME NEW i \in Nat, i \in N PROVE i + 1 \in N
  <2> SUFFICES ASSUME i + 1 \in 1..n PROVE f[i + 1] = g[i + 1]
    OBVIOUS
  <2>1. i + 1 \in 1..m /\ i + 1 - 1 = i /\ (i # 0 => i \in 1..n) /\ (i + 1 = 1 <=> i = 0)
    OBVIOUS
  <2>2. f[i + 1] = IF i + 1 = 1 THEN ss[i + 1] ELSE f[i + 1 - 1] \o ss[i + 1]
    BY FlatteningAt
  <2>3. g[i + 1] = IF i + 1 = 1 THEN tt[i + 1] ELSE g[i + 1 - 1] \o tt[i + 1]
    BY <2>1, FlatteningAt
  <2>4. ss[i + 1] = tt[i + 1]
    BY DEF Agree
  <2>5. CASE i = 0
    BY <2>1, <2>2, <2>3, <2>4, <2>5
  <2>6. CASE i # 0
    <3>1. f[i] = g[i]
      BY <1>2, <2>1, <2>6
    <3> QED BY <2>1, <2>2, <2>3, <2>4, <2>6, <3>1
  <2> QED BY <2>5, <2>6
<1>3. Nat \subseteq N
  <2> HIDE DEF N
  <2> QED BY <1>1, <1>2, SetInduction
<1> QED BY <1>3 DEF Agree

\* What FlattenSeq returns is the last of these beginnings.
LEMMA FlattenIs ==
  ASSUME NEW S, NEW ss \in Seq(Seq(S)), ss # <<>>
  PROVE  \E f \in [1..Len(ss) -> Seq(S)] :
           Flattening(f, ss, Len(ss)) /\ FlattenSeq(ss) = f[Len(ss)]
<1> DEFINE n == Len(ss)
           g == CHOOSE f : Flattening(f, ss, n)
<1>1. n \in Nat \ {0}
  BY EmptySeq
<1>2. PICK f \in [1..n -> Seq(S)] : Flattening(f, ss, n)
  <2>1. n \in Nat /\ n <= Len(ss)
    BY <1>1
  <2> HIDE DEF n, g
  <2> QED BY <2>1, FlatteningsExist
<1>3. FlattenSeq(ss) = g[n]
  BY <1>1 DEF FlattenSeq, Flattening
<1>4. Flattening(g, ss, n)
  BY <1>2
<1> HIDE DEF g, n
<1>5. n <= n /\ Agree(ss, ss, n)
  BY <1>1 DEF Agree
<1>6. Agree(f, g, n)
  BY <1>1, <1>2, <1>4, <1>5, FlatteningsAgree
<1>7. FlattenSeq(ss) = f[n]
  BY <1>1, <1>3, <1>6 DEF Agree
<1> QED BY <1>2, <1>7 DEF n

LEMMA FlattenEmpty == FlattenSeq(<<>>) = <<>>
  BY DEF FlattenSeq

LEMMA FlattenType ==
  ASSUME NEW S, NEW ss \in Seq(Seq(S))
  PROVE  FlattenSeq(ss) \in Seq(S)
<1>1. CASE ss = <<>>
  BY <1>1, FlattenEmpty, EmptySeq
<1>2. CASE ss # <<>>
  <2>1. Len(ss) \in 1..Len(ss)
    BY <1>2, EmptySeq
  <2>2. PICK f \in [1..Len(ss) -> Seq(S)] : FlattenSeq(ss) = f[Len(ss)]
    BY <1>2, FlattenIs
  <2> QED BY <2>1, <2>2
<1> QED BY <1>1, <1>2

LEMMA FlattenAppend ==
  ASSUME NEW S, NEW ss \in Seq(Seq(S)), NEW s \in Seq(S)
  PROVE  FlattenSeq(Append(ss, s)) = FlattenSeq(ss) \o s
<1> DEFINE tt == Append(ss, s)
           n == Len(ss)
<1>1. tt \in Seq(Seq(S)) /\ tt # <<>> /\ n \in Nat /\ Len(tt) = n + 1 /\ tt[n + 1] = s
      /\ \A i \in 1..n : tt[i] = ss[i]
  BY LenProperties, AppendProperties
<1> HIDE DEF tt
<1>2. PICK g \in [1..(n + 1) -> Seq(S)] : Flattening(g, tt, n + 1) /\ FlattenSeq(tt) = g[n + 1]
  BY <1>1, FlattenIs
<1>3. n + 1 \in 1..(n + 1) /\ n + 1 - 1 = n /\ (n + 1 = 1 <=> n = 0)
  BY <1>1
<1>4. g[n + 1] = IF n = 0 THEN s ELSE g[n] \o s
  <2>1. g[n + 1] = IF n + 1 = 1 THEN tt[n + 1] ELSE g[n + 1 - 1] \o tt[n + 1]
    BY <1>2, <1>3, FlatteningAt
  <2> QED BY <1>1, <1>3, <2>1
<1>5. CASE ss = <<>>
  <2>1. n = 0
    BY <1>5
  <2>2. FlattenSeq(ss) = <<>> /\ <<>> \o s = s
    BY <1>5, FlattenEmpty, ConcatEmptySeq
  <2> QED BY <1>2, <1>4, <2>1, <2>2 DEF tt
<1>6. CASE ss # <<>>
  <2>1. n \in 1..n
    BY <1>6, EmptySeq
  <2>2. PICK f \in [1..n -> Seq(S)] : Flattening(f, ss, n) /\ FlattenSeq(ss) = f[n]
    BY <1>6, FlattenIs
  <2>3. f[n] = g[n]
    <3> HIDE DEF n
    <3>1. n \in Nat /\ n <= n + 1 /\ n + 1 \in Nat /\ Agree(ss, tt, n)
      BY <1>1 DEF Agree
    <3>2. Agree(f, g, n)
      BY <1>2, <2>2, <3>1, FlatteningsAgree
    <3> QED BY <2>1, <3>2 DEF Agree
  <2> QED BY <1>2, <1>4, <2>1, <2>2, <2>3 DEF tt
<1> QED BY <1>5, <1>6

LEMMA FlattenConcat ==
  ASSUME NEW S, NEW ss \in Seq(Seq(S))
  PROVE  \A tt \in Seq(Seq(S)) : FlattenSeq(ss \o tt) = FlattenSeq(ss) \o FlattenSeq(tt)
<1> DEFINE T == {tt \in Seq(Seq(S)) : FlattenSeq(ss \o tt) = FlattenSeq(ss) \o FlattenSeq(tt)}
<1>0. FlattenSeq(ss) \in Seq(S)
  BY FlattenType
<1>1. <<>> \in T
  BY <1>0, EmptySeq, ConcatEmptySeq, FlattenEmpty
<1>2. ASSUME NEW tt \in Seq(Seq(S)), NEW s \in Seq(S), tt \in T PROVE Append(tt, s) \in T
  <2>1. Append(tt, s) \in Seq(Seq(S)) /\ ss \o tt \in Seq(Seq(S)) /\ FlattenSeq(tt) \in Seq(S)
    BY AppendProperties, ConcatProperties, FlattenType
  <2>2. ss \o Append(tt, s) = Append(ss \o tt, s)
    BY <2>1, AppendIsConcat, ConcatAssociative, EmptySeq, AppendProperties
  <2>3. FlattenSeq(Append(ss \o tt, s)) = FlattenSeq(ss \o tt) \o s
    BY <2>1, FlattenAppend
  <2>4. FlattenSeq(Append(tt, s)) = FlattenSeq(tt) \o s
    BY FlattenAppend
  <2>5. FlattenSeq(ss \o tt) = FlattenSeq(ss) \o FlattenSeq(tt)
    BY <1>2
  <2>6. (FlattenSeq(ss) \o FlattenSeq(tt)) \o s = FlattenSeq(ss) \o (FlattenSeq(tt) \o s)
    BY <1>0, <2>1, ConcatAssociative
  <2> QED BY <2>1, <2>2, <2>3, <2>4, <2>5, <2>6
<1>3. Seq(Seq(S)) \subseteq T
  <2> HIDE DEF T
  <2> QED BY <1>1, <1>2, SequencesInSet
<1> QED BY <1>3

\* The elements of q are those of s and then those of t.
JoinIs(s, t, q, S) ==
  /\ q \in Seq(S) /\ Len(s) \in Nat /\ Len(t) \in Nat /\ DOMAIN s = 1..Len(s)
  /\ DOMAIN t = 1..Len(t) /\ Len(q) = Len(s) + Len(t) /\ DOMAIN q = 1..(Len(s) + Len(t))
  /\ \A i \in 1..Len(s) : q[i] = s[i]
  /\ \A i \in 1..Len(t) : q[Len(s) + i] = t[i]
  /\ \A i \in 1..(Len(s) + Len(t)) :
       i \in 1..Len(s) \/ \E j \in 1..Len(t) : i = Len(s) + j

LEMMA Joined ==
  ASSUME NEW S, NEW s \in Seq(S), NEW t \in Seq(S)
  PROVE  JoinIs(s, t, s \o t, S)
<1>1. Len(s) \in Nat /\ Len(t) \in Nat /\ DOMAIN s = 1..Len(s) /\ DOMAIN t = 1..Len(t)
  BY LenProperties
<1>2. s \o t \in Seq(S) /\ Len(s \o t) = Len(s) + Len(t)
      /\ \A i \in 1..(Len(s) + Len(t)) : (s \o t)[i] = IF i <= Len(s) THEN s[i] ELSE t[i - Len(s)]
  BY ConcatProperties
<1>3. DOMAIN (s \o t) = 1..(Len(s) + Len(t))
  BY <1>2, LenProperties
<1>4. ASSUME NEW i \in 1..Len(s) PROVE (s \o t)[i] = s[i]
  <2>1. i \in 1..(Len(s) + Len(t)) /\ i <= Len(s)
    BY <1>1
  <2> QED BY <1>2, <2>1
<1>5. ASSUME NEW i \in 1..Len(t) PROVE (s \o t)[Len(s) + i] = t[i]
  <2>1. PICK k : k = Len(s) + i
    OBVIOUS
  <2>2. k \in 1..(Len(s) + Len(t)) /\ ~ (k <= Len(s)) /\ k - Len(s) = i
    BY <1>1, <2>1
  <2>3. (s \o t)[k] = t[k - Len(s)]
    BY <1>2, <2>2
  <2> QED BY <2>1, <2>2, <2>3
<1>6. ASSUME NEW i \in 1..(Len(s) + Len(t)), i \notin 1..Len(s)
      PROVE  \E j \in 1..Len(t) : i = Len(s) + j
  <2>1. i - Len(s) \in 1..Len(t) /\ i = Len(s) + (i - Len(s))
    BY <1>1, <1>6
  <2> QED BY <2>1
<1> QED BY <1>1, <1>2, <1>3, <1>4, <1>5, <1>6 DEF JoinIs
=============================================================================
