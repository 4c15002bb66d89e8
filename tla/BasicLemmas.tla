----------------------------- MODULE BasicLemmas -----------------------------
(* What several proofs rest on: induction over numbers and sequences, and the  *)
(* division of numbers.  The induction theorems of the library take an         *)
(* operator and cannot be used here; these are induction over a set, from the  *)
(* well-foundedness of the naturals.                                           *)
EXTENDS Integers, Sequences, SequenceTheorems, WellFoundedInduction, TLAPS

-----------------------------------------------------------------------------
(* Induction over the naturals and over sequences.                           *)

LEMMA LeastOf ==
  ASSUME NEW T, T \subseteq Nat, T # {}
  PROVE  \E x \in T : \A y \in T : ~(y < x)
<1>1. PICK x \in T : \A y \in T : ~(<<y, x>> \in OpToRel(<, Nat))
  BY NatLessThanWellFounded, WFMin
<1>2. QED
  BY <1>1 DEF OpToRel

LEMMA SetInduction ==
  ASSUME NEW S, 0 \in S, \A n \in Nat : n \in S => n + 1 \in S
  PROVE  Nat \subseteq S
<1> SUFFICES ASSUME Nat \ S # {} PROVE FALSE
  OBVIOUS
<1>1. PICK x \in Nat \ S : \A y \in Nat \ S : ~(y < x)
  BY LeastOf
<1>2. x # 0 /\ x - 1 \in Nat
  BY <1>1
<1>3. x - 1 \in S
  BY <1>1, <1>2
<1>4. QED
  BY <1>1, <1>2, <1>3

LEMMA SeqInduction ==
  ASSUME NEW B, NEW S, <<>> \in S,
         \A s \in Seq(B), b \in B : s \in S => Append(s, b) \in S
  PROVE  Seq(B) \subseteq S
<1> DEFINE N == {n \in Nat : \A s \in Seq(B) : Len(s) = n => s \in S}
<1>1. 0 \in N
  BY EmptySeq
<1>2. ASSUME NEW n \in Nat, n \in N
      PROVE  n + 1 \in N
  <2> SUFFICES ASSUME NEW s \in Seq(B), Len(s) = n + 1
               PROVE  s \in S
    OBVIOUS
  <2>1. PICK t \in Seq(B), b \in B : s = Append(t, b)
    BY SequenceEmptyOrAppend, EmptySeq
  <2>2. Len(t) = n
    BY <2>1, AppendProperties
  <2>3. t \in S
    BY <1>2, <2>2
  <2> QED
    BY <2>1, <2>3
<1>3. Nat \subseteq N
  <2> HIDE DEF N
  <2> QED
    BY <1>1, <1>2, SetInduction
<1>4. QED
  BY <1>3, LenProperties

\* What holds of the first value of a recursion and is kept by its step holds of
\* every value.
LEMMA UpTo ==
  ASSUME NEW n \in Nat, NEW S, 0 \in S, \A i \in 1..n : i - 1 \in S => i \in S
  PROVE  0..n \subseteq S
<1> DEFINE T == {i \in Nat : i <= n => i \in S}
<1>1. 0 \in T
  OBVIOUS
<1>2. ASSUME NEW i \in Nat, i \in T PROVE i + 1 \in T
  <2>1. (i + 1) - 1 = i
    OBVIOUS
  <2>2. CASE i + 1 <= n
    <3>1. i + 1 \in 1..n /\ i \in S
      BY <1>2, <2>2
    <3> QED
      BY <2>1, <3>1
  <2>3. CASE ~(i + 1 <= n)
    BY <2>3
  <2> QED
    BY <2>2, <2>3
<1>3. Nat \subseteq T
  <2> HIDE DEF T
  <2> QED
    BY <1>1, <1>2, SetInduction
<1> QED
  BY <1>3

\* f goes from a by the given step.
StepsBy(f, a, step, n) == f[0] = a /\ \A i \in 1..n : f[i] = step[<<f[i - 1], i>>]

\* A recursion over a step that keeps to a set has values, in that set.
LEMMA Recursion ==
  ASSUME NEW X, NEW a \in X, NEW n \in Nat, NEW step \in [X \X (1..n) -> X]
  PROVE  \E f \in [0..n -> X] : StepsBy(f, a, step, n)
<1> DEFINE P(m, f) == f[0] = a /\ \A i \in 1..m : f[i] = step[<<f[i - 1], i>>]
           N == {m \in 0..n : \E f \in [0..m -> X] : P(m, f)}
<1>1. 0 \in N
  <2> DEFINE f == [i \in 0..0 |-> a]
  <2>1. f \in [0..0 -> X] /\ P(0, f)
    OBVIOUS
  <2> HIDE DEF f, P
  <2> QED
    BY <2>1
<1>2. ASSUME NEW m \in 1..n, m - 1 \in N
      PROVE  m \in N
  <2>1. PICK f \in [0..(m - 1) -> X] : P(m - 1, f)
    BY <1>2
  <2> DEFINE g == [i \in 0..m |-> IF i < m THEN f[i] ELSE step[<<f[m - 1], m>>]]
  <2>2. f[m - 1] \in X
    OBVIOUS
  <2>3. g \in [0..m -> X]
    BY <2>2
  <2>4. g[0] = a
    BY <2>1
  <2>5. ASSUME NEW i \in 1..m
        PROVE  g[i] = step[<<g[i - 1], i>>]
    <3>1. i \in 0..m /\ i - 1 \in 0..m /\ i - 1 < m
      OBVIOUS
    <3>2. g[i - 1] = f[i - 1]
      BY <3>1
    <3>3. g[i] = IF i < m THEN f[i] ELSE step[<<f[m - 1], m>>]
      BY <3>1
    <3> HIDE DEF g
    <3>4. CASE i < m
      <4>1. i \in 1..(m - 1)
        BY <3>4
      <4>2. f[i] = step[<<f[i - 1], i>>]
        BY <2>1, <4>1
      <4> QED
        BY <3>2, <3>3, <3>4, <4>2
    <3>5. CASE i = m
      BY <3>2, <3>3, <3>5
    <3> QED
      BY <3>4, <3>5
  <2>6. P(m, g)
    BY <2>4, <2>5
  <2> HIDE DEF g, P
  <2> QED
    BY <2>3, <2>6
<1>3. 0..n \subseteq N
  <2> HIDE DEF N
  <2> QED
    BY <1>1, <1>2, UpTo
<1>4. n \in N
  <2> HIDE DEF N
  <2> QED
    BY <1>3
<1> QED
  BY <1>4 DEF StepsBy

-----------------------------------------------------------------------------
(* Numbers.                                                                  *)

LEMMA Division ==
  ASSUME NEW w \in Nat \ {0}, NEW x \in Nat
  PROVE  /\ x \div w \in Nat /\ x % w \in 0..(w - 1)
         /\ x = w * (x \div w) + (x % w)
  OBVIOUS

LEMMA Quotient ==
  ASSUME NEW w \in Nat \ {0}, NEW q \in Nat, NEW r \in 0..(w - 1)
  PROVE  (w * q + r) \div w = q
  OBVIOUS

LEMMA Monotone ==
  ASSUME NEW w \in Nat, NEW a \in Int, NEW b \in Int, a <= b
  PROVE  w * a <= w * b
<1>1. b - a \in Nat
  OBVIOUS
<1>2. w * (b - a) >= 0
  BY <1>1
<1>3. w * (b - a) = w * b - w * a
  OBVIOUS
<1> QED
  BY <1>2, <1>3
=============================================================================
