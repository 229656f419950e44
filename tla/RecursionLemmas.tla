-------------------------- MODULE RecursionLemmas --------------------------
(***************************************************************************)
(* Induction over numbers without an operator parameter, for the proofs    *)
(* about what a recursive function computes: the library's theorem about   *)
(* well-founded relations, applied to sets of numbers.                     *)
(***************************************************************************)
EXTENDS Naturals, WellFoundedInduction, TLAPS

LEMMA LeastNumber ==
  ASSUME NEW T \in SUBSET Nat, T # {}
  PROVE  \E m \in T : \A k \in T : m <= k
<1>. DEFINE R == {ss \in Nat \X Nat : ss[1] < ss[2]}
<1>1. IsWellFoundedOn(R, Nat)
  BY NatLessThanWellFounded, Zenon DEF OpToRel
<1>2. PICK m \in T : \A k \in T : <<k, m>> \notin R
  <2>. HIDE DEF R
  <2>. QED
    BY <1>1, WFMin, Zenon
<1>3. ASSUME NEW k \in T
      PROVE  m <= k
  <2>1. <<k, m>> \notin R
    BY <1>2
  <2>. QED
    BY <2>1
<1>. QED
  BY <1>2, <1>3

LEMMA GreatestNumber ==
  ASSUME NEW n \in Nat, NEW T \in SUBSET (0 .. n), T # {}
  PROVE  \E m \in T : \A k \in T : k <= m
<1>. DEFINE S == {j \in Nat : \E k \in T : j = n - k}
<1>1. S \in SUBSET Nat /\ S # {}
  <2>1. PICK k \in T : TRUE
    OBVIOUS
  <2>2. n - k \in S
    OBVIOUS
  <2>. QED
    BY <2>2
<1>2. PICK j \in S : \A i \in S : j <= i
  <2>. HIDE DEF S
  <2>. QED
    BY <1>1, LeastNumber
<1>3. PICK m \in T : j = n - m
  OBVIOUS
<1>4. ASSUME NEW k \in T
      PROVE  k <= m
  <2>1. n - k \in S
    OBVIOUS
  <2>2. n - m <= n - k
    BY <1>2, <1>3, <2>1
  <2>. QED
    BY <2>2
<1>. QED
  BY <1>4

\* What holds of 0, and of k + 1 if it holds of k, holds of every number up to n.
LEMMA UpTo ==
  ASSUME NEW n \in Nat, NEW S, 0 \in S,
         \A k \in 0 .. n - 1 : k \in S => k + 1 \in S
  PROVE  \A k \in 0 .. n : k \in S
<1>. DEFINE T == {k \in 0 .. n : k \notin S}
<1>. SUFFICES ASSUME T # {}
              PROVE  FALSE
  OBVIOUS
<1>1. T \in SUBSET Nat
  OBVIOUS
<1>2. PICK m \in T : \A k \in T : m <= k
  BY <1>1, LeastNumber
<1>3. m # 0
  BY <1>2
<1>4. m - 1 \in 0 .. n - 1 /\ m - 1 \notin T
  BY <1>2, <1>3
<1>. QED
  BY <1>2, <1>4

\* A function defined on 0 .. n by a first value and a step from each value to the next exists.
Follows(t, n, A, a, step) ==
  t \in [0 .. n -> A] /\ t[0] = a /\ \A i \in 1 .. n : t[i] = step[i][t[i - 1]]

LEMMA Recursion ==
  ASSUME NEW n \in Nat, NEW A, NEW a \in A, NEW step \in [1 .. n -> [A -> A]]
  PROVE  \E t : Follows(t, n, A, a, step)
<1>. DEFINE Starts(t, k) == t[0] = a /\ \A i \in 1 .. k : t[i] = step[i][t[i - 1]]
            S == {k \in 0 .. n : \E t \in [0 .. n -> A] : Starts(t, k)}
<1>1. 0 \in S
  <2>. DEFINE t == [i \in 0 .. n |-> a]
  <2>1. t \in [0 .. n -> A] /\ t[0] = a /\ 0 \in 0 .. n
    OBVIOUS
  <2>2. \A i \in 1 .. 0 : t[i] = step[i][t[i - 1]]
    OBVIOUS
  <2>. HIDE DEF t
  <2>. QED
    BY <2>1, <2>2
<1>2. ASSUME NEW k \in 0 .. n - 1, k \in S
      PROVE  k + 1 \in S
  <2>1. PICK t \in [0 .. n -> A] : Starts(t, k)
    BY <1>2
  <2>. DEFINE next == step[k + 1][t[k]]
              u    == [t EXCEPT ![k + 1] = next]
  <2>2. next \in A
    BY <2>1
  <2>3. u \in [0 .. n -> A] /\ u[0] = a
    BY <2>1, <2>2
  <2>4. ASSUME NEW i \in 1 .. k + 1
        PROVE  u[i] = step[i][u[i - 1]]
    <3>1. CASE i = k + 1
      BY <2>1, <3>1
    <3>2. CASE i # k + 1
      BY <2>1, <3>2
    <3>. QED
      BY <3>1, <3>2
  <2>. HIDE DEF u
  <2>. QED
    BY <2>3, <2>4
<1>. HIDE DEF S
<1>3. \A k \in 0 .. n : k \in S
  BY <1>1, <1>2, UpTo, Zenon
<1>4. n \in S
  BY <1>3
<1>. QED
  BY <1>4 DEF S, Follows
=============================================================================
