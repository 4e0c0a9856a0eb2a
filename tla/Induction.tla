----------------------------- MODULE Induction -----------------------------
(***************************************************************************)
(* Induction over the natural numbers, and functions defined by recursion *)
(* over them, in terms of sets: the properties proved by induction here    *)
(* are sets of numbers, so that no fact has an operator as parameter.      *)
(***************************************************************************)
EXTENDS Integers, WellFoundedInduction, TLAPS

\* A set of naturals that is not empty has a least element.
LEMMA LeastElement ==
  ASSUME NEW S \in SUBSET Nat, S # {}
  PROVE  \E m \in S : \A n \in S : m <= n
<1>. DEFINE R == OpToRel(<, Nat)
<1>1. IsWellFoundedOn(R, Nat)
  BY NatLessThanWellFounded
<1>2. \A x, y \in Nat : <<y, x>> \in R <=> y < x
  BY DEF OpToRel
<1>. HIDE DEF R
<1>3. PICK m \in S : \A y \in S : <<y, m>> \notin R
  BY <1>1, WFMin
<1>4. ASSUME NEW n \in S PROVE m <= n
  <2>1. m \in Nat /\ n \in Nat
    OBVIOUS
  <2>2. ~ n < m
    BY <1>2, <1>3, <2>1
  <2>. QED BY <2>1, <2>2
<1>. QED BY <1>4

\* Every set with 0, and with the successor of each of its elements below
\* some bound, contains all numbers up to the bound.
LEMMA SetInduction ==
  ASSUME NEW N \in Nat, NEW S, 0 \in S, \A n \in 0 .. N - 1 : n \in S => n + 1 \in S
  PROVE  0 .. N \subseteq S
<1>. DEFINE T == (0 .. N) \ S
<1>. SUFFICES ASSUME T # {} PROVE FALSE
  OBVIOUS
<1>1. PICK m \in T : \A n \in T : m <= n
  <2>1. T \in SUBSET Nat
    OBVIOUS
  <2>. HIDE DEF T
  <2>. QED BY <2>1, LeastElement
<1>2. m # 0 /\ m - 1 \in 0 .. N - 1
  BY <1>1
<1>3. m - 1 \in S
  BY <1>1, <1>2
<1>. QED BY <1>1, <1>2, <1>3

\* Values start, step[1], step[2], ... taken one after the other.
Iterates(f, N, start, step) ==
  f = [k \in 0 .. N |-> IF k = 0 THEN start ELSE step[k][f[k - 1]]]

\* They exist: this is what a recursive definition over 0 .. N needs.
LEMMA IteratesExist ==
  ASSUME NEW N \in Nat, NEW V, NEW start \in V, NEW step \in [1 .. N -> [V -> V]]
  PROVE  \E f \in [0 .. N -> V] : Iterates(f, N, start, step)
<1>. DEFINE S == {n \in 0 .. N : \E f \in [0 .. n -> V] : Iterates(f, n, start, step)}
<1>1. 0 \in S
  <2>. DEFINE f == [k \in 0 .. 0 |-> start]
  <2>1. f \in [0 .. 0 -> V]
    OBVIOUS
  <2>2. Iterates(f, 0, start, step)
    BY DEF Iterates
  <2>. QED BY <2>1, <2>2
<1>2. ASSUME NEW n \in 0 .. N - 1, n \in S PROVE n + 1 \in S
  <2>1. PICK f \in [0 .. n -> V] : Iterates(f, n, start, step)
    BY <1>2
  <2>. DEFINE g == [k \in 0 .. n + 1 |-> IF k = n + 1 THEN step[n + 1][f[n]] ELSE f[k]]
  <2>2. step[n + 1][f[n]] \in V
    OBVIOUS
  <2>3. g \in [0 .. n + 1 -> V]
    BY <2>2
  <2>4. ASSUME NEW k \in 0 .. n + 1
        PROVE  g[k] = IF k = 0 THEN start ELSE step[k][g[k - 1]]
    <3>1. CASE k = n + 1
      BY <3>1
    <3>2. CASE k \in 0 .. n
      <4>1. f[k] = IF k = 0 THEN start ELSE step[k][f[k - 1]]
        BY <2>1, <3>2 DEF Iterates
      <4>. QED BY <3>2, <4>1
    <3>. QED BY <3>1, <3>2
  <2>5. g = [k \in 0 .. n + 1 |-> IF k = 0 THEN start ELSE step[k][g[k - 1]]]
    BY <2>4
  <2>6. Iterates(g, n + 1, start, step)
    BY <2>5 DEF Iterates
  <2>. QED BY <2>3, <2>6
<1>. HIDE DEF S
<1>3. 0 .. N \subseteq S
  BY <1>1, <1>2, SetInduction
<1>4. N \in S
  BY <1>3
<1>. QED BY <1>4 DEF S
=============================================================================
