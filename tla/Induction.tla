----------------------------- MODULE Induction -----------------------------
(***************************************************************************)
(* Induction and recursion over the natural numbers, stated with sets and  *)
(* functions in the place of operators, so that the provers can use them.  *)
(***************************************************************************)
EXTENDS Naturals, WellFoundedInduction, TLAPS

LEMMA LeastElement ==
  ASSUME NEW T \in SUBSET Nat, T # {}
  PROVE  \E x \in T : \A y \in T : ~(y < x)
<1> DEFINE R == {p \in Nat \X Nat : p[1] < p[2]}
<1>1. IsWellFoundedOn(R, Nat)
  BY NatLessThanWellFounded DEF OpToRel
<1>2. \E x \in T : \A y \in T : ~(<<y, x>> \in R)
  <2> HIDE DEF R
  <2> QED
    BY <1>1, WFMin
<1> QED
  BY <1>2

LEMMA SetInduction ==
  ASSUME NEW S, 0 \in S, \A n \in Nat : n \in S => n + 1 \in S
  PROVE  Nat \subseteq S
<1> SUFFICES ASSUME Nat \ S # {}
             PROVE  FALSE
  OBVIOUS
<1>1. PICK x \in Nat \ S : \A y \in Nat \ S : ~(y < x)
  BY LeastElement
<1>2. x # 0 /\ x - 1 \in Nat /\ x - 1 < x /\ x = (x - 1) + 1
  BY <1>1
<1> QED
  BY <1>1, <1>2

\* f[0] is a, and each of its further values is got from the one before it.
Unrolls(f, a, g, m) ==
  f = [n \in 0..m |-> IF n = 0 THEN a ELSE g[<<f[n - 1], n>>]]

\* A function on 0..m may be defined by recursion, when each step stays in S.
LEMMA RecursionExists ==
  ASSUME NEW S, NEW a \in S, NEW m \in Nat, NEW g \in [S \X (1..m) -> S]
  PROVE  \E f \in [0..m -> S] : Unrolls(f, a, g, m)
<1> DEFINE Reached == {k \in Nat : k <= m => \E f \in [0..k -> S] : Unrolls(f, a, g, k)}
<1>1. 0 \in Reached
  <2> DEFINE f == [n \in 0..0 |-> a]
  <2>1. f \in [0..0 -> S] /\ Unrolls(f, a, g, 0)
    BY DEF Unrolls
  <2> QED
    BY <2>1
<1>2. ASSUME NEW k \in Nat, k \in Reached
      PROVE  k + 1 \in Reached
  <2> SUFFICES ASSUME k + 1 <= m
               PROVE  \E f \in [0..(k + 1) -> S] : Unrolls(f, a, g, k + 1)
    OBVIOUS
  <2>1. PICK e \in [0..k -> S] : Unrolls(e, a, g, k)
    BY <1>2
  <2> DEFINE f == [n \in 0..(k + 1) |-> IF n <= k THEN e[n] ELSE g[<<e[k], k + 1>>]]
  <2>2. g[<<e[k], k + 1>>] \in S
    OBVIOUS
  <2>3. f \in [0..(k + 1) -> S]
    BY <2>2
  <2>4. ASSUME NEW n \in 0..(k + 1)
        PROVE  f[n] = IF n = 0 THEN a ELSE g[<<f[n - 1], n>>]
    <3>1. CASE n = 0
      <4>1. e[0] = a
        BY <2>1 DEF Unrolls
      <4> QED
        BY <3>1, <4>1
    <3>2. CASE n \in 1..k
      <4>1. e[n] = g[<<e[n - 1], n>>]
        BY <2>1, <3>2 DEF Unrolls
      <4>2. f[n - 1] = e[n - 1] /\ f[n] = e[n] /\ n # 0
        BY <3>2
      <4> QED
        BY <4>1, <4>2
    <3>3. CASE n = k + 1
      <4>1. f[n - 1] = e[k] /\ f[n] = g[<<e[k], k + 1>>] /\ n # 0
        BY <3>3
      <4> QED
        BY <3>3, <4>1
    <3> QED
      BY <3>1, <3>2, <3>3
  <2>5. Unrolls(f, a, g, k + 1)
    <3> HIDE DEF f
    <3>1. f = [n \in 0..(k + 1) |-> f[n]]
      BY <2>3
    <3> QED
      BY <2>4, <3>1 DEF Unrolls
  <2> QED
    BY <2>3, <2>5
<1>3. m \in Reached
  <2> HIDE DEF Reached
  <2>1. Nat \subseteq Reached
    BY <1>1, <1>2, SetInduction
  <2> QED
    BY <2>1
<1> QED
  BY <1>3

=============================================================================
