--------------------------- MODULE DataInduction ---------------------------
(***************************************************************************)
(* Induction over numbers, and what follows of it for recursive functions  *)
(* and for sets of indices.  The rules are about sets, so that no operator *)
(* has to be given to a theorem: a set of numbers with no least member is  *)
(* empty, since < is well-founded.                                         *)
(***************************************************************************)
EXTENDS Integers, TLAPS, WellFoundedInduction

\* A set with 0 and with the successor of each of its numbers has them all.
LEMMA NatInduct ==
  ASSUME NEW S, 0 \in S, \A n \in Nat : n \in S => n + 1 \in S
  PROVE  Nat \subseteq S
<1> DEFINE T == Nat \ S
           R == OpToRel(<, Nat)
<1>1. CASE T = {}
  BY <1>1
<1>2. CASE T # {}
  <2>1. IsWellFoundedOn(R, Nat)
    BY NatLessThanWellFounded
  <2>2. PICK x \in T : \A y \in T : ~(<<y, x>> \in R)
    <3> HIDE DEF R
    <3> QED BY <2>1, <1>2, WFMin
  <2>3. x \in Nat /\ x \notin S /\ x # 0
    BY <2>2
  <2>4. x - 1 \in Nat /\ x - 1 < x
    BY <2>3
  <2>5. <<x - 1, x>> \in R
    BY <2>3, <2>4 DEF OpToRel
  <2>6. (x - 1) + 1 \in S
    BY <2>2, <2>4, <2>5
  <2> QED BY <2>3, <2>6
<1> QED BY <1>1, <1>2

\* The same for the numbers up to N.
LEMMA UpTo ==
  ASSUME NEW N \in Nat, NEW S, 0 \in S, \A n \in 0 .. N - 1 : n \in S => n + 1 \in S
  PROVE  0 .. N \subseteq S
<1> DEFINE T == {n \in Nat : n <= N => n \in S}
<1>1. 0 \in T
  OBVIOUS
<1>2. \A n \in Nat : n \in T => n + 1 \in T
  OBVIOUS
<1> HIDE DEF T
<1>3. Nat \subseteq T
  BY <1>1, <1>2, NatInduct
<1> QED BY <1>3 DEF T

\* Some function starts with a and goes on by step, all in S.
Recursion(N, S, a, step) ==
  \E g \in [0 .. N -> S] : g[0] = a /\ \A n \in 1 .. N : g[n] = step[<<g[n - 1], n>>]

\* Every function of a step has its values from some start on.
LEMMA RecursionExists ==
  ASSUME NEW N \in Nat, NEW S, NEW a \in S, NEW step \in [S \X (1 .. N) -> S]
  PROVE  Recursion(N, S, a, step)
<1> DEFINE Upto(g, k) == /\ g \in [0 .. k -> S]
                         /\ g[0] = a
                         /\ \A n \in 1 .. k : g[n] = step[<<g[n - 1], n>>]
           T == {k \in 0 .. N : \E g : Upto(g, k)}
<1>1. 0 \in T
  <2>1. Upto([n \in 0 .. 0 |-> a], 0)
    OBVIOUS
  <2>2. \E g : Upto(g, 0)
    BY <2>1
  <2> QED BY <2>2
<1>2. ASSUME NEW k \in 0 .. N - 1, k \in T PROVE k + 1 \in T
  <2>1. PICK g : Upto(g, k)
    BY <1>2
  <2> DEFINE h == [n \in 0 .. k + 1 |-> IF n <= k THEN g[n] ELSE step[<<g[k], k + 1>>]]
  <2>2. g[k] \in S
    BY <2>1
  <2>3. step[<<g[k], k + 1>>] \in S
    BY <2>2
  <2>4. h \in [0 .. k + 1 -> S] /\ h[0] = a
    BY <2>1, <2>3
  <2>5. ASSUME NEW n \in 1 .. k + 1 PROVE h[n] = step[<<h[n - 1], n>>]
    <3>1. CASE n <= k
      BY <3>1, <2>1
    <3>2. CASE n = k + 1
      BY <3>2
    <3> QED BY <3>1, <3>2
  <2> HIDE DEF h
  <2>6. Upto(h, k + 1)
    BY <2>4, <2>5
  <2>7. k + 1 \in 0 .. N
    OBVIOUS
  <2> QED BY <2>6, <2>7
<1>3. N \in T
  <2> HIDE DEF T
  <2> QED BY <1>1, <1>2, UpTo
<1>4. PICK g : Upto(g, N)
  BY <1>3
<1> QED
  BY <1>4 DEF Recursion

\* A non-empty set of indices has a greatest member.
LEMMA MaxExists ==
  ASSUME NEW N \in Nat, NEW I \in SUBSET (1 .. N), I # {}
  PROVE  \E i \in I : \A j \in I : j <= i
<1> DEFINE Top(k) == \E i \in I : i <= k /\ \A j \in I : j <= k => j <= i
           S == {k \in 0 .. N : (\A j \in I : ~(j <= k)) \/ Top(k)}
<1>1. 0 \in S
  OBVIOUS
<1>2. ASSUME NEW k \in 0 .. N - 1, k \in S PROVE k + 1 \in S
  <2>1. \A j \in I : j <= k + 1 <=> j <= k \/ j = k + 1
    OBVIOUS
  <2>2. CASE k + 1 \in I
    <3>1. Top(k + 1)
      BY <2>1, <2>2
    <3> QED
      BY <3>1
  <2>3. CASE k + 1 \notin I
    <3>1. \A j \in I : j <= k + 1 <=> j <= k
      BY <2>1, <2>3
    <3> QED
      BY <1>2, <3>1
  <2> QED
    BY <2>2, <2>3
<1>3. N \in S
  <2>1. \A k \in 0 .. N - 1 : k \in S => k + 1 \in S
    BY <1>2
  <2> HIDE DEF S
  <2>2. 0 .. N \subseteq S
    BY <1>1, <2>1, UpTo
  <2> QED
    BY <2>2
<1>4. PICK i \in I : TRUE
  OBVIOUS
<1>5. Top(N)
  BY <1>3, <1>4
<1> QED
  BY <1>5

\* A non-empty set of indices has a least member.
LEMMA MinExists ==
  ASSUME NEW N \in Nat, NEW I \in SUBSET (1 .. N), I # {}
  PROVE  \E i \in I : \A j \in I : i <= j
<1> DEFINE J == {N + 1 - i : i \in I}
<1>1. J \in SUBSET (1 .. N) /\ J # {}
  <2>1. \A i \in I : N + 1 - i \in 1 .. N
    OBVIOUS
  <2> QED
    BY <2>1
<1>2. PICK m \in J : \A j \in J : j <= m
  <2> HIDE DEF J
  <2> QED
    BY <1>1, MaxExists
<1>3. PICK i \in I : m = N + 1 - i
  BY <1>2
<1>4. \A j \in I : N + 1 - j <= m
  BY <1>2
<1> QED
  BY <1>3, <1>4
=============================================================================
