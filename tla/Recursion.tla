------------------------------ MODULE Recursion ------------------------------
(***************************************************************************)
(* Induction and recursion over the naturals, in the form in which the     *)
(* provers can use them: about sets and functions instead of operators.    *)
(***************************************************************************)
EXTENDS WellFoundedInduction, TLAPS

(* The least element of a set of naturals.                                 *)
LEMMA LeastOf ==
  ASSUME NEW T, T \subseteq Nat, T # {}
  PROVE  \E x \in T : \A y \in T : x <= y
<1> DEFINE Less == OpToRel(<, Nat)
<1>1. IsWellFoundedOn(Less, Nat)
  BY NatLessThanWellFounded
<1>2. \A x, y \in Nat : <<y, x>> \in Less \/ x <= y
  BY DEF OpToRel
<1> HIDE DEF Less
<1>3. PICK x \in T : \A y \in T : <<y, x>> \notin Less
  BY <1>1, WFMin
<1>4. \A y \in T : x <= y
  BY <1>2, <1>3, Zenon
<1> QED
  BY <1>4

(* What is in a set with each number the set has before it.                *)
LEMMA Induction ==
  ASSUME NEW T, 0 \in T, \A n \in Nat : n \in T => n + 1 \in T
  PROVE  Nat \subseteq T
<1> SUFFICES ASSUME Nat \ T # {} PROVE FALSE
  OBVIOUS
<1>1. PICK m \in Nat \ T : \A k \in Nat \ T : m <= k
  BY LeastOf
<1>2. m # 0 /\ m - 1 \in Nat /\ m - 1 \notin Nat \ T
  BY <1>1
<1> QED
  BY <1>1, <1>2

(* The same up to a bound.                                                 *)
LEMMA InductionTo ==
  ASSUME NEW n \in Nat, NEW T, 0 \in T, \A k \in 0..n - 1 : k \in T => k + 1 \in T
  PROVE  0..n \subseteq T
<1> DEFINE U == {k \in Nat : k <= n => k \in T}
<1>1. 0 \in U
  OBVIOUS
<1>2. ASSUME NEW k \in Nat, k \in U PROVE k + 1 \in U
  BY <1>2
<1>3. Nat \subseteq U
  <2> HIDE DEF U
  <2> QED BY <1>1, <1>2, Induction
<1> QED
  BY <1>3

(* f begins with first and goes on by step.                                *)
Goes(f, first, step, numbers) == f[0] = first /\ \A k \in numbers : f[k] = step[k][f[k - 1]]

RecursiveTo(f, n, S, first, step) == f \in [0..n -> S] /\ Goes(f, first, step, 1..n)

(* A first value and a step for each number up to n make a function.       *)
LEMMA RecursionTo ==
  ASSUME NEW n \in Nat, NEW S, NEW first \in S, NEW step \in [1..n -> [S -> S]]
  PROVE  \E f : RecursiveTo(f, n, S, first, step)
<1> DEFINE T == {m \in 0..n : \E f \in [0..m -> S] : Goes(f, first, step, 1..m)}
<1>1. 0 \in T
  <2> DEFINE f == [k \in 0..0 |-> first]
  <2>1. f \in [0..0 -> S] /\ f[0] = first
    OBVIOUS
  <2>2. Goes(f, first, step, 1..0)
    BY <2>1 DEF Goes
  <2> HIDE DEF f
  <2> QED
    BY <2>1, <2>2
<1>2. ASSUME NEW m \in 0..n - 1, m \in T PROVE m + 1 \in T
  <2>1. PICK f \in [0..m -> S] : Goes(f, first, step, 1..m)
    BY <1>2
  <2> DEFINE g == [k \in 0..m + 1 |-> IF k <= m THEN f[k] ELSE step[m + 1][f[m]]]
  <2>2. g \in [0..m + 1 -> S]
    BY m + 1 \in 1..n, m \in 0..m
  <2>3. g[0] = first /\ g[m + 1] = step[m + 1][g[m]]
    BY <2>1 DEF Goes
  <2>4. ASSUME NEW k \in 1..m PROVE g[k] = step[k][g[k - 1]]
    BY <2>1 DEF Goes
  <2> HIDE DEF g
  <2>5. Goes(g, first, step, 1..m + 1)
    BY <2>3, <2>4 DEF Goes
  <2> QED
    BY <2>2, <2>5, m + 1 \in 0..n
<1>3. 0..n \subseteq T
  <2> HIDE DEF T
  <2> QED BY <1>1, <1>2, InductionTo
<1> QED
  BY <1>3, n \in 0..n DEF RecursiveTo

RecursiveOnNat(f, S, first, step) == f \in [Nat -> S] /\ Goes(f, first, step, Nat \ {0})

(* The same without a bound.                                               *)
LEMMA RecursionOnNat ==
  ASSUME NEW S, NEW first \in S, NEW step \in [Nat \ {0} -> [S -> S]]
  PROVE  \E f : RecursiveOnNat(f, S, first, step)
<1> DEFINE F(m) == CHOOSE f : RecursiveTo(f, m, S, first, step)
           f == [m \in Nat |-> F(m)[m]]
<1>1. ASSUME NEW m \in Nat PROVE RecursiveTo(F(m), m, S, first, step)
  <2> DEFINE bounded == [k \in 1..m |-> step[k]]
  <2>1. bounded \in [1..m -> [S -> S]] /\ \A k \in 1..m : bounded[k] = step[k]
    OBVIOUS
  <2> HIDE DEF bounded
  <2>2. \E g : RecursiveTo(g, m, S, first, bounded)
    BY <2>1, RecursionTo
  <2>3. \E g : RecursiveTo(g, m, S, first, step)
    BY <2>1, <2>2 DEF RecursiveTo, Goes
  <2> QED
    BY <2>3, Zenon
<1> HIDE DEF F
<1>2. ASSUME NEW m \in Nat PROVE F(m)[m] = F(m + 1)[m]
  <2> DEFINE T == {k \in 0..m : F(m)[k] = F(m + 1)[k]}
  <2>1. RecursiveTo(F(m), m, S, first, step) /\ RecursiveTo(F(m + 1), m + 1, S, first, step)
    BY <1>1
  <2>2. 0 \in T
    BY <2>1 DEF RecursiveTo, Goes
  <2>3. ASSUME NEW k \in 0..m - 1, k \in T PROVE k + 1 \in T
    <3>1. k + 1 \in 1..m /\ k + 1 \in 1..m + 1 /\ (k + 1) - 1 = k
      OBVIOUS
    <3>2. F(m)[k + 1] = step[k + 1][F(m)[k]] /\ F(m + 1)[k + 1] = step[k + 1][F(m + 1)[k]]
      BY <2>1, <3>1 DEF RecursiveTo, Goes
    <3> QED
      BY <2>3, <3>1, <3>2
  <2>4. 0..m \subseteq T
    <3> HIDE DEF T
    <3> QED BY <2>2, <2>3, InductionTo
  <2> QED
    BY <2>4, m \in 0..m
<1>3. f \in [Nat -> S]
  BY <1>1 DEF RecursiveTo
<1>4. f[0] = first
  BY <1>1 DEF RecursiveTo, Goes
<1>5. ASSUME NEW k \in Nat \ {0} PROVE f[k] = step[k][f[k - 1]]
  <2>1. F(k)[k] = step[k][F(k)[k - 1]] /\ k - 1 \in Nat /\ (k - 1) + 1 = k
    BY <1>1 DEF RecursiveTo, Goes
  <2>2. F(k - 1)[k - 1] = F(k)[k - 1]
    BY <1>2, <2>1
  <2> QED
    BY <2>1, <2>2
<1> HIDE DEF f
<1> QED
  BY <1>3, <1>4, <1>5 DEF RecursiveOnNat, Goes
=============================================================================
