--------------------------- MODULE InductionFacts ---------------------------
(***************************************************************************)
(* Induction over data for the proofs.  The library states induction for a *)
(* predicate, an operator, which the provers do not instantiate; here it   *)
(* is stated for a set, and follows from the library's theorem that a      *)
(* well-founded relation has a least element in every set.  A function     *)
(* that is defined by recursion over 0..n is the one RecursionDefines      *)
(* gives for its step.                                                     *)
(***************************************************************************)
EXTENDS Integers, Sequences, WellFoundedInduction, TLAPS

(* A set of natural numbers has a least element.                           *)
LEMMA LeastElement ==
    ASSUME NEW S \in SUBSET Nat, S # {}
    PROVE  \E n \in S : \A m \in S : n <= m
<1> DEFINE R == OpToRel(<, Nat)
<1>1. IsWellFoundedOn(R, Nat)
  BY NatLessThanWellFounded
<1>2. \A m, n \in Nat : m < n => <<m, n>> \in R
  BY DEF OpToRel
<1> HIDE DEF R
<1>3. PICK n \in S : \A m \in S : ~ (<<m, n>> \in R)
  BY <1>1, WFMin
<1>4. \A m \in S : ~ (m < n)
  BY <1>2, <1>3
<1> QED BY <1>4

(* A set with 0, and with the successor of each of its numbers, has all.   *)
LEMMA SetInduction ==
    ASSUME NEW S, 0 \in S, \A n \in Nat : n \in S => n + 1 \in S
    PROVE  Nat \subseteq S
<1> SUFFICES ASSUME Nat \ S # {} PROVE FALSE
  OBVIOUS
<1>1. PICK n \in Nat \ S : \A m \in Nat \ S : n <= m
  BY LeastElement
<1>2. n # 0 /\ n - 1 \in Nat /\ n - 1 \notin Nat \ S
  BY <1>1
<1> QED BY <1>1, <1>2

(* The same up to a number.                                                *)
LEMMA SetInductionUpTo ==
    ASSUME NEW S, NEW n \in Nat, 0 \in S, \A k \in 0..(n - 1) : k \in S => k + 1 \in S
    PROVE  0..n \subseteq S
<1> DEFINE T == S \cup {k \in Nat : k > n}
<1>1. 0 \in T /\ \A k \in Nat : k \in T => k + 1 \in T
  OBVIOUS
<1> HIDE DEF T
<1>2. Nat \subseteq T
  BY <1>1, SetInduction
<1> QED BY <1>2 DEF T

(* The values from first on, each by a step from the one before.           *)
IsRecursion(f, V, n, first, step) ==
    /\ f \in [0..n -> V] /\ f[0] = first
    /\ \A k \in 1..n : f[k] = step[k][f[k - 1]]

HasRecursion(V, n, first, step) == \E f : IsRecursion(f, V, n, first, step)

(* Recursion over 0..n defines a function.                                 *)
LEMMA RecursionDefines ==
    ASSUME NEW V, NEW n \in Nat, NEW first \in V, NEW step \in [1..n -> [V -> V]]
    PROVE  HasRecursion(V, n, first, step)
<1> DEFINE Defines(f, m) == /\ f \in [0..m -> V] /\ f[0] = first
                            /\ \A k \in 1..m : f[k] = step[k][f[k - 1]]
           S == {m \in 0..n : \E f : Defines(f, m)}
<1>1. 0 \in S
  <2> DEFINE f == [k \in 0..0 |-> first]
  <2>1. f \in [0..0 -> V] /\ f[0] = first /\ \A k \in 1..0 : FALSE
    OBVIOUS
  <2> HIDE DEF f
  <2>2. Defines(f, 0)
    BY <2>1
  <2> QED BY <2>2
<1>2. ASSUME NEW m \in 0..(n - 1), m \in S PROVE m + 1 \in S
  <2> SUFFICES \E f : Defines(f, m + 1)
    BY SMTT(30)
  <2>1. PICK f : Defines(f, m)
    BY <1>2
  <2> DEFINE v == step[m + 1][f[m]]
             g == [k \in 0..(m + 1) |-> IF k <= m THEN f[k] ELSE v]
  <2>2. v \in V
    <3>1. m + 1 \in 1..n /\ f[m] \in V
      BY <2>1
    <3> QED BY <3>1
  <2> HIDE DEF v
  <2>3. g \in [0..(m + 1) -> V] /\ g[0] = first
    BY <2>1, <2>2
  <2>4. ASSUME NEW k \in 1..(m + 1) PROVE g[k] = step[k][g[k - 1]]
    <3>1. CASE k <= m
      <4>1. g[k] = f[k] /\ g[k - 1] = f[k - 1] /\ k \in 1..m
        BY <3>1
      <4> QED BY <4>1, <2>1
    <3>2. CASE k = m + 1
      <4>1. g[k] = v /\ g[k - 1] = f[m]
        BY <3>2
      <4> QED BY <4>1, <3>2 DEF v
    <3> QED BY <3>1, <3>2
  <2> HIDE DEF g
  <2> QED BY <2>3, <2>4
<1> HIDE DEF S
<1>3. 0..n \subseteq S
  BY <1>1, <1>2, SetInductionUpTo
<1>4. PICK f : Defines(f, n)
  BY <1>3 DEF S
<1> QED BY <1>4 DEF HasRecursion, IsRecursion

(* Its values are in a set that the first is in and no step leaves.        *)
LEMMA RecursionStaysIn ==
    ASSUME NEW V, NEW n \in Nat, NEW f, f[0] \in V,
           \A k \in 1..n : f[k - 1] \in V => f[k] \in V
    PROVE  \A k \in 0..n : f[k] \in V
<1> DEFINE S == {k \in 0..n : f[k] \in V}
<1>1. ASSUME NEW k \in 0..(n - 1), k \in S PROVE k + 1 \in S
  <2>1. k + 1 \in 1..n /\ (k + 1) - 1 = k /\ f[k] \in V
    BY <1>1
  <2> QED BY <2>1
<1>2. 0 \in S
  OBVIOUS
<1> HIDE DEF S
<1>3. 0..n \subseteq S
  BY <1>1, <1>2, SetInductionUpTo
<1> QED BY <1>3 DEF S

(* A function whose steps do not fall has its largest value at the end.    *)
LEMMA NeverFalls ==
    ASSUME NEW n \in Nat, NEW f \in [0..n -> Nat], \A k \in 1..n : f[k - 1] <= f[k],
           NEW m \in 0..n
    PROVE  f[m] <= f[n]
<1> DEFINE S == {k \in 0..n : m <= k => f[m] <= f[k]}
<1>1. ASSUME NEW k \in 0..(n - 1), k \in S PROVE k + 1 \in S
  <2>1. k + 1 \in 1..n /\ (k + 1) - 1 = k /\ k \in 0..n
    OBVIOUS
  <2>2. f[k] <= f[k + 1] /\ f[k] \in Nat /\ f[k + 1] \in Nat /\ f[m] \in Nat
    BY <2>1
  <2> QED BY <1>1, <2>1, <2>2
<1>2. 0 \in S
  OBVIOUS
<1> HIDE DEF S
<1>3. 0..n \subseteq S
  BY <1>1, <1>2, SetInductionUpTo
<1> QED BY <1>3 DEF S

=============================================================================
