----------------------- MODULE LongestMatchCacheProofs -----------------------
(***************************************************************************)
(* Proofs about the longest-match cache, for any blocks, matches, budgets  *)
(* and number of blocks parsed with one cache.  The first part is about    *)
(* data: what the runs of a match say, how the arena grows, how many runs  *)
(* a block has.  The second is the inductive invariant of the entries and  *)
(* the arena.                                                              *)
(***************************************************************************)
EXTENDS LongestMatchCache, InductionFacts, FiniteSetTheorems, SequenceTheorems

Run == [end: Nat, dist: Nat \ {0}]

(* The types of the parts of runs.                                         *)
LEMMA RunFields ==
    ASSUME NEW r \in Seq(Run)
    PROVE  Len(r) \in Nat /\ \A m \in 1..Len(r) : r[m].end \in Nat
<1>1. Len(r) \in Nat /\ \A m \in 1..Len(r) : r[m] \in Run
  OBVIOUS
<1> QED BY <1>1 DEF Run

(* The runs of a match up to its k-th length, as RunsOf builds them.       *)
RunsUpTo(d, k, f) ==
    /\ f \in [0..k -> Seq(Run)] /\ f[0] = <<>>
    /\ \A n \in 1..k :
          f[n] = IF n < Len(d) /\ d[n + 1] = d[n] THEN f[n - 1]
                 ELSE Append(f[n - 1], [end |-> n + MinMatch - 1, dist |-> d[n]])

(* RunsOf is defined: its recursion has a value.                           *)
LEMMA RunsDefined ==
    ASSUME NEW d \in Seq(Nat \ {0})
    PROVE  \E f : RunsUpTo(d, Len(d), f) /\ RunsOf(d) = f[Len(d)]
<1> DEFINE n == Len(d)
           next(k, r) == IF k < n /\ d[k + 1] = d[k] THEN r
                         ELSE Append(r, [end |-> k + MinMatch - 1, dist |-> d[k]])
           step == [k \in 1..n |-> [r \in Seq(Run) |-> next(k, r)]]
           body(f) == [k \in 0..n |-> IF k = 0 THEN <<>> ELSE next(k, f[k - 1])]
           g == CHOOSE f : f = body(f)
<1>0. n \in Nat /\ <<>> \in Seq(Run)
  OBVIOUS
<1>1. RunsOf(d) = g[n]
  BY DEF RunsOf
<1>2. ASSUME NEW k \in 1..n, NEW r \in Seq(Run) PROVE next(k, r) \in Seq(Run)
  <2>1. [end |-> k + MinMatch - 1, dist |-> d[k]] \in Run
    BY LengthsAssumption DEF Run
  <2> QED BY <2>1
<1> HIDE DEF n, next, g
<1>3. step \in [1..n -> [Seq(Run) -> Seq(Run)]]
  BY <1>2
<1>4. \A k \in 1..n : \A r \in Seq(Run) : step[k][r] = next(k, r)
  OBVIOUS
<1> HIDE DEF step
<1>5. PICK f : IsRecursion(f, Seq(Run), n, <<>>, step)
  <2>1. HasRecursion(Seq(Run), n, <<>>, step)
    BY <1>0, <1>3, RecursionDefines
  <2> QED BY <2>1 DEF HasRecursion
<1>6. \A k \in 1..n : f[k] = next(k, f[k - 1])
  <2> SUFFICES ASSUME NEW k \in 1..n PROVE f[k] = next(k, f[k - 1])
    OBVIOUS
  <2>1. f[k - 1] \in Seq(Run) /\ f[k] = step[k][f[k - 1]]
    BY <1>5, <1>0 DEF IsRecursion
  <2> QED BY <2>1, <1>4
<1>7. f = body(f)
  BY <1>5, <1>6, <1>0 DEF IsRecursion
<1>8. g = body(g)
  BY <1>7 DEF g
<1>9. g[0] = <<>> /\ \A k \in 1..n : g[k] = next(k, g[k - 1])
  BY <1>8, <1>0
<1>10. \A k \in 0..n : g[k] \in Seq(Run)
  BY <1>0, <1>2, <1>9, RecursionStaysIn
<1>11. g \in [0..n -> Seq(Run)]
  BY <1>8, <1>10
<1>12. RunsUpTo(d, n, g)
  BY <1>9, <1>11 DEF RunsUpTo, next, n
<1> QED BY <1>1, <1>12 DEF n

(* Run n is the first one that reaches the j-th length, and has its        *)
(* distance.                                                               *)
Reaches(r, d, j, n) ==
    /\ n \in 1..Len(r) /\ r[n].end >= j + MinMatch - 1 /\ r[n].dist = d[j]
    /\ \A m \in 1..(n - 1) : r[m].end < j + MinMatch - 1

(* What the runs up to length k say of the lengths up to it.               *)
SaySoFar(r, d, k) ==
    /\ \A m \in 1..Len(r) : r[m].end < k + MinMatch
    /\ \A j \in 1..k :
          \/ \E n \in 1..Len(r) : Reaches(r, d, j, n)
          \/ /\ k < Len(d) /\ d[j] = d[k + 1]
             /\ \A m \in 1..Len(r) : r[m].end < j + MinMatch - 1

(* One length more: either the run goes on, or it ends and is appended.    *)
LEMMA SayNext ==
    ASSUME NEW d \in Seq(Nat \ {0}), NEW k \in 0..(Len(d) - 1), NEW r \in Seq(Run),
           SaySoFar(r, d, k), NEW s,
           s = IF k + 1 < Len(d) /\ d[k + 2] = d[k + 1] THEN r
               ELSE Append(r, [end |-> k + MinMatch, dist |-> d[k + 1]])
    PROVE  SaySoFar(s, d, k + 1)
<1> USE LengthsAssumption
<1>0. Len(r) \in Nat /\ \A m \in 1..Len(r) : r[m].end \in Nat
  BY RunFields
<1>1. CASE s = r /\ k + 1 < Len(d) /\ d[k + 2] = d[k + 1]
  <2>1. \A m \in 1..Len(r) : r[m].end < k + 1 + MinMatch /\ r[m].end < (k + 1) + MinMatch - 1
    <3>1. \A m \in 1..Len(r) : r[m].end < k + MinMatch
      BY DEF SaySoFar
    <3>2. k \in Nat /\ MinMatch \in Nat
      OBVIOUS
    <3> SUFFICES ASSUME NEW m \in 1..Len(r)
                 PROVE  r[m].end < k + 1 + MinMatch /\ r[m].end < (k + 1) + MinMatch - 1
      OBVIOUS
    <3> DEFINE e == r[m].end
    <3>3. e \in Nat /\ e < k + MinMatch
      BY <3>1, <1>0
    <3> HIDE DEF e
    <3>4. e < k + 1 + MinMatch /\ e < (k + 1) + MinMatch - 1
      BY <3>2, <3>3
    <3> QED BY <3>4 DEF e
  <2>2. \A j \in 1..(k + 1) : j \in 1..k \/ j = k + 1
    OBVIOUS
  <2>3. ASSUME NEW j \in 1..(k + 1)
        PROVE  \/ \E n \in 1..Len(s) : Reaches(s, d, j, n)
               \/ d[j] = d[k + 2] /\ \A m \in 1..Len(s) : s[m].end < j + MinMatch - 1
    <3>1. CASE j \in 1..k
      BY <3>1, <1>1 DEF SaySoFar
    <3>2. CASE j = k + 1
      BY <3>2, <1>1, <2>1
    <3> QED BY <3>1, <3>2, <2>2
  <2>4. k + 1 + 1 = k + 2
    OBVIOUS
  <2> QED BY <2>1, <2>3, <2>4, <1>1 DEF SaySoFar
<1>2. CASE s = Append(r, [end |-> k + MinMatch, dist |-> d[k + 1]])
  <2> DEFINE v == [end |-> k + MinMatch, dist |-> d[k + 1]]
  <2>1. /\ Len(s) = Len(r) + 1 /\ \A m \in 1..Len(r) : s[m] = r[m]
        /\ s[Len(r) + 1].end = k + MinMatch /\ s[Len(r) + 1].dist = d[k + 1]
    <3>1. v \in Run
      BY SMTT(30) DEF Run
    <3> HIDE DEF v
    <3>2. Len(s) = Len(r) + 1 /\ (\A m \in 1..Len(r) : s[m] = r[m]) /\ s[Len(r) + 1] = v
      BY <3>1, <1>2 DEF v
    <3> QED BY SMTT(30), <3>2 DEF v
  <2> HIDE DEF v
  <2>2. \A m \in 1..Len(s) : m \in 1..Len(r) \/ m = Len(r) + 1
    BY <2>1, <1>0
  <2>3. \A m \in 1..Len(s) : s[m].end < k + 1 + MinMatch
    BY SMTT(30), <2>1, <2>2, <1>0 DEF SaySoFar
  <2>4. ASSUME NEW j \in 1..(k + 1) PROVE \E n \in 1..Len(s) : Reaches(s, d, j, n)
    <3>1. ASSUME NEW n \in 1..Len(r), Reaches(r, d, j, n) PROVE Reaches(s, d, j, n)
      <4>1. n \in 1..Len(s) /\ s[n] = r[n] /\ \A m \in 1..(n - 1) : s[m] = r[m]
        BY <3>1, <2>1, <1>0
      <4> QED BY <4>1, <3>1 DEF Reaches
    <3>2. ASSUME d[j] = d[k + 1], \A m \in 1..Len(r) : r[m].end < j + MinMatch - 1
          PROVE  Reaches(s, d, j, Len(r) + 1)
      <4>1. Len(r) + 1 \in 1..Len(s) /\ \A m \in 1..(Len(r) + 1 - 1) : s[m] = r[m] /\ m \in 1..Len(r)
        BY <2>1, <1>0
      <4>2. s[Len(r) + 1].end >= j + MinMatch - 1
        BY <2>1
      <4> QED BY <4>1, <4>2, <3>2, <2>1 DEF Reaches
    <3>3. CASE j = k + 1
      <4>1. \A m \in 1..Len(r) : r[m].end < j + MinMatch - 1
        BY <3>3, <1>0 DEF SaySoFar
      <4> QED BY <4>1, <3>2, <3>3, <2>1, <1>0
    <3>4. CASE j \in 1..k
      <4>1. CASE \E n \in 1..Len(r) : Reaches(r, d, j, n)
        BY SMTT(30), <4>1, <3>1, <2>1, <1>0
      <4>2. CASE d[j] = d[k + 1] /\ \A m \in 1..Len(r) : r[m].end < j + MinMatch - 1
        BY SMTT(30), <4>2, <3>2, <2>1, <1>0
      <4> QED BY <4>1, <4>2, <3>4 DEF SaySoFar
    <3> QED BY <3>3, <3>4
  <2> QED BY <2>3, <2>4 DEF SaySoFar
<1> QED BY <1>1, <1>2

(* The runs of a match say its distance for every length.                  *)
LEMMA RunsSay ==
    ASSUME NEW d \in Seq(Nat \ {0})
    PROVE  /\ RunsOf(d) \in Seq(Run) /\ (d = <<>> => RunsOf(d) = <<>>)
           /\ \A j \in 1..Len(d) : \E n \in 1..Len(RunsOf(d)) : Reaches(RunsOf(d), d, j, n)
<1>1. PICK f : RunsUpTo(d, Len(d), f) /\ RunsOf(d) = f[Len(d)]
  BY RunsDefined
<1> DEFINE n == Len(d)
           S == {k \in 0..n : SaySoFar(f[k], d, k)}
<1>2. n \in Nat /\ f \in [0..n -> Seq(Run)] /\ f[0] = <<>>
  BY <1>1 DEF RunsUpTo
<1>3. 0 \in S
  BY <1>2 DEF SaySoFar
<1>4. ASSUME NEW k \in 0..(n - 1), k \in S PROVE k + 1 \in S
  <2>1. k + 1 \in 1..n /\ f[k] \in Seq(Run) /\ SaySoFar(f[k], d, k)
    <3>1. k \in 0..n /\ k + 1 \in 1..n
      BY <1>2
    <3>2. SaySoFar(f[k], d, k)
      BY <1>4 DEF S
    <3> HIDE DEF n
    <3> QED BY <3>1, <3>2, <1>2
  <2>2. f[k + 1] = IF k + 1 < n /\ d[k + 2] = d[k + 1] THEN f[k]
                   ELSE Append(f[k], [end |-> k + MinMatch, dist |-> d[k + 1]])
    <3>1. k + 1 - 1 = k /\ k + 1 + 1 = k + 2 /\ k + 1 + MinMatch - 1 = k + MinMatch
      BY LengthsAssumption
    <3> QED BY <3>1, <2>1, <1>1 DEF RunsUpTo
  <2>3. SaySoFar(f[k + 1], d, k + 1)
    BY <2>1, <2>2, SayNext
  <2> QED BY <2>1, <2>3
<1> HIDE DEF S
<1>5. n \in S
  <2>1. 0..n \subseteq S
    BY <1>2, <1>3, <1>4, SetInductionUpTo
  <2>2. n \in 0..n
    BY <1>2
  <2> QED BY <2>1, <2>2
<1>6. SaySoFar(f[n], d, n)
  BY <1>5 DEF S
<1>7. \A j \in 1..n : \E m \in 1..Len(f[n]) : Reaches(f[n], d, j, m)
  BY <1>6, <1>2 DEF SaySoFar
<1>8. f[n] \in Seq(Run) /\ (d = <<>> => f[n] = <<>>)
  BY <1>2
<1> QED BY <1>1, <1>7, <1>8

(* RunDistance finds that run.                                             *)
LEMMA DistanceFound ==
    ASSUME NEW d \in Seq(Nat \ {0}), NEW j \in 1..Len(d)
    PROVE  RunDistance(RunsOf(d), j + MinMatch - 1) = d[j]
<1> DEFINE r == RunsOf(d)
           k == j + MinMatch - 1
           reach == {n \in 1..Len(r) : r[n].end >= k}
<1>1. PICK n \in 1..Len(r) : Reaches(r, d, j, n)
  BY RunsSay
<1>2. n \in reach /\ r[n].dist = d[j]
  BY <1>1 DEF Reaches
<1>3. r \in Seq(Run)
  BY RunsSay
<1>4. ASSUME NEW m \in reach PROVE n <= m
  <2>1. m \in 1..Len(r) /\ r[m].end \in Nat /\ r[m].end >= k /\ Len(r) \in Nat
    BY <1>3, RunFields
  <2>2. m \in 1..(n - 1) => r[m].end < k
    BY <1>1 DEF Reaches
  <2> HIDE DEF r, k
  <2> QED BY <2>1, <2>2, LengthsAssumption DEF k
<1>5. \A m \in reach : (\A i \in reach : m <= i) => m = n
  <2>1. reach \subseteq Nat
    OBVIOUS
  <2> HIDE DEF reach
  <2> QED BY <1>2, <1>4, <2>1
<1> HIDE DEF reach
<1>6. (CHOOSE m \in reach : \A i \in reach : m <= i) = n
  BY <1>2, <1>4, <1>5
<1>7. reach # {}
  BY <1>2
<1> QED BY <1>2, <1>6, <1>7 DEF RunDistance, reach

-----------------------------------------------------------------------------
(* The arena.                                                              *)

Budgeted ==
    /\ runs \in Seq(Run) /\ capacity \in Nat /\ runBudget \in Nat
    /\ Len(runs) <= capacity /\ capacity <= runBudget

NextCapacity(before, required) ==
    IF before = -1 THEN -1
    ELSE IF required <= before THEN before
    ELSE IF required > runBudget THEN -1
    ELSE Grown(before, required)

(* A capacity that holds n runs, or the sign that there is none.           *)
HoldsRuns(c, n) ==
    \/ c \in Nat /\ Len(runs) + n <= c /\ c <= runBudget
    \/ c = -1 /\ Len(runs) + n > runBudget

(* One more run is held after growing, or it is beyond the budget.         *)
LEMMA GrownHolds ==
    ASSUME Budgeted, NEW n \in Nat, NEW before \in Int, HoldsRuns(before, n)
    PROVE  /\ HoldsRuns(NextCapacity(before, Len(runs) + n + 1), n + 1)
           /\ NextCapacity(before, Len(runs) + n + 1) \in Int
<1> DEFINE l == Len(runs)
<1>1. l \in Nat /\ runBudget \in Nat /\ MinCapacity \in Nat
  BY LengthsAssumption DEF Budgeted
<1> HIDE DEF l
<1>2. CASE before = -1
  BY <1>1, <1>2 DEF HoldsRuns, NextCapacity, l
<1>3. CASE before # -1
  <2>1. before \in Nat /\ l + n <= before /\ before <= runBudget
    BY <1>3 DEF HoldsRuns, l
  <2>2. CASE l + n + 1 <= before
    BY <2>1, <2>2, <1>1, <1>3 DEF HoldsRuns, NextCapacity, l
  <2>3. CASE l + n + 1 > before /\ l + n + 1 > runBudget
    BY <2>1, <2>3, <1>1, <1>3 DEF HoldsRuns, NextCapacity, l
  <2>4. CASE l + n + 1 > before /\ l + n + 1 <= runBudget
    <3> DEFINE g == Grown(before, l + n + 1)
    <3>1. g \in Nat /\ l + n + 1 <= g /\ g <= runBudget
      BY <2>1, <2>4, <1>1 DEF Grown, Larger, Smaller
    <3> HIDE DEF g
    <3>2. NextCapacity(before, l + n + 1) = g
      BY <2>1, <2>4, <1>1, <1>3 DEF NextCapacity, g
    <3> QED BY <3>1, <3>2, <1>1 DEF HoldsRuns, l
  <2> QED BY <2>1, <2>2, <2>3, <2>4, <1>1
<1> QED BY <1>2, <1>3

(* CapacityAfter is defined, and its values hold what they are for.        *)
LEMMA CapacityHolds ==
    ASSUME Budgeted, NEW n \in Nat
    PROVE  /\ CapacityAfter(n)[0] = capacity
           /\ \A k \in 0..n : HoldsRuns(CapacityAfter(n)[k], k)
           /\ \A k \in 1..n : CapacityAfter(n)[k - 1] = -1 => CapacityAfter(n)[k] = -1
<1> DEFINE next(k, v) == NextCapacity(v, Len(runs) + k)
           V == Int
           step == [k \in 1..n |-> [v \in V |-> next(k, v)]]
           body(f) == [k \in 0..n |-> IF k = 0 THEN capacity ELSE next(k, f[k - 1])]
           g == CHOOSE f : f = body(f)
<1>0. Len(runs) \in Nat /\ runBudget \in Nat /\ capacity \in Nat /\ MinCapacity \in Nat
  BY LengthsAssumption DEF Budgeted
<1>1. CapacityAfter(n) = g
  BY DEF CapacityAfter, NextCapacity
<1>2. ASSUME NEW k \in 1..n, NEW v \in V PROVE next(k, v) \in V
  <2>1. Len(runs) + k \in Int /\ Smaller(MinCapacity, runBudget) \in Int
    BY <1>0 DEF Smaller
  <2>2. Grown(v, Len(runs) + k) \in Int
    BY <2>1, <1>0 DEF Grown, Smaller, Larger
  <2> QED BY <2>2, <1>2 DEF NextCapacity
<1> HIDE DEF g, next
<1>3. capacity \in V /\ step \in [1..n -> [V -> V]]
  BY <1>0, <1>2
<1>4. \A k \in 1..n : \A v \in V : step[k][v] = next(k, v)
  OBVIOUS
<1> HIDE DEF step, V
<1>5. PICK f : IsRecursion(f, V, n, capacity, step)
  <2>1. HasRecursion(V, n, capacity, step)
    BY <1>3, RecursionDefines
  <2> QED BY <2>1 DEF HasRecursion
<1>6. \A k \in 1..n : f[k] = next(k, f[k - 1])
  <2> SUFFICES ASSUME NEW k \in 1..n PROVE f[k] = next(k, f[k - 1])
    OBVIOUS
  <2>1. f[k - 1] \in V /\ f[k] = step[k][f[k - 1]]
    BY <1>5 DEF IsRecursion
  <2> QED BY <2>1, <1>4
<1>7. f = body(f)
  BY <1>5, <1>6 DEF IsRecursion
<1>8. g = body(g)
  BY <1>7 DEF g
<1>9. g[0] = capacity /\ \A k \in 1..n : g[k] = next(k, g[k - 1])
  BY <1>8
<1> DEFINE S == {k \in 0..n : g[k] \in Int /\ HoldsRuns(g[k], k)}
<1>10. 0 \in S
  BY <1>9, <1>0 DEF HoldsRuns, Budgeted
<1>11. ASSUME NEW k \in 0..(n - 1), k \in S PROVE k + 1 \in S
  <2>1. k + 1 \in 1..n /\ k + 1 - 1 = k /\ k \in Nat /\ Len(runs) + (k + 1) = Len(runs) + k + 1
    BY <1>0
  <2>2. g[k + 1] = NextCapacity(g[k], Len(runs) + k + 1)
    BY <2>1, <1>9 DEF next
  <2>3. g[k] \in Int /\ HoldsRuns(g[k], k)
    BY <1>11
  <2>4. HoldsRuns(g[k + 1], k + 1) /\ g[k + 1] \in Int
    BY <2>1, <2>2, <2>3, GrownHolds
  <2> QED BY <2>1, <2>4
<1> HIDE DEF S
<1>12. 0..n \subseteq S
  BY <1>10, <1>11, SetInductionUpTo
<1>13. \A k \in 0..n : HoldsRuns(g[k], k)
  BY <1>12 DEF S
<1>14. \A k \in 1..n : g[k - 1] = -1 => g[k] = -1
  BY <1>9 DEF next, NextCapacity
<1> QED BY <1>1, <1>9, <1>13, <1>14

(* The runs of a match that fit are the first ones, and the capacity after *)
(* them is that of the last one that fits.                                 *)
LEMMA RunsThatFit ==
    ASSUME Budgeted, NEW n \in Nat
    PROVE  LET grown == CapacityAfter(n)
               m == Cardinality({k \in 0..n : grown[k] # -1}) - 1
           IN  /\ grown[m] \in Nat /\ Len(runs) <= grown[m] /\ grown[m] <= runBudget
               /\ grown[n] # -1 => m = n /\ Len(runs) + n <= grown[m]
               /\ grown[n] = -1 => Len(runs) + n > runBudget
<1> DEFINE c == CapacityAfter(n)
           fits == {k \in 0..n : c[k] # -1}
           none == {k \in 0..n : c[k] = -1}
<1>1. /\ c[0] = capacity
      /\ \A k \in 0..n : HoldsRuns(c[k], k)
      /\ \A k \in 1..n : c[k - 1] = -1 => c[k] = -1
  BY CapacityHolds
<1> HIDE DEF c
<1>2. \E m \in 0..n : fits = 0..m /\ (c[n] # -1 => m = n)
  <2>1. CASE none = {}
    BY <2>1
  <2>2. CASE none # {}
    <3>1. none \in SUBSET Nat
      OBVIOUS
    <3> HIDE DEF none
    <3>2. PICK t \in none : \A k \in none : t <= k
      BY <2>2, <3>1, LeastElement
    <3>3. t \in 1..n /\ c[t] = -1 /\ \A k \in 0..(t - 1) : c[k] # -1
      BY <3>2, <1>1 DEF none, Budgeted
    <3> DEFINE S == {k \in 0..n : t <= k => c[k] = -1}
    <3>4. 0 \in S
      BY <3>3
    <3>5. ASSUME NEW k \in 0..(n - 1), k \in S PROVE k + 1 \in S
      <4>1. k + 1 \in 1..n /\ k + 1 - 1 = k
        OBVIOUS
      <4>2. t <= k + 1 => t = k + 1 \/ t <= k
        BY <3>3
      <4> QED BY <4>1, <4>2, <3>3, <3>5, <1>1
    <3> HIDE DEF S
    <3>6. 0..n \subseteq S
      BY <3>4, <3>5, SetInductionUpTo
    <3>7. \A k \in 0..n : t <= k => c[k] = -1
      BY <3>6 DEF S
    <3>8. fits = 0..(t - 1) /\ c[n] = -1 /\ t - 1 \in 0..n
      BY <3>3, <3>7
    <3> QED BY <3>8
  <2> QED BY <2>1, <2>2
<1>3. PICK m \in 0..n : fits = 0..m /\ (c[n] # -1 => m = n)
  BY <1>2
<1>4. Cardinality(fits) - 1 = m
  <2>1. m \in Nat /\ Cardinality(0..m) = m + 1
    BY FS_Interval
  <2> HIDE DEF fits
  <2>2. Cardinality(fits) = m + 1
    BY <1>3, <2>1
  <2> QED BY <2>1, <2>2
<1>5. c[m] # -1 /\ HoldsRuns(c[m], m) /\ HoldsRuns(c[n], n) /\ Len(runs) \in Nat
  BY <1>1, <1>3 DEF Budgeted
<1> HIDE DEF fits
<1>6. /\ c[m] \in Nat /\ Len(runs) <= c[m] /\ c[m] <= runBudget
      /\ c[n] # -1 => m = n /\ Len(runs) + n <= c[m]
      /\ c[n] = -1 => Len(runs) + n > runBudget
  BY <1>3, <1>5 DEF HoldsRuns
<1> QED BY <1>4, <1>6 DEF c, fits

-----------------------------------------------------------------------------
(* What a cached match gives back. *)

(* The matches of the blocks are what the assumption says.                 *)
LEMMA FoundType ==
    ASSUME NEW b \in Blocks, NEW p \in 0..(Size(b) - 1)
    PROVE  /\ Found(b, p) \in Seq(Nat \ {0}) /\ Same(b, p) \in Nat
           /\ Size(b) \in Nat /\ p \in Positions
<1>1. Size(b) \in 0..MaxSize /\ MaxSize \in Nat
  BY BlocksAssumption, LengthsAssumption
<1>2. p \in Positions /\ Size(b) \in Nat
  BY <1>1 DEF Positions
<1> QED BY <1>2, BlocksAssumption

(* The longest match tells a complete entry from the other two states.     *)
LEMMA LongestCode ==
    ASSUME NEW d \in Seq(Nat \ {0})
    PROVE  /\ Longest(d) \in Nat /\ Longest(d) # Unfilled /\ Longest(d) # Incomplete
           /\ d = <<>> => Longest(d) = NoMatch
           /\ d # <<>> => /\ Longest(d) = Len(d) + MinMatch - 1 /\ Longest(d) >= MinMatch
                          /\ Longest(d) # NoMatch /\ Len(d) \in 1..Len(d)
                          /\ d[Len(d)] \in Nat
<1>1. CASE d = <<>>
  BY <1>1 DEF Longest, Unfilled, Incomplete, NoMatch
<1>2. CASE d # <<>>
  <2>1. Len(d) \in Nat /\ Len(d) >= 1 /\ d[Len(d)] \in Nat \ {0}
    BY <1>2
  <2> QED BY <2>1, <1>2, LengthsAssumption DEF Longest, Unfilled, Incomplete, NoMatch
<1> QED BY <1>1, <1>2

(* Two sequences with the same elements are the same.                      *)
LEMMA SameElements ==
    ASSUME NEW S, NEW s \in Seq(S), NEW t \in Seq(S), Len(s) = Len(t),
           \A n \in 1..Len(t) : s[n] = t[n]
    PROVE  s = t
<1>1. s = [n \in 1..Len(s) |-> s[n]] /\ t = [n \in 1..Len(t) |-> t[n]]
  OBVIOUS
<1> QED BY <1>1

(* cacheToSublen on the runs of a match gives the match back.              *)
LEMMA SublenFound ==
    ASSUME NEW d \in Seq(Nat \ {0}), d # <<>>
    PROVE  Sublen(RunsOf(d), Longest(d)) = d
<1>1. Len(d) \in Nat /\ MinMatch \in Nat /\ Longest(d) - MinMatch + 1 = Len(d)
  BY LengthsAssumption DEF Longest
<1>2. Sublen(RunsOf(d), Longest(d)) = [n \in 1..Len(d) |-> RunDistance(RunsOf(d), n + MinMatch - 1)]
  BY <1>1 DEF Sublen
<1>3. \A n \in 1..Len(d) : RunDistance(RunsOf(d), n + MinMatch - 1) = d[n]
  BY DistanceFound
<1>4. d = [n \in 1..Len(d) |-> d[n]]
  OBVIOUS
<1> QED BY <1>2, <1>3, <1>4

(* The sums of RunsBefore.                                                 *)
LEMMA RunsBeforeSums ==
    ASSUME NEW b \in Blocks
    PROVE  /\ RunsBefore(b) \in [0..Size(b) -> Nat] /\ RunsBefore(b)[0] = 0
           /\ \A k \in 1..Size(b) :
                 RunsBefore(b)[k] = RunsBefore(b)[k - 1] + Len(RunsOf(Found(b, k - 1)))
<1> DEFINE n == Size(b)
           count(k) == Len(RunsOf(Found(b, k - 1)))
           step == [k \in 1..n |-> [v \in Nat |-> v + count(k)]]
           body(f) == [k \in 0..n |-> IF k = 0 THEN 0 ELSE f[k - 1] + count(k)]
           g == CHOOSE f : f = body(f)
<1>0. n \in Nat
  BY BlocksAssumption, LengthsAssumption
<1>1. RunsBefore(b) = g
  BY DEF RunsBefore
<1>2. \A k \in 1..n : count(k) \in Nat
  <2> SUFFICES ASSUME NEW k \in 1..n PROVE count(k) \in Nat
    OBVIOUS
  <2>1. k - 1 \in 0..(Size(b) - 1)
    BY <1>0
  <2>2. Found(b, k - 1) \in Seq(Nat \ {0})
    BY <2>1, FoundType
  <2>3. RunsOf(Found(b, k - 1)) \in Seq(Run)
    BY <2>2, RunsSay
  <2> QED BY <2>3, RunFields
<1> HIDE DEF n, count, g
<1>3. step \in [1..n -> [Nat -> Nat]] /\ \A k \in 1..n : \A v \in Nat : step[k][v] = v + count(k)
  <2>1. ASSUME NEW k \in 1..n PROVE [v \in Nat |-> v + count(k)] \in [Nat -> Nat]
    <3>1. count(k) \in Nat
      BY <1>2
    <3> HIDE DEF count
    <3> QED BY <3>1
  <2> QED BY <2>1
<1> HIDE DEF step
<1>4. PICK f : IsRecursion(f, Nat, n, 0, step)
  <2>1. HasRecursion(Nat, n, 0, step)
    BY <1>0, <1>3, RecursionDefines
  <2> QED BY <2>1 DEF HasRecursion
<1>5. \A k \in 1..n : f[k] = f[k - 1] + count(k)
  <2> SUFFICES ASSUME NEW k \in 1..n PROVE f[k] = f[k - 1] + count(k)
    OBVIOUS
  <2>1. f[k - 1] \in Nat /\ f[k] = step[k][f[k - 1]]
    BY <1>4, <1>0 DEF IsRecursion
  <2> QED BY <2>1, <1>3
<1>6. f = body(f)
  BY <1>4, <1>5, <1>0 DEF IsRecursion
<1>7. g = body(g)
  BY <1>6 DEF g
<1>8. g[0] = 0 /\ \A k \in 1..n : g[k] = g[k - 1] + count(k)
  BY <1>7, <1>0
<1>9. \A k \in 0..n : g[k] \in Nat
  <2>1. ASSUME NEW k \in 1..n, g[k - 1] \in Nat PROVE g[k] \in Nat
    <3>1. g[k] = g[k - 1] + count(k) /\ count(k) \in Nat
      BY <1>8, <1>2
    <3> QED BY <2>1, <3>1
  <2>2. g[0] \in Nat
    BY <1>8
  <2>3. \A k \in 1..n : g[k - 1] \in Nat => g[k] \in Nat
    BY <2>1
  <2> QED BY <1>0, <2>2, <2>3, RecursionStaysIn
<1>10. g \in [0..n -> Nat]
  BY <1>7, <1>9
<1> QED BY <1>1, <1>8, <1>10 DEF n, count

(* The runs of the first positions are no more than those of the block.    *)
LEMMA RunsBeforeGrows ==
    ASSUME NEW b \in Blocks, NEW k \in 0..Size(b)
    PROVE  RunsBefore(b)[k] <= RunsBefore(b)[Size(b)]
<1>1. Size(b) \in Nat
  BY BlocksAssumption, LengthsAssumption
<1>2. RunsBefore(b) \in [0..Size(b) -> Nat]
  BY RunsBeforeSums
<1>3. \A m \in 1..Size(b) : RunsBefore(b)[m - 1] <= RunsBefore(b)[m]
  <2> SUFFICES ASSUME NEW m \in 1..Size(b) PROVE RunsBefore(b)[m - 1] <= RunsBefore(b)[m]
    OBVIOUS
  <2>1. m - 1 \in 0..(Size(b) - 1) /\ m - 1 \in 0..Size(b)
    BY <1>1
  <2>2. RunsOf(Found(b, m - 1)) \in Seq(Run)
    BY <2>1, FoundType, RunsSay
  <2>3. Len(RunsOf(Found(b, m - 1))) \in Nat /\ RunsBefore(b)[m - 1] \in Nat
    BY <2>1, <2>2, <1>2, RunFields
  <2> QED BY <2>3, RunsBeforeSums
<1> QED BY <1>1, <1>2, <1>3, NeverFalls

-----------------------------------------------------------------------------
(* The inductive invariant. *)

Types ==
    /\ pc \in {"idle", "build", "parse"} /\ block \in Blocks /\ at \in Nat
    /\ length \in [Positions -> Nat] /\ dist \in [Positions -> Nat]
    /\ same \in [Positions -> Nat] /\ runCount \in [Positions -> Nat]
    /\ runStart \in [Positions -> Nat]
    /\ exceeded \in BOOLEAN /\ built \in BOOLEAN /\ allComplete \in BOOLEAN

(* A complete entry says what a search at its position finds, and its runs *)
(* are in the arena.                                                       *)
Tells(p) ==
    LET d == Found(block, p)
    IN  /\ length[p] = Longest(d) /\ same[p] = Same(block, p)
        /\ d = <<>> => dist[p] = 0
        /\ d # <<>> => dist[p] = d[Len(d)]
        /\ runCount[p] = Len(RunsOf(d))
        /\ runStart[p] + runCount[p] <= Len(runs)
        /\ \A n \in 1..runCount[p] : runs[runStart[p] + n] = RunsOf(d)[n]

Telling == \A p \in InBlock : EntryComplete(p) => Tells(p)

(* The runs of one complete entry lie before those of any other, and each  *)
(* run is one of a complete entry.                                         *)
Before(p, q) == runStart[p] + runCount[p] <= runStart[q]

Apart ==
    \A p, q \in InBlock :
        EntryComplete(p) /\ EntryComplete(q) /\ p # q => (Before(p, q) \/ Before(q, p))

Holds(p, i) == runStart[p] < i /\ i <= runStart[p] + runCount[p]

Owned == \A i \in 1..Len(runs) : \E p \in InBlock : EntryComplete(p) /\ Holds(p, i)

(* While a block is built the entries of the positions behind are complete *)
(* and those ahead untouched, and the arena has the runs of the former.    *)
Building ==
    pc = "build" =>
        /\ ~built /\ ~exceeded /\ allComplete /\ at \in InBlock
        /\ \A p \in InBlock : p < at => EntryComplete(p)
        /\ \A p \in InBlock : at <= p => ~EntryFilled(p)
        /\ Len(runs) = RunsBefore(block)[at]

Ordered == Budgeted /\ Telling /\ Apart /\ Owned

Invariant == Types /\ Ordered /\ Building /\ BuiltOrFull /\ AnswersAreFound

(* RunView of such an entry is the runs of the match.                      *)
LEMMA ViewFound ==
    ASSUME Types, Budgeted, NEW p \in InBlock, Tells(p)
    PROVE  RunView(p) = RunsOf(Found(block, p))
<1> DEFINE d == Found(block, p)
           r == RunsOf(d)
           v == RunView(p)
           s == runStart[p]
<1>1. d \in Seq(Nat \ {0}) /\ p \in Positions
  BY FoundType DEF Types, InBlock
<1>2. r \in Seq(Run)
  BY <1>1, RunsSay
<1>3. s \in Nat /\ runCount[p] = Len(r) /\ s + Len(r) <= Len(runs)
  BY <1>1 DEF Tells, Types
<1>4. \A n \in 1..Len(r) : runs[s + n] = r[n]
  BY <1>3 DEF Tells
<1> HIDE DEF d, r, s
<1>5. runs \in Seq(Run) /\ Len(r) \in Nat /\ Len(runs) \in Nat
  BY <1>2, RunFields DEF Budgeted
<1>6. v = SubSeq(runs, s + 1, s + Len(r))
  BY <1>3 DEF RunView, s
<1> HIDE DEF v
<1>7. s + 1 \in 1..(Len(runs) + 1) /\ s + Len(r) \in ((s + 1) - 1)..Len(runs)
  BY <1>3, <1>5
<1>8. /\ v \in Seq(Run) /\ Len(v) = (s + Len(r)) - (s + 1) + 1
      /\ \A i \in 1..((s + Len(r)) - (s + 1) + 1) : v[i] = runs[(s + 1) + i - 1]
  BY <1>5, <1>6, <1>7, SubSeqProperties
<1>9. Len(v) = Len(r) /\ \A i \in 1..Len(r) : v[i] = r[i]
  <2>1. (s + Len(r)) - (s + 1) + 1 = Len(r) /\ \A i \in 1..Len(r) : (s + 1) + i - 1 = s + i
    BY <1>3, <1>5
  <2> QED BY <2>1, <1>4, <1>8
<1>10. v = r
  BY <1>2, <1>8, <1>9, SameElements
<1> QED BY <1>10 DEF v, r, d

(* What storeMatch does to an entry that is not filled: the match fits the *)
(* budget and is stored, or it does not and the entry is left incomplete.  *)
Stored(p) ==
    LET d == Found(block, p)
    IN  /\ runs' = runs \o RunsOf(d)
        /\ Fill(p, Longest(d), IF d = <<>> THEN 0 ELSE d[Len(d)], Len(RunsOf(d)), Len(runs))
        /\ exceeded' = exceeded

TooFull(p) ==
    LET d == Found(block, p)
    IN  /\ Len(runs) + Len(RunsOf(d)) > runBudget /\ d # <<>>
        /\ runs' = runs
        /\ Fill(p, Incomplete, d[Len(d)], 0, Len(runs))
        /\ exceeded' = TRUE

Kept(p) == EntryFilled(p) /\ UNCHANGED <<entries, arena>>

(* storeMatch keeps the arena within the budget, whatever it does.         *)
LEMMA StoreKinds ==
    ASSUME Types, Budgeted, NEW p \in InBlock, StoreMatch(p, Found(block, p))
    PROVE  /\ Budgeted' /\ runBudget' = runBudget
           /\ \/ Kept(p)
              \/ ~ EntryFilled(p) /\ Stored(p)
              \/ ~ EntryFilled(p) /\ TooFull(p)
<1> DEFINE d == Found(block, p)
           new == RunsOf(d)
           n == Len(new)
           grown == CapacityAfter(n)
           fits == {k \in 0..n : grown[k] # -1}
           m == Cardinality(fits) - 1
<1>1. d \in Seq(Nat \ {0}) /\ p \in Positions
  BY FoundType DEF Types, InBlock
<1>2. new \in Seq(Run) /\ n \in Nat /\ (d = <<>> => new = <<>>)
  BY <1>1, RunsSay, RunFields
<1>3. /\ grown[m] \in Nat /\ Len(runs) <= grown[m] /\ grown[m] <= runBudget
      /\ grown[n] # -1 => Len(runs) + n <= grown[m]
      /\ grown[n] = -1 => Len(runs) + n > runBudget
  <2> HIDE DEF n
  <2> QED BY <1>2, RunsThatFit
<1>4. runs \in Seq(Run) /\ Len(runs) \in Nat
  BY RunFields DEF Budgeted
<1>5. runs \o new \in Seq(Run) /\ Len(runs \o new) = Len(runs) + n
  BY <1>2, <1>4
<1>6. CASE EntryFilled(p)
  <2>1. UNCHANGED <<entries, arena>>
    BY <1>6 DEF StoreMatch
  <2> QED BY <2>1, <1>6 DEF Kept, arena, Budgeted
<1>7. CASE ~ EntryFilled(p) /\ d = <<>>
  <2>1. Fill(p, NoMatch, 0, 0, Len(runs)) /\ UNCHANGED arena
    BY <1>7 DEF StoreMatch
  <2>2. runs \o new = runs /\ n = 0 /\ Longest(d) = NoMatch
    BY <1>2, <1>4, <1>7 DEF Longest, NoMatch
  <2>3. runs' = runs /\ exceeded' = exceeded /\ runBudget' = runBudget /\ capacity' = capacity
    BY <2>1 DEF arena
  <2>4. Stored(p)
    BY <2>1, <2>2, <2>3, <1>7 DEF Stored
  <2> QED BY <2>3, <2>4, <1>7 DEF Budgeted
<1>8. CASE ~ EntryFilled(p) /\ d # <<>>
  <2>1. /\ capacity' = grown[m]
        /\ exceeded' = (exceeded \/ grown[n] = -1)
        /\ UNCHANGED runBudget
        /\ IF grown[n] # -1
           THEN runs' = runs \o new /\ Fill(p, Longest(d), d[Len(d)], n, Len(runs))
           ELSE UNCHANGED runs /\ Fill(p, Incomplete, d[Len(d)], 0, Len(runs))
    BY <1>8 DEF StoreMatch
  <2>2. CASE grown[n] # -1
    <3>1. runs' = runs \o new /\ Fill(p, Longest(d), d[Len(d)], n, Len(runs))
      BY <2>1, <2>2
    <3>2. exceeded' = exceeded
      BY <2>1, <2>2 DEF Types
    <3>3. Stored(p)
      BY <3>1, <3>2, <1>8 DEF Stored
    <3>4. Budgeted'
      <4>1. runs' \in Seq(Run) /\ Len(runs') = Len(runs) + n
        BY <3>1, <1>5
      <4>2. capacity' = grown[m] /\ runBudget' = runBudget
        BY <2>1
      <4> HIDE DEF m, n, grown
      <4> QED BY <4>1, <4>2, <2>2, <1>3 DEF Budgeted
    <3> QED BY <3>3, <3>4, <2>1, <1>8
  <2>3. CASE grown[n] = -1
    <3>1. runs' = runs /\ exceeded' = TRUE /\ Fill(p, Incomplete, d[Len(d)], 0, Len(runs))
      BY <2>1, <2>3
    <3>2. TooFull(p)
      BY <3>1, <1>3, <1>8, <2>3 DEF TooFull
    <3>3. Budgeted'
      <4>1. capacity' = grown[m] /\ runBudget' = runBudget
        BY <2>1
      <4> HIDE DEF m, n, grown
      <4> QED BY <4>1, <3>1, <1>3, <1>4 DEF Budgeted
    <3> QED BY <3>2, <3>3, <2>1, <1>8
  <2> QED BY <2>2, <2>3
<1> QED BY <1>6, <1>7, <1>8

(* Fill sets one entry and leaves the others.                              *)
Set(p, code, d, count, start) ==
    /\ length'[p] = code /\ dist'[p] = d /\ same'[p] = Same(block, p)
    /\ runCount'[p] = count /\ runStart'[p] = start

Untouched(q) ==
    /\ length'[q] = length[q] /\ dist'[q] = dist[q] /\ same'[q] = same[q]
    /\ runCount'[q] = runCount[q] /\ runStart'[q] = runStart[q]

EntryTypes ==
    /\ length \in [Positions -> Nat] /\ dist \in [Positions -> Nat]
    /\ same \in [Positions -> Nat] /\ runCount \in [Positions -> Nat]
    /\ runStart \in [Positions -> Nat]

(* What Fill does to each entry.                                           *)
LEMMA FillSets ==
    ASSUME Types, NEW p \in InBlock, NEW code \in Nat, NEW d \in Nat, NEW count \in Nat,
           NEW start \in Nat, Fill(p, code, d, count, start)
    PROVE  /\ EntryTypes' /\ Set(p, code, d, count, start)
           /\ \A q \in InBlock : q # p => Untouched(q)
<1>1. p \in Positions /\ Same(block, p) \in Nat /\ \A q \in InBlock : q \in Positions
  BY FoundType DEF Types, InBlock
<1>2. EntryTypes'
  BY <1>1 DEF Types, Fill, EntryTypes
<1>3. Set(p, code, d, count, start)
  BY <1>1 DEF Types, Fill, Set
<1>4. \A q \in InBlock : q # p => Untouched(q)
  BY <1>1 DEF Types, Fill, Untouched
<1> QED BY <1>2, <1>3, <1>4

(* The values storeMatch fills in.                                         *)
LEMMA StoredValues ==
    ASSUME Types, Budgeted, NEW p \in InBlock
    PROVE  LET d == Found(block, p)
               last == IF d = <<>> THEN 0 ELSE d[Len(d)]
           IN  /\ d \in Seq(Nat \ {0}) /\ Longest(d) \in Nat /\ last \in Nat
               /\ d # <<>> => d[Len(d)] \in Nat
               /\ RunsOf(d) \in Seq(Run) /\ Len(RunsOf(d)) \in Nat
               /\ runs \in Seq(Run) /\ Len(runs) \in Nat
               /\ Longest(d) # Unfilled /\ Longest(d) # Incomplete
<1> DEFINE d == Found(block, p)
<1>1. d \in Seq(Nat \ {0})
  BY FoundType DEF Types, InBlock
<1> HIDE DEF d
<1>2. /\ Longest(d) \in Nat /\ Longest(d) # Unfilled /\ Longest(d) # Incomplete
      /\ d # <<>> => d[Len(d)] \in Nat
  BY <1>1, LongestCode
<1>3. RunsOf(d) \in Seq(Run) /\ Len(RunsOf(d)) \in Nat
  BY <1>1, RunsSay, RunFields
<1>4. runs \in Seq(Run) /\ Len(runs) \in Nat
  BY RunFields DEF Budgeted
<1> QED BY <1>1, <1>2, <1>3, <1>4 DEF d

(* What a stored match leaves behind.                                      *)
StoredEntry(p) ==
    LET d == Found(block, p)
    IN  /\ EntryTypes' /\ exceeded' = exceeded
        /\ Set(p, Longest(d), IF d = <<>> THEN 0 ELSE d[Len(d)], Len(RunsOf(d)), Len(runs))
        /\ \A q \in InBlock : q # p => Untouched(q)
        /\ Len(runs') = Len(runs) + Len(RunsOf(d))
        /\ \A i \in 1..Len(runs) : runs'[i] = runs[i]
        /\ \A n \in 1..Len(RunsOf(d)) : runs'[Len(runs) + n] = RunsOf(d)[n]
        /\ length'[p] # Unfilled /\ length'[p] # Incomplete

(* A match stored is one entry and the last runs of the arena.             *)
LEMMA StoredLeaves ==
    ASSUME Types, Budgeted, NEW p \in InBlock, Stored(p)
    PROVE  StoredEntry(p)
<1> DEFINE d == Found(block, p)
           last == IF d = <<>> THEN 0 ELSE d[Len(d)]
           new == RunsOf(d)
<1>1. /\ Longest(d) \in Nat /\ last \in Nat
      /\ new \in Seq(Run) /\ Len(new) \in Nat /\ runs \in Seq(Run) /\ Len(runs) \in Nat
      /\ Longest(d) # Unfilled /\ Longest(d) # Incomplete
  BY StoredValues
<1>2. /\ runs' = runs \o new /\ exceeded' = exceeded
      /\ Fill(p, Longest(d), last, Len(new), Len(runs))
  BY DEF Stored
<1> HIDE DEF last, d, new
<1>3. /\ EntryTypes' /\ Set(p, Longest(d), last, Len(new), Len(runs))
      /\ \A q \in InBlock : q # p => Untouched(q)
  BY <1>1, <1>2, FillSets
<1>4. /\ Len(runs') = Len(runs) + Len(new)
      /\ \A i \in 1..Len(runs) : runs'[i] = runs[i]
      /\ \A n \in 1..Len(new) : runs'[Len(runs) + n] = new[n]
  BY <1>1, <1>2
<1>5. length'[p] = Longest(d)
  BY <1>3 DEF Set
<1> QED BY <1>1, <1>2, <1>3, <1>4, <1>5 DEF StoredEntry, last, d, new

(* What a match that does not fit leaves behind.                           *)
IncompleteEntry(p) ==
    /\ EntryTypes' /\ exceeded' = TRUE /\ runs' = runs
    /\ length'[p] = Incomplete
    /\ \A q \in InBlock : q # p => Untouched(q)

(* A match that does not fit leaves the arena as it was.                   *)
LEMMA TooFullLeaves ==
    ASSUME Types, Budgeted, NEW p \in InBlock, TooFull(p)
    PROVE  IncompleteEntry(p)
<1> DEFINE d == Found(block, p)
<1>1. d # <<>> /\ d[Len(d)] \in Nat /\ Len(runs) \in Nat
  BY StoredValues DEF TooFull
<1>2. Incomplete \in Nat /\ 0 \in Nat
  BY DEF Incomplete
<1>3. runs' = runs /\ exceeded' = TRUE /\ Fill(p, Incomplete, d[Len(d)], 0, Len(runs))
  BY DEF TooFull
<1> HIDE DEF d
<1>4. /\ EntryTypes' /\ Set(p, Incomplete, d[Len(d)], 0, Len(runs))
      /\ \A q \in InBlock : q # p => Untouched(q)
  BY <1>1, <1>2, <1>3, FillSets
<1> QED BY <1>3, <1>4 DEF IncompleteEntry, Set

(* Storing a match keeps what the entries tell.                            *)
LEMMA TellingStored ==
    ASSUME Types, Budgeted, Telling, NEW p \in InBlock, block' = block, StoredEntry(p)
    PROVE  Telling'
<1>1. InBlock' = InBlock
  BY DEF InBlock
<1> SUFFICES ASSUME NEW q \in InBlock, EntryComplete(q)' PROVE Tells(q)'
  BY <1>1 DEF Telling
<1> DEFINE d == Found(block, q)
<1>2. Len(runs) \in Nat /\ Len(RunsOf(Found(block, p))) \in Nat
  BY StoredValues
<1>3. d \in Seq(Nat \ {0}) /\ q \in Positions
  BY FoundType DEF Types, InBlock
<1>4. CASE q = p
  <2>1. /\ length'[q] = Longest(d) /\ same'[q] = Same(block, q)
        /\ dist'[q] = IF d = <<>> THEN 0 ELSE d[Len(d)]
        /\ runCount'[q] = Len(RunsOf(d)) /\ runStart'[q] = Len(runs)
        /\ Len(runs') = Len(runs) + Len(RunsOf(d))
        /\ \A n \in 1..Len(RunsOf(d)) : runs'[Len(runs) + n] = RunsOf(d)[n]
    BY <1>4 DEF StoredEntry, Set
  <2> QED BY <2>1 DEF Tells
<1>5. CASE q # p
  <2>1. Untouched(q)
    BY <1>5 DEF StoredEntry
  <2>2. Tells(q)
    BY <2>1 DEF Telling, EntryComplete, Untouched
  <2>3. runStart[q] \in Nat /\ runCount[q] \in Nat
    BY <1>3 DEF Types
  <2>4. /\ runStart[q] + runCount[q] <= Len(runs')
        /\ \A n \in 1..runCount[q] : runs'[runStart[q] + n] = RunsOf(d)[n]
    <3>1. /\ Len(runs') = Len(runs) + Len(RunsOf(Found(block, p)))
          /\ \A i \in 1..Len(runs) : runs'[i] = runs[i]
      BY DEF StoredEntry
    <3>2. /\ runStart[q] + runCount[q] <= Len(runs)
          /\ \A n \in 1..runCount[q] : runs[runStart[q] + n] = RunsOf(d)[n]
      BY <2>2 DEF Tells
    <3>3. runStart[q] + runCount[q] <= Len(runs')
      BY <3>1, <3>2, <2>3, <1>2
    <3>4. \A n \in 1..runCount[q] : runStart[q] + n \in 1..Len(runs)
      BY <3>2, <2>3, <1>2
    <3> QED BY <3>1, <3>2, <3>3, <3>4
  <2> QED BY <2>1, <2>2, <2>4 DEF Tells, Untouched
<1> QED BY <1>4, <1>5

(* It appends the runs behind those of the other entries.                  *)
LEMMA ApartStored ==
    ASSUME Types, Budgeted, Telling, Apart, Owned, NEW p \in InBlock, ~ EntryFilled(p),
           block' = block, StoredEntry(p)
    PROVE  Apart' /\ Owned'
<1>1. InBlock' = InBlock
  BY DEF InBlock
<1>2. Len(runs) \in Nat /\ Len(RunsOf(Found(block, p))) \in Nat
  BY StoredValues
<1>3. ~ EntryComplete(p) /\ EntryComplete(p)'
  BY DEF EntryFilled, EntryComplete, StoredEntry
<1>4. \A q \in InBlock : runStart[q] \in Nat /\ runCount[q] \in Nat
  BY FoundType DEF Types, InBlock
<1>5. ASSUME NEW q \in InBlock, q # p
      PROVE  /\ EntryComplete(q)' <=> EntryComplete(q)
             /\ runStart'[q] = runStart[q] /\ runCount'[q] = runCount[q]
             /\ EntryComplete(q) => runStart[q] + runCount[q] <= Len(runs)
  <2>1. Untouched(q)
    BY <1>5 DEF StoredEntry
  <2>2. EntryComplete(q) => Tells(q)
    BY DEF Telling
  <2> QED BY <2>1, <2>2 DEF Untouched, EntryComplete, Tells
<1>6. runStart'[p] = Len(runs) /\ runCount'[p] = Len(RunsOf(Found(block, p)))
  BY DEF StoredEntry, Set
<1>7. Apart'
  <2> SUFFICES ASSUME NEW q \in InBlock, NEW r \in InBlock, EntryComplete(q)', EntryComplete(r)',
                      q # r
               PROVE  Before(q, r)' \/ Before(r, q)'
    BY <1>1 DEF Apart
  <2>1. CASE q # p /\ r # p
    BY <2>1, <1>5 DEF Apart, Before
  <2>2. CASE q = p
    BY <2>2, <1>5, <1>6 DEF Before
  <2>3. CASE r = p
    BY <2>3, <1>5, <1>6 DEF Before
  <2> QED BY <2>1, <2>2, <2>3
<1>8. Owned'
  <2>1. Len(runs') = Len(runs) + Len(RunsOf(Found(block, p)))
    BY DEF StoredEntry
  <2> SUFFICES ASSUME NEW i \in 1..Len(runs')
               PROVE  \E q \in InBlock : EntryComplete(q)' /\ Holds(q, i)'
    BY <1>1 DEF Owned
  <2>2. CASE i <= Len(runs)
    <3>1. PICK q \in InBlock : EntryComplete(q) /\ Holds(q, i)
      BY <2>1, <2>2, <1>2 DEF Owned
    <3>2. EntryComplete(q)' /\ Holds(q, i)'
      BY <3>1, <1>3, <1>5 DEF Holds
    <3> QED BY <3>2
  <2>3. CASE i > Len(runs)
    <3>1. Holds(p, i)'
      BY <2>1, <2>3, <1>2, <1>6 DEF Holds
    <3> QED BY <3>1, <1>3
  <2> QED BY <2>2, <2>3, <2>1, <1>2
<1> QED BY <1>7, <1>8

(* A match that does not fit takes its runs back, and changes no entry     *)
(* that is complete.                                                       *)
LEMMA IncompleteKeeps ==
    ASSUME Types, Telling, Apart, Owned, NEW p \in InBlock, ~ EntryFilled(p),
           block' = block, IncompleteEntry(p)
    PROVE  Telling' /\ Apart' /\ Owned'
<1>1. InBlock' = InBlock /\ runs' = runs
  BY DEF InBlock, IncompleteEntry
<1>2. ~ EntryComplete(p) /\ ~ EntryComplete(p)'
  BY DEF EntryFilled, EntryComplete, IncompleteEntry
<1>3. \A q \in InBlock : q # p => Untouched(q)
  BY DEF IncompleteEntry
<1>4. ASSUME NEW q \in InBlock, EntryComplete(q) \/ EntryComplete(q)'
      PROVE  Untouched(q) /\ EntryComplete(q) /\ EntryComplete(q)'
  <2>1. q # p
    BY <1>2, <1>4
  <2> QED BY <2>1, <1>3, <1>4 DEF Untouched, EntryComplete
<1>5. Telling'
  <2> SUFFICES ASSUME NEW q \in InBlock, EntryComplete(q)' PROVE Tells(q)'
    BY <1>1 DEF Telling
  <2>1. Tells(q) /\ Untouched(q)
    BY <1>4 DEF Telling
  <2> QED BY <2>1, <1>1 DEF Tells, Untouched
<1>6. Apart'
  <2> SUFFICES ASSUME NEW q \in InBlock, NEW r \in InBlock, EntryComplete(q)', EntryComplete(r)',
                      q # r
               PROVE  Before(q, r)' \/ Before(r, q)'
    BY <1>1 DEF Apart
  <2>1. Untouched(q) /\ Untouched(r) /\ EntryComplete(q) /\ EntryComplete(r)
    BY <1>4
  <2> QED BY <2>1 DEF Apart, Before, Untouched
<1>7. Owned'
  <2> SUFFICES ASSUME NEW i \in 1..Len(runs)
               PROVE  \E q \in InBlock : EntryComplete(q)' /\ Holds(q, i)'
    BY <1>1 DEF Owned
  <2>1. PICK q \in InBlock : EntryComplete(q) /\ Holds(q, i)
    BY DEF Owned
  <2>2. EntryComplete(q)' /\ Untouched(q)
    BY <2>1, <1>4
  <2> QED BY <2>1, <2>2 DEF Holds, Untouched
<1> QED BY <1>5, <1>6, <1>7

(* So storing a match keeps the entries and the arena in order.            *)
LEMMA StoreKeeps ==
    ASSUME Types, Ordered, NEW p \in InBlock, StoreMatch(p, Found(block, p)), block' = block
    PROVE  Ordered' /\ EntryTypes' /\ exceeded' \in BOOLEAN
<1>1. /\ Budgeted'
      /\ \/ Kept(p)
         \/ ~ EntryFilled(p) /\ Stored(p)
         \/ ~ EntryFilled(p) /\ TooFull(p)
  BY StoreKinds DEF Ordered
<1>2. CASE Kept(p)
  <2>1. UNCHANGED <<length, dist, same, runCount, runStart, runs, exceeded>>
    BY <1>2 DEF Kept, entries, arena
  <2>2. InBlock' = InBlock
    BY DEF InBlock
  <2>3. Telling'
    BY <2>1, <2>2 DEF Ordered, Telling, Tells, EntryComplete
  <2>4. Apart' /\ Owned'
    BY <2>1, <2>2 DEF Ordered, Apart, Owned, Before, Holds, EntryComplete
  <2> QED BY <1>1, <2>1, <2>3, <2>4 DEF Types, EntryTypes, Ordered
<1>3. CASE ~ EntryFilled(p) /\ Stored(p)
  <2>1. StoredEntry(p)
    BY <1>3, StoredLeaves DEF Ordered
  <2>2. Telling' /\ Apart' /\ Owned'
    BY <2>1, <1>3, TellingStored, ApartStored DEF Ordered
  <2> QED BY <1>1, <2>1, <2>2 DEF StoredEntry, Types, Ordered
<1>4. CASE ~ EntryFilled(p) /\ TooFull(p)
  <2>1. IncompleteEntry(p)
    BY <1>4, TooFullLeaves DEF Ordered
  <2>2. Telling' /\ Apart' /\ Owned'
    BY <2>1, <1>4, IncompleteKeeps DEF Ordered
  <2> QED BY <1>1, <2>1, <2>2 DEF IncompleteEntry, Ordered
<1> QED BY <1>1, <1>2, <1>3, <1>4

(* The state the parsers start from: nothing is cached, nothing was asked. *)
LEMMA InvariantInit == Init => Invariant
<1> SUFFICES ASSUME Init PROVE Invariant
  OBVIOUS
<1>1. Unfilled \in Nat /\ \A p \in InBlock : p \in Positions
  BY FoundType DEF Unfilled, Init, InBlock
<1>2. Types
  BY <1>1 DEF Init, Types
<1>3. \A p \in InBlock : ~ EntryComplete(p)
  BY <1>1 DEF Init, EntryComplete
<1>4. Budgeted
  BY DEF Init, Budgeted
<1>5. Telling /\ Apart
  BY <1>3 DEF Telling, Apart
<1>6. Owned
  BY DEF Init, Owned
<1>7. Building /\ BuiltOrFull
  BY DEF Init, Building, BuiltOrFull
<1>8. AnswersAreFound
  BY DEF Init, AnswersAreFound, NoAnswer
<1> QED BY <1>2, <1>4, <1>5, <1>6, <1>7, <1>8 DEF Invariant, Ordered

(* A cache prepared for another block has no entry of the one before.      *)
LEMMA InitCacheKeeps ==
    ASSUME Invariant, NEW b \in Blocks, NEW budget \in Budgets, InitCache(b, budget)
    PROVE  Invariant'
<1>1. /\ Size(b) \in Nat /\ \A p \in 0..(Size(b) - 1) : p \in Positions
      /\ budget \in Nat /\ Unfilled \in Nat
  BY FoundType, BlocksAssumption, LengthsAssumption DEF Unfilled
<1>2. /\ block' = b /\ runBudget' = budget /\ exceeded' = FALSE
      /\ length' = [p \in Positions |-> IF p < Size(b) THEN Unfilled ELSE length[p]]
      /\ runs' = <<>> /\ capacity' = Smaller(capacity, budget)
      /\ built' = (Size(b) = 0) /\ allComplete' = TRUE /\ at' = 0
      /\ pc' = IF Size(b) = 0 THEN "parse" ELSE "build"
      /\ answer' = NoAnswer
  BY DEF InitCache
<1>3. InBlock' = 0..(Size(b) - 1)
  BY <1>2 DEF InBlock
<1>4. Types'
  <2>1. dist' \in [Positions -> Nat] /\ same' \in [Positions -> Nat]
    BY DEF InitCache, Invariant, Types
  <2>2. runCount' \in [Positions -> Nat] /\ runStart' \in [Positions -> Nat]
    BY DEF InitCache, Invariant, Types
  <2>3. length' \in [Positions -> Nat]
    BY <1>1, <1>2 DEF Invariant, Types
  <2> QED BY <1>2, <2>1, <2>2, <2>3 DEF Types
<1>5. \A p \in InBlock' : ~ EntryFilled(p)' /\ ~ EntryComplete(p)'
  <2> SUFFICES ASSUME NEW p \in InBlock' PROVE ~ EntryFilled(p)' /\ ~ EntryComplete(p)'
    OBVIOUS
  <2>1. p \in Positions /\ p < Size(b)
    BY <1>1, <1>3
  <2>2. length'[p] = Unfilled
    BY <2>1, <1>2
  <2> QED BY <2>2 DEF EntryFilled, EntryComplete
<1>6. Budgeted'
  BY <1>1, <1>2 DEF Invariant, Ordered, Budgeted, Smaller
<1>7. Telling' /\ Apart' /\ Owned'
  BY <1>2, <1>5 DEF Telling, Apart, Owned
<1>8. Building'
  <2>1. RunsBefore(b)[0] = 0
    BY RunsBeforeSums
  <2>2. Len(runs') = 0
    BY <1>2
  <2>3. Size(b) # 0 => 0 \in 0..(Size(b) - 1)
    BY <1>1
  <2>4. \A p \in InBlock' : ~ (p < 0)
    BY <1>3
  <2> HIDE DEF InBlock
  <2> QED BY <1>2, <1>3, <1>5, <2>1, <2>2, <2>3, <2>4 DEF Building
<1>9. BuiltOrFull'
  <2>1. pc' = "parse" => Size(b) = 0
    BY <1>2
  <2>2. Size(b) = 0 => InBlock' = {}
    BY <1>3
  <2> QED BY <1>2, <2>1, <2>2 DEF BuiltOrFull
<1>10. AnswersAreFound'
  BY <1>2 DEF AnswersAreFound, NoAnswer
<1> QED BY <1>4, <1>6, <1>7, <1>8, <1>9, <1>10 DEF Invariant, Ordered

(* A position built has a complete entry, or the budget is exceeded.       *)
LEMMA BuildKeeps ==
    ASSUME Invariant, Build
    PROVE  Invariant'
<1>1. /\ Types /\ Ordered /\ Building /\ BuiltOrFull /\ AnswersAreFound
      /\ pc = "build" /\ at \in InBlock
      /\ block' = block /\ answer' = answer /\ InBlock' = InBlock
      /\ ~ built /\ ~ exceeded /\ allComplete
  BY DEF Invariant, Build, Building, InBlock
<1>2. /\ StoreMatch(at, Found(block, at)) /\ at' = at + 1
      /\ allComplete' = (allComplete /\ length'[at] # Incomplete)
  BY DEF Build
<1>3. Ordered' /\ EntryTypes' /\ exceeded' \in BOOLEAN
  BY <1>1, <1>2, StoreKeeps
<1>4. /\ block \in Blocks /\ Size(block) \in Nat /\ at \in Nat /\ at + 1 \in 1..Size(block)
      /\ Len(runs) = RunsBefore(block)[at]
      /\ \A p \in InBlock : p \in Nat /\ p < Size(block)
  BY <1>1, FoundType DEF Types, InBlock, Building
<1>5. RunsBefore(block)[at + 1] = Len(runs) + Len(RunsOf(Found(block, at)))
  <2>1. at + 1 - 1 = at
    BY <1>4
  <2> QED BY <1>4, <2>1, RunsBeforeSums
<1>6. ~ EntryFilled(at)
  BY <1>1, <1>4 DEF Building
<1>7. /\ runBudget' = runBudget
      /\ Stored(at) \/ TooFull(at)
  <2>1. /\ runBudget' = runBudget
        /\ \/ Kept(at)
           \/ ~ EntryFilled(at) /\ Stored(at)
           \/ ~ EntryFilled(at) /\ TooFull(at)
    BY <1>1, <1>2, StoreKinds DEF Ordered
  <2> QED BY <2>1, <1>6 DEF Kept
<1>8. Types'
  <2>1. pc' \in {"idle", "build", "parse"} /\ built' \in BOOLEAN /\ allComplete' \in BOOLEAN
    BY <1>1 DEF Build, Types
  <2>2. at' \in Nat
    BY <1>2, <1>4
  <2> QED BY <1>1, <1>3, <2>1, <2>2 DEF Types, EntryTypes
<1>9. AnswersAreFound'
  BY <1>1 DEF AnswersAreFound
<1>10. CASE Stored(at)
  <2>1. StoredEntry(at)
    BY <1>1, <1>10, StoredLeaves DEF Ordered
  <2>2. ~ exceeded' /\ allComplete' /\ \A p \in InBlock : p = at => EntryComplete(p)'
    <3>1. exceeded' = exceeded /\ length'[at] # Unfilled /\ length'[at] # Incomplete
      BY <2>1 DEF StoredEntry
    <3>2. \A p \in InBlock : p = at => EntryComplete(p)'
      BY <3>1 DEF EntryComplete
    <3>3. allComplete'
      BY <3>1, <1>1, <1>2
    <3> QED BY <3>1, <3>2, <3>3, <1>1
  <2>3. Len(runs') = RunsBefore(block)[at + 1]
    BY <1>5, <2>1 DEF StoredEntry
  <2>4. \A p \in InBlock : p # at => Untouched(p)
    BY <2>1 DEF StoredEntry
  <2>5. \A p \in InBlock : p < at + 1 => EntryComplete(p)'
    <3> SUFFICES ASSUME NEW p \in InBlock, p < at + 1 PROVE EntryComplete(p)'
      OBVIOUS
    <3>1. CASE p = at
      BY <3>1, <2>2
    <3>2. CASE p # at
      <4>1. p < at
        BY <3>2, <1>4
      <4>2. EntryComplete(p) /\ Untouched(p)
        BY <4>1, <3>2, <2>4, <1>1 DEF Building
      <4> QED BY <4>2 DEF Untouched, EntryComplete
    <3> QED BY <3>1, <3>2
  <2>6. \A p \in InBlock : at + 1 <= p => ~ EntryFilled(p)'
    <3> SUFFICES ASSUME NEW p \in InBlock, at + 1 <= p PROVE ~ EntryFilled(p)'
      OBVIOUS
    <3>1. at <= p /\ p # at
      BY <1>4
    <3>2. ~ EntryFilled(p) /\ Untouched(p)
      BY <3>1, <2>4, <1>1 DEF Building
    <3> QED BY <3>2 DEF Untouched, EntryFilled
  <2>7. CASE at + 1 = Size(block)
    <3>1. pc' = "parse" /\ built'
      BY <2>2, <2>7, <1>1, <1>2 DEF Build
    <3>2. \A p \in InBlock : EntryComplete(p)'
      BY <2>5, <2>7, <1>4
    <3>3. Building' /\ BuiltOrFull'
      BY <3>1, <3>2, <1>1 DEF Building, BuiltOrFull
    <3> QED BY <3>3, <1>3, <1>8, <1>9 DEF Invariant
  <2>8. CASE at + 1 # Size(block)
    <3>1. pc' = "build" /\ ~ built'
      BY <2>2, <2>8, <1>1, <1>2 DEF Build
    <3>2. at + 1 \in InBlock
      BY <2>8, <1>4 DEF InBlock
    <3>3. Building'
      BY <3>1, <3>2, <2>2, <2>3, <2>5, <2>6, <1>1, <1>2 DEF Building
    <3>4. BuiltOrFull'
      BY <3>1 DEF BuiltOrFull
    <3> QED BY <3>3, <3>4, <1>3, <1>8, <1>9 DEF Invariant
  <2> QED BY <2>7, <2>8
<1>11. CASE TooFull(at)
  <2>1. exceeded' /\ Len(runs) + Len(RunsOf(Found(block, at))) > runBudget
    BY <1>11 DEF TooFull
  <2>2. pc' = "parse" /\ ~ built'
    BY <2>1, <1>1 DEF Build
  <2>3. RunsBefore(block)[Size(block)] > runBudget
    <3>1. RunsBefore(block)[at + 1] <= RunsBefore(block)[Size(block)]
      BY <1>4, RunsBeforeGrows
    <3>2. RunsBefore(block)[at + 1] > runBudget
      BY <2>1, <1>5
    <3>3. /\ RunsBefore(block)[at + 1] \in Nat /\ RunsBefore(block)[Size(block)] \in Nat
          /\ runBudget \in Nat
      <4>1. RunsBefore(block) \in [0..Size(block) -> Nat]
        BY <1>4, RunsBeforeSums
      <4> QED BY <4>1, <1>1, <1>4 DEF Ordered, Budgeted
    <3> QED BY <3>1, <3>2, <3>3
  <2>4. Building' /\ BuiltOrFull'
    BY <2>2, <2>3, <1>1, <1>7 DEF Building, BuiltOrFull
  <2> QED BY <2>4, <1>3, <1>8, <1>9 DEF Invariant
<1> QED BY <1>7, <1>10, <1>11

(* A question that only reads changes nothing but the answer.              *)
LEMMA ReadsKeep ==
    ASSUME Invariant, UNCHANGED <<pc, block, at, entries, arena, built, allComplete>>,
           AnswersAreFound'
    PROVE  Invariant'
<1>1. /\ UNCHANGED <<pc, block, at, length, dist, same, runCount, runStart>>
      /\ UNCHANGED <<runs, capacity, runBudget, exceeded, built, allComplete>>
      /\ InBlock' = InBlock
  BY DEF entries, arena, InBlock
<1>2. Types' /\ Budgeted'
  BY <1>1 DEF Invariant, Ordered, Types, Budgeted
<1>3. Telling'
  BY <1>1 DEF Invariant, Ordered, Telling, Tells, EntryComplete
<1>4. Apart' /\ Owned'
  BY <1>1 DEF Invariant, Ordered, Apart, Owned, Before, Holds, EntryComplete
<1>5. Building'
  BY <1>1 DEF Invariant, Building, EntryComplete, EntryFilled
<1>6. BuiltOrFull'
  BY <1>1 DEF Invariant, BuiltOrFull, EntryComplete
<1> QED BY <1>2, <1>3, <1>4, <1>5, <1>6 DEF Invariant, Ordered

(* What the parsers may be told.                                           *)
LEMMA FullAnswer ==
    ASSUME NEW p, block' = block, answer'.op = "full", answer'.pos = p,
           answer'.same = Same(block, p), answer'.length = Longest(Found(block, p)),
           Found(block, p) # <<>> =>
               /\ answer'.dist = Found(block, p)[Len(Found(block, p))]
               /\ answer'.sublen = Found(block, p)
    PROVE  AnswersAreFound'
  BY DEF AnswersAreFound

(* The same for a length the parser chose.                                 *)
LEMMA LengthAnswer ==
    ASSUME NEW p, NEW k, block' = block, answer'.op = "length", answer'.pos = p,
           answer'.asked = k, answer'.length = k,
           answer'.dist = Found(block, p)[k - MinMatch + 1]
    PROVE  AnswersAreFound'
  BY DEF AnswersAreFound

(* What a complete entry gives for the whole match.                        *)
LEMMA EntryGives ==
    ASSUME Invariant, NEW p \in InBlock, EntryComplete(p)
    PROVE  LET d == Found(block, p)
           IN  /\ d \in Seq(Nat \ {0}) /\ Tells(p) /\ length[p] = Longest(d)
               /\ length[p] = NoMatch <=> d = <<>>
               /\ d # <<>> => /\ dist[p] = d[Len(d)] /\ Longest(d) = Len(d) + MinMatch - 1
                              /\ Sublen(RunView(p), length[p]) = d
<1> DEFINE d == Found(block, p)
<1>1. Types /\ Budgeted /\ Tells(p)
  BY DEF Invariant, Ordered, Telling
<1>2. d \in Seq(Nat \ {0})
  BY <1>1, FoundType DEF Types, InBlock
<1>3. /\ length[p] = Longest(d)
      /\ d # <<>> => dist[p] = d[Len(d)]
  BY <1>1 DEF Tells
<1>4. RunView(p) = RunsOf(d)
  BY <1>1, ViewFound
<1> HIDE DEF d
<1>5. /\ d = <<>> => Longest(d) = NoMatch
      /\ d # <<>> => Longest(d) # NoMatch /\ Longest(d) = Len(d) + MinMatch - 1
  BY <1>2, LongestCode
<1>6. d # <<>> => Sublen(RunView(p), length[p]) = d
  BY <1>2, <1>3, <1>4, SublenFound
<1> QED BY <1>1, <1>2, <1>3, <1>5, <1>6 DEF d

(* cachedDistanceForLength gives the distance that a search for the length *)
(* finds, from the entry or from the first run that reaches the length.    *)
LEMMA DistanceGiven ==
    ASSUME Invariant, NEW p \in InBlock, EntryComplete(p),
           NEW k \in MinMatch..Longest(Found(block, p))
    PROVE  DistanceForLength(p, k) = Found(block, p)[k - MinMatch + 1]
<1> DEFINE d == Found(block, p)
           j == k - MinMatch + 1
<1>1. /\ d \in Seq(Nat \ {0}) /\ Tells(p) /\ length[p] = Longest(d)
      /\ d # <<>> => dist[p] = d[Len(d)] /\ Longest(d) = Len(d) + MinMatch - 1
  BY EntryGives
<1>2. RunView(p) = RunsOf(d)
  BY <1>1, ViewFound DEF Invariant, Ordered
<1> HIDE DEF d
<1>3. MinMatch \in Nat /\ MinMatch > 2 /\ Len(d) \in Nat
  BY <1>1, LengthsAssumption
<1>4. k \in Int /\ MinMatch <= k /\ k <= Longest(d)
  BY <1>3 DEF d
<1>5. d # <<>> /\ j \in 1..Len(d)
  <2>1. d # <<>>
    BY <1>3, <1>4 DEF Longest
  <2> QED BY <2>1, <1>1, <1>3, <1>4
<1>6. CASE k = length[p]
  <2>1. j = Len(d)
    BY <1>1, <1>3, <1>5, <1>6
  <2>2. DistanceForLength(p, k) = dist[p]
    BY <1>6 DEF DistanceForLength
  <2> QED BY <2>1, <2>2, <1>1, <1>5 DEF d
<1>7. CASE k # length[p]
  <2>1. j + MinMatch - 1 = k
    BY <1>3, <1>4
  <2>2. DistanceForLength(p, k) = RunDistance(RunsOf(d), j + MinMatch - 1)
    BY <1>7, <1>2, <2>1 DEF DistanceForLength
  <2>3. RunDistance(RunsOf(d), j + MinMatch - 1) = d[j]
    BY <1>1, <1>5, DistanceFound
  <2> QED BY <2>2, <2>3 DEF d
<1> QED BY <1>6, <1>7

(* The questions of the parsers. *)

(* A whole match read from a complete cache is the one a search finds.     *)
LEMMA AskRunsKeeps ==
    ASSUME Invariant, NEW p \in Positions, AskRuns(p)
    PROVE  Invariant'
<1>1. p \in InBlock /\ EntryComplete(p) /\ block' = block
  BY DEF AskRuns, Invariant, BuiltOrFull
<1>2. /\ Tells(p) /\ length[p] = Longest(Found(block, p))
      /\ length[p] = NoMatch <=> Found(block, p) = <<>>
      /\ Found(block, p) # <<>> => /\ dist[p] = Found(block, p)[Len(Found(block, p))]
                                   /\ Sublen(RunView(p), length[p]) = Found(block, p)
  BY <1>1, EntryGives
<1>3. same[p] = Same(block, p)
  BY <1>2 DEF Tells
<1>4. /\ answer'.op = "full" /\ answer'.pos = p /\ answer'.same = same[p]
      /\ answer'.length = length[p] /\ answer'.dist = dist[p]
      /\ length[p] # NoMatch => answer'.sublen = Sublen(RunView(p), length[p])
  BY DEF AskRuns, Answer
<1>5. AnswersAreFound'
  <2>1. Found(block, p) # <<>> => /\ answer'.dist = Found(block, p)[Len(Found(block, p))]
                                  /\ answer'.sublen = Found(block, p)
    BY <1>2, <1>4
  <2>2. answer'.same = Same(block, p) /\ answer'.length = Longest(Found(block, p))
    BY <1>2, <1>3, <1>4
  <2> QED BY <1>1, <1>4, <2>1, <2>2, FullAnswer
<1>6. UNCHANGED <<pc, block, at, entries, arena, built, allComplete>>
  BY DEF AskRuns
<1> QED BY <1>5, <1>6, ReadsKeep

(* So is the distance read for a length.                                   *)
LEMMA AskDistanceKeeps ==
    ASSUME Invariant, NEW p \in Positions, NEW k \in MinMatch..MaxMatch, AskDistance(p, k)
    PROVE  Invariant'
<1>1. p \in InBlock /\ EntryComplete(p) /\ block' = block
      /\ k \in MinMatch..Longest(Found(block, p))
  BY DEF AskDistance, Invariant, BuiltOrFull
<1>2. DistanceForLength(p, k) = Found(block, p)[k - MinMatch + 1]
  BY <1>1, DistanceGiven
<1>3. /\ answer'.op = "length" /\ answer'.pos = p /\ answer'.asked = k /\ answer'.length = k
      /\ answer'.dist = DistanceForLength(p, k)
  BY DEF AskDistance, Answer
<1>4. AnswersAreFound'
  BY <1>1, <1>2, <1>3, LengthAnswer
<1>5. UNCHANGED <<pc, block, at, entries, arena, built, allComplete>>
  BY DEF AskDistance
<1> QED BY <1>4, <1>5, ReadsKeep

(* So is a match read in the compact form.                                 *)
LEMMA AskCompactKeeps ==
    ASSUME Invariant, NEW p \in Positions, AskCompact(p)
    PROVE  Invariant'
<1>1. p \in InBlock /\ EntryComplete(p) /\ block' = block /\ length[p] >= MinMatch
  BY DEF AskCompact
<1>2. /\ length[p] = Longest(Found(block, p))
      /\ Found(block, p) # <<>> => /\ dist[p] = Found(block, p)[Len(Found(block, p))]
                                   /\ Sublen(RunView(p), length[p]) = Found(block, p)
  BY <1>1, EntryGives
<1>3. /\ answer'.op = "full" /\ answer'.pos = p /\ answer'.same = Same(block, p)
      /\ answer'.length = length[p] /\ answer'.dist = dist[p]
      /\ answer'.sublen = Sublen(RunView(p), length[p])
  BY DEF AskCompact, Answer
<1>4. AnswersAreFound'
  BY <1>1, <1>2, <1>3, FullAnswer
<1>5. UNCHANGED <<pc, block, at, entries, arena, built, allComplete>>
  BY DEF AskCompact
<1> QED BY <1>4, <1>5, ReadsKeep

(* A limited search may take an entry only when its match is no longer     *)
(* than the limit, and then they are equal.                                *)
LEMMA FindLimitedKeeps ==
    ASSUME Invariant, NEW p \in Positions, NEW k \in MinMatch..MaxMatch, FindLimited(p, k)
    PROVE  Invariant'
<1> DEFINE d == Found(block, p)
<1>1. p \in InBlock /\ block' = block /\ k \in MinMatch..Longest(d)
  BY DEF FindLimited
<1>2. AnswersAreFound'
  <2>1. CASE EntryComplete(p) /\ length[p] <= k
    <3>1. /\ d \in Seq(Nat \ {0}) /\ length[p] = Longest(d)
          /\ d # <<>> => dist[p] = d[Len(d)] /\ Longest(d) = Len(d) + MinMatch - 1
      BY <1>1, <2>1, EntryGives
    <3>2. /\ answer'.op = "length" /\ answer'.pos = p /\ answer'.asked = k
          /\ answer'.length = length[p] /\ answer'.dist = dist[p]
      BY <2>1 DEF FindLimited, Answer
    <3> HIDE DEF d
    <3>3. MinMatch \in Nat /\ MinMatch > 2 /\ Len(d) \in Nat /\ Longest(d) \in Nat
      BY <3>1, LengthsAssumption, LongestCode
    <3>4. k = Longest(d) /\ MinMatch <= k
      BY <1>1, <2>1, <3>1, <3>3
    <3>5. d # <<>>
      BY <3>3, <3>4 DEF Longest
    <3>6. Len(d) = k - MinMatch + 1
      BY <3>1, <3>3, <3>4, <3>5
    <3>7. answer'.length = k /\ answer'.dist = Found(block, p)[k - MinMatch + 1]
      BY <3>1, <3>2, <3>4, <3>5, <3>6 DEF d
    <3> QED BY <1>1, <3>2, <3>7, LengthAnswer
  <2>2. CASE ~ (EntryComplete(p) /\ length[p] <= k)
    <3>1. /\ answer'.op = "length" /\ answer'.pos = p /\ answer'.asked = k
          /\ answer'.length = k /\ answer'.dist = Found(block, p)[k - MinMatch + 1]
      BY <2>2 DEF FindLimited, Answer
    <3> QED BY <1>1, <3>1, LengthAnswer
  <2> QED BY <2>1, <2>2
<1>3. UNCHANGED <<pc, block, at, entries, arena, built, allComplete>>
  BY DEF FindLimited
<1> QED BY <1>2, <1>3, ReadsKeep

(* A full search, which may store what it finds.                           *)
LEMMA FindFullKeeps ==
    ASSUME Invariant, NEW p \in Positions, FindFull(p)
    PROVE  Invariant'
<1> DEFINE d == Found(block, p)
<1>1. /\ p \in InBlock /\ block' = block /\ pc = "parse" /\ ~ built
      /\ UNCHANGED <<pc, block, at, built, allComplete, rounds>>
  BY DEF FindFull
<1>2. CASE EntryComplete(p)
  <2>1. /\ d \in Seq(Nat \ {0}) /\ length[p] = Longest(d)
        /\ length[p] = NoMatch <=> d = <<>>
        /\ d # <<>> => /\ dist[p] = d[Len(d)]
                       /\ Sublen(RunView(p), length[p]) = d
    BY <1>1, <1>2, EntryGives
  <2>2. /\ answer' = IF length[p] = NoMatch THEN Answer("full", p, MaxMatch, 0, 0, <<>>)
                     ELSE Answer("full", p, MaxMatch, length[p],
                                 DistanceForLength(p, length[p]),
                                 Sublen(RunView(p), length[p]))
        /\ UNCHANGED <<entries, arena>>
    BY <1>2 DEF FindFull
  <2>3. DistanceForLength(p, length[p]) = dist[p]
    BY DEF DistanceForLength
  <2>4. answer'.op = "full" /\ answer'.pos = p /\ answer'.same = Same(block, p)
    BY <2>2 DEF Answer
  <2>5. answer'.length = Longest(d)
    BY <2>1, <2>2 DEF Answer, NoMatch
  <2>6. d # <<>> => answer'.dist = d[Len(d)] /\ answer'.sublen = d
    BY <2>1, <2>2, <2>3 DEF Answer
  <2>7. AnswersAreFound'
    BY <1>1, <2>4, <2>5, <2>6, FullAnswer
  <2> QED BY <1>1, <2>2, <2>7, ReadsKeep
<1>3. CASE ~ EntryComplete(p)
  <2>1. /\ answer' = Answer("full", p, MaxMatch, Longest(d), IF d = <<>> THEN 0 ELSE d[Len(d)], d)
        /\ StoreMatch(p, d)
    BY <1>3 DEF FindFull
  <2>2. AnswersAreFound'
    <3>1. /\ answer'.op = "full" /\ answer'.pos = p /\ answer'.same = Same(block, p)
          /\ answer'.length = Longest(d) /\ answer'.sublen = d
          /\ d # <<>> => answer'.dist = d[Len(d)]
      BY <2>1 DEF Answer
    <3> QED BY <1>1, <3>1, FullAnswer
  <2>3. Ordered' /\ EntryTypes' /\ exceeded' \in BOOLEAN /\ runBudget' = runBudget
    BY <1>1, <2>1, StoreKeeps, StoreKinds DEF Invariant, Ordered
  <2>4. Types'
    BY <1>1, <2>3 DEF Invariant, Types, EntryTypes
  <2>5. Building' /\ BuiltOrFull'
    BY <1>1, <2>3 DEF Invariant, Building, BuiltOrFull
  <2> QED BY <2>2, <2>3, <2>4, <2>5 DEF Invariant
<1> QED BY <1>2, <1>3

(* The end of a block.                                                     *)
LEMMA DoneKeeps ==
    ASSUME Invariant, Done
    PROVE  Invariant'
<1>1. /\ UNCHANGED <<block, at, length, dist, same, runCount, runStart>>
      /\ UNCHANGED <<runs, capacity, runBudget, exceeded, built, allComplete>>
      /\ pc' = "idle" /\ answer' = NoAnswer /\ InBlock' = InBlock
  BY DEF Done, entries, arena, InBlock
<1>2. Types' /\ Budgeted'
  BY <1>1 DEF Invariant, Ordered, Types, Budgeted
<1>3. Telling'
  BY <1>1 DEF Invariant, Ordered, Telling, Tells, EntryComplete
<1>4. Apart' /\ Owned'
  BY <1>1 DEF Invariant, Ordered, Apart, Owned, Before, Holds, EntryComplete
<1>5. Building' /\ BuiltOrFull' /\ AnswersAreFound'
  BY <1>1 DEF Building, BuiltOrFull, AnswersAreFound, NoAnswer
<1> QED BY <1>2, <1>3, <1>4, <1>5 DEF Invariant, Ordered

(* Every step of building and asking keeps the invariant.                  *)
LEMMA InvariantStep == Invariant /\ [Next]_vars => Invariant'
<1> SUFFICES ASSUME Invariant, [Next]_vars PROVE Invariant'
  OBVIOUS
<1>1. CASE \E b \in Blocks, budget \in Budgets : InitCache(b, budget)
  BY <1>1, InitCacheKeeps
<1>2. CASE Build
  BY <1>2, BuildKeeps
<1>3. ASSUME NEW p \in Positions, AskRuns(p) \/ FindFull(p) \/ AskCompact(p) PROVE Invariant'
  BY <1>3, AskRunsKeeps, FindFullKeeps, AskCompactKeeps
<1>4. ASSUME NEW p \in Positions, NEW k \in MinMatch..MaxMatch,
             AskDistance(p, k) \/ FindLimited(p, k)
      PROVE  Invariant'
  BY <1>4, AskDistanceKeeps, FindLimitedKeeps
<1>5. CASE Done
  BY <1>5, DoneKeeps
<1>6. CASE UNCHANGED vars
  <2>1. AnswersAreFound'
    BY <1>6 DEF vars, Invariant, AnswersAreFound
  <2>2. UNCHANGED <<pc, block, at, entries, arena, built, allComplete>>
    BY <1>6 DEF vars
  <2> QED BY <2>1, <2>2, ReadsKeep
<1> QED BY <1>1, <1>2, <1>3, <1>4, <1>5, <1>6 DEF Next

-----------------------------------------------------------------------------
(* The results. *)

(* In every state the entries tell what a search finds, their runs lie     *)
(* apart in an arena within the budget, and the parsers were told so       *)
(* (storeMatch, tryGetFromLongestMatchCache, cachedDistanceForLength).     *)
THEOREM InvariantHolds == Spec => []Invariant
<1>1. Init => Invariant
  BY InvariantInit
<1>2. Invariant /\ [Next]_vars => Invariant'
  BY InvariantStep
<1> QED BY <1>1, <1>2, PTL DEF Spec

(* The cache, its compact form, a distance kept or a new search: what the  *)
(* parsers get is what a search at the position finds, however many blocks *)
(* were parsed with the cache before.                                      *)
THEOREM ParsersGetFound == Spec => []AnswersAreFound
<1>1. Invariant => AnswersAreFound
  BY DEF Invariant
<1> QED BY <1>1, InvariantHolds, PTL

(* The arena is never larger than the budget of its block                  *)
(* (ensureRunCapacity, initWithRunBudget).                                 *)
THEOREM ArenaHasCeiling == Spec => []WithinBudget
<1>1. Invariant => WithinBudget
  BY DEF Invariant, Ordered, Budgeted, WithinBudget
<1> QED BY <1>1, InvariantHolds, PTL

(* Each run of the arena belongs to one complete entry                     *)
(* (storeRunsFromSublen takes back what does not fit).                     *)
THEOREM RunsAreOwned == Spec => []NoOrphanRuns
<1>1. Invariant => NoOrphanRuns
  <2> SUFFICES ASSUME Invariant PROVE NoOrphanRuns
    OBVIOUS
  <2> DEFINE held(p) == {runStart[p] + n : n \in 1..runCount[p]}
             complete == {p \in InBlock : EntryComplete(p)}
  <2>1. Len(runs) \in Nat
    BY RunFields DEF Invariant, Ordered, Budgeted
  <2>2. ASSUME NEW p \in complete
        PROVE  /\ \A i : i \in held(p) <=> i \in Int /\ Holds(p, i)
               /\ runStart[p] \in Nat /\ runCount[p] \in Nat
               /\ runStart[p] + runCount[p] <= Len(runs)
    <3>1. p \in Positions
      BY FoundType DEF Invariant, Types, InBlock
    <3>2. runStart[p] \in Nat /\ runCount[p] \in Nat
      BY <3>1 DEF Invariant, Types
    <3>3. runStart[p] + runCount[p] <= Len(runs)
      BY DEF Invariant, Ordered, Telling, Tells
    <3>4. ASSUME NEW i \in Int, Holds(p, i) PROVE i \in held(p)
      <4>1. i - runStart[p] \in 1..runCount[p] /\ i = runStart[p] + (i - runStart[p])
        BY <3>2, <3>4 DEF Holds
      <4> QED BY <4>1
    <3>5. ASSUME NEW i \in held(p) PROVE i \in Int /\ Holds(p, i)
      BY <3>2 DEF Holds
    <3> QED BY <3>2, <3>3, <3>4, <3>5
  <2>3. \A p \in complete : p \in InBlock /\ EntryComplete(p)
    OBVIOUS
  <2>4. \A p \in InBlock : EntryComplete(p) => p \in complete
    OBVIOUS
  <2> HIDE DEF held, complete
  <2>5. UNION {held(p) : p \in complete} = 1..Len(runs)
    <3>1. ASSUME NEW p \in complete, NEW i \in held(p) PROVE i \in 1..Len(runs)
      BY <2>1, <2>2 DEF Holds
    <3>2. ASSUME NEW i \in 1..Len(runs) PROVE \E p \in complete : i \in held(p)
      <4>1. PICK p \in InBlock : EntryComplete(p) /\ Holds(p, i)
        BY DEF Invariant, Ordered, Owned
      <4> QED BY <4>1, <2>2, <2>4
    <3> QED BY <3>1, <3>2
  <2>6. ASSUME NEW p \in complete, NEW q \in complete, p # q PROVE held(p) \cap held(q) = {}
    <3>1. Before(p, q) \/ Before(q, p)
      BY <2>3, <2>6 DEF Invariant, Ordered, Apart
    <3>2. ASSUME NEW i \in held(p), i \in held(q) PROVE FALSE
      BY <2>2, <3>1, <3>2 DEF Holds, Before
    <3> QED BY <3>2
  <2> QED BY <2>5, <2>6 DEF NoOrphanRuns, held, complete
<1> QED BY <1>1, InvariantHolds, PTL

(* A cache that counts as built has an entry for every position, and       *)
(* building gives up only on a block whose runs exceed the budget          *)
(* (buildLongestMatchCacheWithRunBudget).                                  *)
THEOREM CacheIsWhole == Spec => []BuiltOrFull
<1>1. Invariant => BuiltOrFull
  BY DEF Invariant
<1> QED BY <1>1, InvariantHolds, PTL

=============================================================================
