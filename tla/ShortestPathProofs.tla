------------------------- MODULE ShortestPathProofs -------------------------
(***************************************************************************)
(* Proofs about an iteration of the optimal parser, for any blocks and     *)
(* codes.  The first part is about data: the matches of a byte, what their *)
(* runs say, what one byte does to the arrays, what the step through a     *)
(* long run does.  The second is the inductive invariant of the search and *)
(* of the path that is traced and followed.                                *)
(***************************************************************************)
EXTENDS ShortestPath, InductionFacts, SequenceTheorems

(* The least of a set of natural numbers.                                  *)
LEMMA LeastOf ==
    ASSUME NEW S \in SUBSET Nat, S # {}
    PROVE  Min(S) \in S /\ \A y \in S : Min(S) <= y
<1>1. \E x \in S : \A y \in S : x <= y
  BY LeastElement
<1> QED BY <1>1 DEF Min

(* The greatest of one that is bounded.                                    *)
LEMMA GreatestOf ==
    ASSUME NEW n \in Nat, NEW S \in SUBSET (0..n), S # {}
    PROVE  Max(S) \in S /\ \A y \in S : y <= Max(S)
<1> DEFINE T == {m \in 0..n : n - m \in S}
<1>1. T \in SUBSET Nat /\ T # {}
  <2>1. PICK s \in S : TRUE
    OBVIOUS
  <2>2. n - s \in 0..n /\ n - (n - s) = s
    OBVIOUS
  <2> QED BY <2>2
<1>2. PICK m \in T : \A t \in T : m <= t
  BY <1>1, LeastElement
<1>3. \A y \in S : y <= n - m
  <2> SUFFICES ASSUME NEW y \in S PROVE y <= n - m
    OBVIOUS
  <2>1. n - y \in 0..n /\ n - (n - y) = y /\ y \in 0..n
    OBVIOUS
  <2>2. n - y \in T
    BY <2>1
  <2>3. m <= n - y /\ m \in 0..n
    BY <1>2, <2>2
  <2> HIDE DEF T
  <2> QED BY <2>1, <2>3
<1>4. \E x \in S : \A y \in S : x >= y
  BY <1>2, <1>3
<1> QED BY <1>4 DEF Max

-----------------------------------------------------------------------------
(* A block has bytes, and they have costs.                                 *)
LEMMA BlockSizes ==
    ASSUME NEW b \in Blocks
    PROVE  /\ BlockSize(b) \in Nat /\ BlockSize(b) # 0 /\ b.start \in Nat
           /\ Len(b.array) \in Nat /\ BlockSize(b) + b.start = Len(b.array)
<1>1. b.array \in Seq(Nat) /\ b.start \in 0..(Len(b.array) - 1)
  BY CostAssumption
<1>2. Len(b.array) \in Nat
  BY <1>1
<1> QED BY <1>1, <1>2 DEF BlockSize

LEMMA LiteralCosts ==
    ASSUME NEW b \in Blocks, NEW j \in 0..(BlockSize(b) - 1)
    PROVE  b.model.literal[Byte(b, j)] \in 0..MaxCost
<1>1. b.start + j + 1 \in 1..Len(b.array)
  BY BlockSizes
<1> QED BY <1>1, CostAssumption DEF Byte

-----------------------------------------------------------------------------
(* The bytes that agree: k of them, if the first k do.                     *)
LEMMA CommonIs ==
    ASSUME NEW b \in Blocks, NEW j \in Ends(b), NEW d
    PROVE  /\ Common(b, j, d) \in 0..(BlockSize(b) - j)
           /\ \A l \in 0..(Common(b, j, d) - 1) : Byte(b, j + l) = Byte(b, j - d + l)
<1> DEFINE n == BlockSize(b) - j
           S == {l \in 0..n : l = n \/ Byte(b, j + l) # Byte(b, j - d + l)}
<1>1. n \in Nat
  BY BlockSizes DEF Ends
<1>2. Common(b, j, d) = Min(S)
  BY DEF Common
<1>3. S \in SUBSET Nat /\ S # {}
  BY <1>1
<1>4. Min(S) \in S /\ \A y \in S : Min(S) <= y
  BY <1>3, LeastOf
<1>5. PICK m : m = Min(S)
  OBVIOUS
<1>6. m \in 0..n /\ \A y \in S : m <= y
  BY <1>4, <1>5
<1>7. \A l \in 0..(m - 1) : Byte(b, j + l) = Byte(b, j - d + l)
  <2> SUFFICES ASSUME NEW l \in 0..(m - 1), Byte(b, j + l) # Byte(b, j - d + l) PROVE FALSE
    OBVIOUS
  <2>1. l \in 0..n /\ l < m
    BY <1>1, <1>6
  <2>2. l \in S
    BY <2>1
  <2> QED BY <1>6, <2>1, <2>2
<1> QED BY <1>2, <1>5, <1>6, <1>7

LEMMA CommonAtLeast ==
    ASSUME NEW b \in Blocks, NEW j \in Ends(b), NEW d, NEW k \in Nat,
           k <= BlockSize(b) - j,
           \A l \in 0..(k - 1) : Byte(b, j + l) = Byte(b, j - d + l)
    PROVE  Common(b, j, d) >= k
<1> DEFINE n == BlockSize(b) - j
           S == {l \in 0..n : l = n \/ Byte(b, j + l) # Byte(b, j - d + l)}
<1>1. n \in Nat
  BY BlockSizes DEF Ends
<1>2. Common(b, j, d) = Min(S)
  BY DEF Common
<1>3. S \in SUBSET Nat /\ S # {}
  BY <1>1
<1>4. Min(S) \in S
  BY <1>3, LeastOf
<1>5. \A l \in S : l >= k
  BY <1>1
<1> QED BY <1>2, <1>4, <1>5

-----------------------------------------------------------------------------
(* The longest match is one, and so is every shorter length.               *)
LEMMA LongestIs ==
    ASSUME NEW b \in Blocks, NEW j \in Ends(b)
    PROVE  /\ Longest(b, j) \in 0..MaxMatch
           /\ Longest(b, j) # 0 => Longest(b, j) >= MinMatch /\ Distances(b, j, Longest(b, j)) # {}
           /\ \A k \in MinMatch..MaxMatch : Distances(b, j, k) # {} => k <= Longest(b, j)
<1> DEFINE S == {0} \cup {k \in MinMatch..MaxMatch : Distances(b, j, k) # {}}
<1>1. S \in SUBSET (0..MaxMatch) /\ S # {} /\ MaxMatch \in Nat
  BY LengthAssumption
<1>2. Max(S) \in S /\ \A y \in S : y <= Max(S)
  BY <1>1, GreatestOf
<1>3. Longest(b, j) = Max(S)
  BY DEF Longest
<1>4. \A k \in MinMatch..MaxMatch : k \in Nat /\ k >= MinMatch
  BY LengthAssumption
<1> QED BY <1>1, <1>2, <1>3, <1>4

LEMMA DistanceIs ==
    ASSUME NEW b \in Blocks, NEW j \in Ends(b), NEW k \in MinMatch..Longest(b, j)
    PROVE  /\ Distance(b, j, k) \in 1..(b.start + j)
           /\ Common(b, j, Distance(b, j, k)) >= k
           /\ k \in MinMatch..MaxMatch /\ k <= BlockSize(b) - j
<1>1. /\ Longest(b, j) \in 0..MaxMatch /\ MinMatch \in Nat /\ MinMatch > 1 /\ MaxMatch \in Nat
      /\ j \in Nat /\ b.start \in Nat
  BY LongestIs, LengthAssumption, BlockSizes DEF Ends
<1>2. Distances(b, j, Longest(b, j)) # {} /\ k \in MinMatch..MaxMatch
  <2>1. Longest(b, j) # 0
    BY <1>1
  <2> QED BY <1>1, <2>1, LongestIs
<1>3. PICK d \in 1..(b.start + j) : Common(b, j, d) >= Longest(b, j)
  BY <1>2 DEF Distances
<1>4. Common(b, j, d) \in 0..(BlockSize(b) - j) /\ BlockSize(b) - j \in Nat
  BY CommonIs, BlockSizes DEF Ends
<1>5. d \in Distances(b, j, k) /\ k <= BlockSize(b) - j
  <2>1. Common(b, j, d) >= k
    BY <1>1, <1>3, <1>4
  <2> QED BY <1>1, <1>4, <2>1 DEF Distances
<1>6. Distances(b, j, k) \in SUBSET Nat
  BY <1>1 DEF Distances
<1>7. Distance(b, j, k) \in Distances(b, j, k)
  BY <1>5, <1>6, LeastOf DEF Distance
<1> QED BY <1>2, <1>5, <1>7 DEF Distances

(* A token leads to a later byte of the block, at a cost.                  *)
LEMMA TokenIs ==
    ASSUME NEW b \in Blocks, NEW j \in 0..(BlockSize(b) - 1), NEW k \in TokensAt(b, j)
    PROVE  /\ TokenCost(b, j, k) \in 0..MaxCost
           /\ k \in Nat /\ 1 <= k /\ k <= MaxMatch /\ j + k \in Ends(b)
<1>1. /\ MinMatch \in Nat /\ MinMatch > 1 /\ MaxMatch \in Nat /\ MinMatch < MaxMatch
      /\ BlockSize(b) \in Nat /\ j \in Nat /\ j \in Ends(b)
  BY LengthAssumption, BlockSizes DEF Ends
<1>2. CASE k = 1
  BY <1>1, <1>2, LiteralCosts DEF TokenCost, Ends
<1>3. CASE k \in MinMatch..Longest(b, j)
  <2>1. /\ Distance(b, j, k) \in 1..(b.start + j) /\ k \in MinMatch..MaxMatch
        /\ k <= BlockSize(b) - j
    BY <1>1, <1>3, DistanceIs
  <2>2. b.start + j < Len(b.array) /\ b.start \in Nat /\ Len(b.array) \in Nat
    BY BlockSizes
  <2>3. Distance(b, j, k) \in 1..Len(b.array)
    BY <1>1, <2>1, <2>2
  <2>4. /\ b.model.length[k] \in Nat /\ b.model.distance[Distance(b, j, k)] \in Nat
        /\ b.model.length[k] + b.model.distance[Distance(b, j, k)] <= MaxCost
    BY <2>1, <2>3, CostAssumption
  <2>5. k \in Nat /\ k # 1 /\ 1 <= k /\ k <= MaxMatch
    BY <1>1, <2>1
  <2>6. j + k \in Ends(b)
    BY <1>1, <2>1, <2>5 DEF Ends
  <2>7. MaxCost \in Nat
    BY CostAssumption
  <2> QED BY <2>4, <2>5, <2>6, <2>7 DEF TokenCost
<1> QED BY <1>2, <1>3 DEF TokensAt

-----------------------------------------------------------------------------
Run == [end: Nat, dist: Nat]

LEMMA RunFields ==
    ASSUME NEW r \in Seq(Run)
    PROVE  Len(r) \in Nat /\ \A m \in 1..Len(r) : r[m].end \in Nat
<1>1. Len(r) \in Nat /\ \A m \in 1..Len(r) : r[m] \in Run
  OBVIOUS
<1> QED BY <1>1 DEF Run

(* The runs of a match up to a length, as Runs builds them.                *)
RunsUpTo(b, j, f) ==
    /\ f \in [0..Longest(b, j) -> Seq(Run)] /\ f[0] = <<>>
    /\ \A n \in 1..Longest(b, j) :
          f[n] = IF n < MinMatch THEN <<>>
                 ELSE IF n < Longest(b, j) /\ Distance(b, j, n + 1) = Distance(b, j, n)
                      THEN f[n - 1]
                      ELSE Append(f[n - 1], [end |-> n, dist |-> Distance(b, j, n)])

(* Runs is defined: its recursion has a value.                             *)
LEMMA RunsDefined ==
    ASSUME NEW b \in Blocks, NEW j \in Ends(b)
    PROVE  \E f : RunsUpTo(b, j, f) /\ Runs(b, j) = f[Longest(b, j)]
<1> DEFINE n == Longest(b, j)
           next(k, r) == IF k < MinMatch THEN <<>>
                         ELSE IF k < n /\ Distance(b, j, k + 1) = Distance(b, j, k) THEN r
                         ELSE Append(r, [end |-> k, dist |-> Distance(b, j, k)])
           step == [k \in 1..n |-> [r \in Seq(Run) |-> next(k, r)]]
           body(f) == [k \in 0..n |-> next(k, f[k - 1])]
           g == CHOOSE f : f = body(f)
<1>0. n \in Nat /\ <<>> \in Seq(Run) /\ MinMatch \in Nat /\ 1 < MinMatch
  BY LongestIs, LengthAssumption
<1>1. Runs(b, j) = g[n]
  BY DEF Runs
<1>2. ASSUME NEW k \in 1..n, NEW r \in Seq(Run) PROVE next(k, r) \in Seq(Run)
  <2>1. CASE k < MinMatch
    BY <2>1, <1>0
  <2>2. CASE k >= MinMatch
    <3>1. k \in MinMatch..Longest(b, j)
      BY <2>2, <1>0
    <3>2. Distance(b, j, k) \in 1..(b.start + j) /\ b.start + j \in Nat
      BY <3>1, DistanceIs, BlockSizes DEF Ends
    <3>3. [end |-> k, dist |-> Distance(b, j, k)] \in Run
      BY <3>2 DEF Run
    <3> QED BY <3>3, <2>2, <1>0
  <2> QED BY <2>1, <2>2, <1>0
<1>3. \A f : next(0, f) = <<>>
  BY <1>0
<1> HIDE DEF n, next, g
<1>4. step \in [1..n -> [Seq(Run) -> Seq(Run)]]
  BY <1>2
<1>5. \A k \in 1..n : \A r \in Seq(Run) : step[k][r] = next(k, r)
  OBVIOUS
<1> HIDE DEF step
<1>6. PICK f : IsRecursion(f, Seq(Run), n, <<>>, step)
  <2>1. HasRecursion(Seq(Run), n, <<>>, step)
    BY <1>0, <1>4, RecursionDefines
  <2> QED BY <2>1 DEF HasRecursion
<1>7. \A k \in 1..n : f[k] = next(k, f[k - 1])
  <2> SUFFICES ASSUME NEW k \in 1..n PROVE f[k] = next(k, f[k - 1])
    OBVIOUS
  <2>1. f[k - 1] \in Seq(Run) /\ f[k] = step[k][f[k - 1]]
    BY <1>6, <1>0 DEF IsRecursion
  <2> QED BY <2>1, <1>5
<1>8. f = body(f)
  <2>1. \A k \in 0..n : f[k] = next(k, f[k - 1])
    <3>1. f[0] = next(0, f[0 - 1])
      BY <1>3, <1>6 DEF IsRecursion
    <3> QED BY <3>1, <1>7, <1>0
  <2> QED BY <2>1, <1>6 DEF IsRecursion
<1>9. g = body(g)
  BY <1>8 DEF g
<1>10. g[0] = <<>> /\ \A k \in 1..n : g[k] = next(k, g[k - 1])
  BY <1>9, <1>0, <1>3
<1>11. \A k \in 0..n : g[k] \in Seq(Run)
  BY <1>0, <1>2, <1>10, RecursionStaysIn
<1>12. g \in [0..n -> Seq(Run)]
  BY <1>9, <1>11
<1>13. RunsUpTo(b, j, g)
  BY <1>10, <1>12 DEF RunsUpTo, next, n
<1> QED BY <1>1, <1>13 DEF n

(* Run n is the first one that reaches length l, and has its distance.     *)
Reaches(b, j, r, l, n) ==
    /\ n \in 1..Len(r) /\ r[n].end >= l /\ r[n].dist = Distance(b, j, l)
    /\ \A m \in 1..(n - 1) : MinMatch <= r[m].end /\ r[m].end < l

(* What the runs up to length k say of the lengths up to it.               *)
SaySoFar(b, j, r, k) ==
    /\ \A m \in 1..Len(r) : MinMatch <= r[m].end /\ r[m].end <= k
    /\ \A l \in MinMatch..k :
          \/ \E n \in 1..Len(r) : Reaches(b, j, r, l, n)
          \/ /\ k < Longest(b, j) /\ Distance(b, j, l) = Distance(b, j, k + 1)
             /\ \A m \in 1..Len(r) : r[m].end < l

(* One length more: either the run goes on, or it ends and is appended.    *)
LEMMA SayNext ==
    ASSUME NEW b, NEW j, NEW k \in Nat, NEW r \in Seq(Run), SaySoFar(b, j, r, k),
           Distance(b, j, k + 1) \in Nat, MinMatch <= k + 1, NEW s,
           s = IF k + 1 < Longest(b, j) /\ Distance(b, j, k + 2) = Distance(b, j, k + 1) THEN r
               ELSE Append(r, [end |-> k + 1, dist |-> Distance(b, j, k + 1)])
    PROVE  SaySoFar(b, j, s, k + 1)
<1>0. Len(r) \in Nat /\ (\A m \in 1..Len(r) : r[m].end \in Nat) /\ MinMatch \in Nat
  BY RunFields, LengthAssumption
<1>1. CASE s = r /\ k + 1 < Longest(b, j) /\ Distance(b, j, k + 2) = Distance(b, j, k + 1)
  <2>1. \A m \in 1..Len(r) : MinMatch <= r[m].end /\ r[m].end <= k + 1 /\ r[m].end < k + 1
    BY <1>0 DEF SaySoFar
  <2>2. ASSUME NEW l \in MinMatch..(k + 1)
        PROVE  \/ \E n \in 1..Len(s) : Reaches(b, j, s, l, n)
               \/ /\ Distance(b, j, l) = Distance(b, j, k + 2)
                  /\ \A m \in 1..Len(s) : s[m].end < l
    <3>1. CASE l \in MinMatch..k
      BY <3>1, <1>1 DEF SaySoFar
    <3>2. CASE l = k + 1
      BY <3>2, <1>1, <2>1
    <3>3. l \in MinMatch..k \/ l = k + 1
      BY <1>0
    <3> QED BY <3>1, <3>2, <3>3
  <2>3. (k + 1) + 1 = k + 2
    OBVIOUS
  <2> QED BY <2>1, <2>2, <2>3, <1>1 DEF SaySoFar
<1>2. CASE s = Append(r, [end |-> k + 1, dist |-> Distance(b, j, k + 1)])
  <2> DEFINE v == [end |-> k + 1, dist |-> Distance(b, j, k + 1)]
  <2>1. /\ Len(s) = Len(r) + 1 /\ \A m \in 1..Len(r) : s[m] = r[m]
        /\ s[Len(r) + 1].end = k + 1 /\ s[Len(r) + 1].dist = Distance(b, j, k + 1)
    <3>1. v \in Run
      BY DEF Run
    <3> HIDE DEF v
    <3>2. Len(s) = Len(r) + 1 /\ (\A m \in 1..Len(r) : s[m] = r[m]) /\ s[Len(r) + 1] = v
      BY <3>1, <1>2 DEF v
    <3> QED BY <3>2 DEF v
  <2> HIDE DEF v
  <2>2. \A m \in 1..Len(s) : m \in 1..Len(r) \/ m = Len(r) + 1
    BY <2>1, <1>0
  <2>3. \A m \in 1..Len(s) : MinMatch <= s[m].end /\ s[m].end <= k + 1
    BY <2>1, <2>2, <1>0 DEF SaySoFar
  <2>4. ASSUME NEW l \in MinMatch..(k + 1) PROVE \E n \in 1..Len(s) : Reaches(b, j, s, l, n)
    <3>1. ASSUME NEW n \in 1..Len(r), Reaches(b, j, r, l, n) PROVE Reaches(b, j, s, l, n)
      <4>1. n \in 1..Len(s) /\ s[n] = r[n] /\ \A m \in 1..(n - 1) : s[m] = r[m]
        BY <3>1, <2>1, <1>0
      <4> QED BY <4>1, <3>1 DEF Reaches
    <3>2. ASSUME Distance(b, j, l) = Distance(b, j, k + 1), \A m \in 1..Len(r) : r[m].end < l
          PROVE  Reaches(b, j, s, l, Len(r) + 1)
      <4>1. Len(r) + 1 \in 1..Len(s) /\ \A m \in 1..(Len(r) + 1 - 1) : s[m] = r[m] /\ m \in 1..Len(r)
        BY <2>1, <1>0
      <4>2. s[Len(r) + 1].end >= l
        BY <2>1, <1>0
      <4> QED BY <4>1, <4>2, <3>2, <2>1 DEF Reaches, SaySoFar
    <3>3. CASE l = k + 1
      <4>1. \A m \in 1..Len(r) : r[m].end < l
        BY <3>3, <1>0 DEF SaySoFar
      <4> QED BY <4>1, <3>2, <3>3, <2>1, <1>0
    <3>4. CASE l \in MinMatch..k
      <4>1. CASE \E n \in 1..Len(r) : Reaches(b, j, r, l, n)
        BY <4>1, <3>1, <2>1, <1>0
      <4>2. CASE Distance(b, j, l) = Distance(b, j, k + 1) /\ \A m \in 1..Len(r) : r[m].end < l
        BY <4>2, <3>2, <2>1, <1>0
      <4> QED BY <4>1, <4>2, <3>4 DEF SaySoFar
    <3>5. l = k + 1 \/ l \in MinMatch..k
      BY <1>0
    <3> QED BY <3>3, <3>4, <3>5
  <2> QED BY <2>3, <2>4 DEF SaySoFar
<1> QED BY <1>1, <1>2

(* The runs of a match say its distance for every length.                  *)
LEMMA RunsSay ==
    ASSUME NEW b \in Blocks, NEW j \in Ends(b)
    PROVE  Runs(b, j) \in Seq(Run) /\ SaySoFar(b, j, Runs(b, j), Longest(b, j))
<1>1. PICK f : RunsUpTo(b, j, f) /\ Runs(b, j) = f[Longest(b, j)]
  BY RunsDefined
<1> DEFINE n == Longest(b, j)
           S == {k \in 0..n : SaySoFar(b, j, f[k], k)}
<1>2. n \in Nat /\ MinMatch \in Nat /\ 1 < MinMatch /\ f[0] = <<>> /\ f \in [0..n -> Seq(Run)]
  BY <1>1, LongestIs, LengthAssumption DEF RunsUpTo
<1>3. 0 \in S
  BY <1>2 DEF SaySoFar
<1>4. ASSUME NEW k \in 0..(n - 1), k \in S PROVE k + 1 \in S
  <2>1. k + 1 \in 1..n /\ k \in 0..n /\ (k + 1) - 1 = k /\ (k + 1) + 1 = k + 2 /\ k + 1 \in 0..n
    BY <1>2
  <2>2. f[k] \in Seq(Run) /\ SaySoFar(b, j, f[k], k)
    <3>1. SaySoFar(b, j, f[k], k)
      BY <1>4 DEF S
    <3> HIDE DEF n
    <3> QED BY <3>1, <2>1, <1>2
  <2>3. f[k + 1] = IF k + 1 < MinMatch THEN <<>>
                   ELSE IF k + 1 < n /\ Distance(b, j, k + 2) = Distance(b, j, k + 1) THEN f[k]
                   ELSE Append(f[k], [end |-> k + 1, dist |-> Distance(b, j, k + 1)])
    BY <2>1, <1>1 DEF RunsUpTo
  <2>4. SaySoFar(b, j, f[k + 1], k + 1)
    <3>1. CASE k + 1 < MinMatch
      <4>1. f[k + 1] = <<>> /\ Len(<<>>) = 0
        BY <2>3, <3>1
      <4> QED BY <4>1, <3>1, <1>2 DEF SaySoFar
    <3>2. CASE MinMatch <= k + 1
      <4>1. k + 1 \in MinMatch..Longest(b, j)
        BY <3>2, <2>1, <1>2
      <4>2. Distance(b, j, k + 1) \in Nat
        <5>1. Distance(b, j, k + 1) \in 1..(b.start + j) /\ b.start + j \in Nat
          BY <4>1, DistanceIs, BlockSizes DEF Ends
        <5> QED BY <5>1
      <4>3. k \in Nat /\ ~ (k + 1 < MinMatch)
        BY <3>2, <1>2
      <4> QED BY <2>2, <2>3, <4>2, <4>3, <3>2, SayNext
    <3> QED BY <3>1, <3>2, <1>2
  <2> QED BY <2>1, <2>4
<1> HIDE DEF S
<1>5. n \in S
  <2>1. 0..n \subseteq S
    BY <1>2, <1>3, <1>4, SetInductionUpTo
  <2>2. n \in 0..n
    BY <1>2
  <2> QED BY <2>1, <2>2
<1> HIDE DEF n
<1>6. SaySoFar(b, j, f[n], n) /\ n \in 0..n
  BY <1>5 DEF S
<1> QED BY <1>1, <1>2, <1>6 DEF n

(* An answer says the distance of every length, and where its run starts.  *)
Speaks(b, j, runs, k) ==
    LET n == RunOf(runs, k)
    IN  /\ runs[n].dist = Distance(b, j, k) /\ runs[n].end \in Nat /\ runs[n].end >= k
        /\ RunStart(runs, n) \in MinMatch..k

LEMMA ReachesSpeaks ==
    ASSUME NEW b, NEW j, NEW k \in Nat, k >= MinMatch, NEW r \in Seq(Run), NEW n \in Nat,
           Reaches(b, j, r, k, n)
    PROVE  Speaks(b, j, r, k)
<1> DEFINE S == {m \in 1..Len(r) : r[m].end >= k}
<1>1. Len(r) \in Nat /\ (\A m \in 1..Len(r) : r[m].end \in Nat) /\ MinMatch \in Nat
  BY RunFields, LengthAssumption
<1>2. n \in S /\ \A m \in S : n <= m
  <2>1. n \in S
    BY DEF Reaches
  <2>2. ASSUME NEW m \in S, m < n PROVE FALSE
    <3>1. m \in 1..(n - 1)
      BY <2>2, <1>1
    <3>2. r[m].end < k /\ r[m].end >= k /\ r[m].end \in Nat
      BY <3>1, <1>1 DEF Reaches
    <3> QED BY <3>2
  <2> QED BY <2>1, <2>2, <1>1
<1>3. S \in SUBSET Nat /\ S # {}
  BY <1>1, <1>2
<1>4. Min(S) \in S /\ \A y \in S : Min(S) <= y
  BY <1>3, LeastOf
<1>5. RunOf(r, k) = n
  <2>1. Min(S) <= n /\ n <= Min(S) /\ Min(S) \in Nat /\ n \in Nat
    BY <1>2, <1>3, <1>4
  <2> HIDE DEF S
  <2>2. Min(S) = n
    BY <2>1
  <2> QED BY <2>2 DEF RunOf, S
<1>6. RunStart(r, n) \in MinMatch..k
  <2>1. CASE n = 1
    BY <2>1, <1>1 DEF RunStart
  <2>2. CASE n # 1
    <3>1. n - 1 \in 1..(n - 1) /\ n - 1 \in 1..Len(r)
      BY <2>2, <1>1 DEF Reaches
    <3>2. MinMatch <= r[n - 1].end /\ r[n - 1].end < k /\ r[n - 1].end \in Nat
      BY <3>1, <1>1 DEF Reaches
    <3>3. r[n - 1].end + 1 \in MinMatch..k
      BY SMTT(30), <3>2, <1>1
    <3> QED BY <3>3, <2>2 DEF RunStart
  <2> QED BY <2>1, <2>2
<1> QED BY <1>1, <1>5, <1>6 DEF Speaks, Reaches

LEMMA AnswersSpeak ==
    ASSUME NEW b \in Blocks, NEW j \in Ends(b), NEW runs \in Answers(b, j),
           NEW k \in MinMatch..Longest(b, j)
    PROVE  Speaks(b, j, runs, k)
<1> DEFINE r == Runs(b, j)
<1>1. r \in Seq(Run) /\ SaySoFar(b, j, r, Longest(b, j)) /\ Len(r) \in Nat
  BY RunsSay
<1>2. k \in Nat /\ k >= MinMatch /\ Longest(b, j) \in Nat
  BY LongestIs, LengthAssumption
<1>3. PICK n \in 1..Len(r) : Reaches(b, j, r, k, n)
  BY <1>1, <1>2 DEF SaySoFar
<1>4. CASE runs = r
  BY <1>1, <1>2, <1>3, <1>4, ReachesSpeaks
<1>5. CASE runs = Compact(b, j, r) /\ Len(r) \in 1..CacheLength
  <2> DEFINE pad == [m \in 1..(CacheLength - Len(r)) |-> Padding(b, j)]
  <2>1. runs = r \o pad
    BY <1>5 DEF Compact
  <2>2. pad \in Seq(Run)
    <3>1. Padding(b, j) \in Run
      BY <1>2 DEF Padding, Run
    <3>2. CacheLength - Len(r) \in Nat
      BY <1>1, <1>5, LengthAssumption
    <3> QED BY <3>1, <3>2
  <2> HIDE DEF pad, r
  <2>3. runs \in Seq(Run) /\ Len(runs) = Len(r) + Len(pad) /\ \A m \in 1..Len(r) : runs[m] = r[m]
    BY <1>1, <2>1, <2>2
  <2>4. Reaches(b, j, runs, k, n)
    <3>1. n \in 1..Len(runs) /\ runs[n] = r[n] /\ \A m \in 1..(n - 1) : runs[m] = r[m]
      <4>1. Len(pad) \in Nat
        BY <2>2
      <4> QED BY <1>1, <2>3, <4>1
    <3> QED BY <3>1, <1>3 DEF Reaches
  <2> QED BY <2>3, <2>4, <1>2, ReachesSpeaks
<1> QED BY <1>4, <1>5 DEF Answers

-----------------------------------------------------------------------------
(* A candidate cost is that of its token.                                  *)
LEMMA CandidateIs ==
    ASSUME NEW b \in Blocks, NEW j \in 0..(BlockSize(b) - 1), NEW runs \in Answers(b, j),
           NEW k \in MinMatch..Longest(b, j), NEW c, c.costs[j] \in Nat
    PROVE  Candidate(b, c, j, runs, k) = c.costs[j] + TokenCost(b, j, k)
<1> DEFINE n == RunOf(runs, k)
           from == RunStart(runs, n)
           d == Distance(b, j, k)
           l == IF b.model.fixed THEN SegmentStart(from, k) ELSE k
<1>1. j \in Ends(b) /\ MinMatch \in Nat /\ MinMatch > 1 /\ k # 1 /\ k \in Nat
  BY BlockSizes, LengthAssumption, LongestIs DEF Ends
<1>2. runs[n].dist = d /\ from \in MinMatch..k
  BY <1>1, AnswersSpeak DEF Speaks
<1>3. k \in MinMatch..MaxMatch /\ d \in 1..Len(b.array)
  <2>1. k \in MinMatch..MaxMatch /\ d \in 1..(b.start + j)
    BY <1>1, DistanceIs
  <2>2. b.start + j < Len(b.array) /\ b.start \in Nat /\ Len(b.array) \in Nat
    BY BlockSizes
  <2> HIDE DEF d
  <2> QED BY <2>1, <2>2
<1>4. l \in MinMatch..MaxMatch /\ b.model.length[l] = b.model.length[k]
  <2> HIDE DEF d, n
  <2>1. CASE b.model.fixed
    <3> DEFINE S == {x \in from..k : SymbolEnd(x) = SymbolEnd(k)}
    <3>1. S \in SUBSET Nat /\ S # {}
      <4>1. k \in S
        BY <1>1, <1>2
      <4>2. from \in Nat
        BY <1>1, <1>2
      <4> QED BY <4>1, <4>2, <1>1
    <3>2. SegmentStart(from, k) \in S
      BY <3>1, LeastOf DEF SegmentStart
    <3>3. l \in from..k /\ SymbolEnd(l) = SymbolEnd(k)
      BY <2>1, <3>2
    <3> HIDE DEF l, S, from
    <3>4. l \in MinMatch..MaxMatch
      BY <3>3, <1>1, <1>2, <1>3, LengthAssumption
    <3> QED BY <2>1, <3>3, <3>4, <1>3, CostAssumption
  <2>2. CASE ~ b.model.fixed
    BY <2>2, <1>3
  <2> QED BY <2>1, <2>2
<1>5. b.model.length[k] \in Nat /\ b.model.distance[d] \in Nat
  BY <1>3, CostAssumption
<1>6. Candidate(b, c, j, runs, k) = c.costs[j] + b.model.distance[runs[n].dist] + b.model.length[l]
  BY DEF Candidate
<1>7. TokenCost(b, j, k) = b.model.length[k] + b.model.distance[d]
  BY <1>1 DEF TokenCost
<1> HIDE DEF n, l, d
<1> QED BY <1>2, <1>4, <1>5, <1>6, <1>7

(* The arrays of the search.                                               *)
Typed(b, c) == c.costs \in [Ends(b) -> Nat] /\ c.lengths \in [Ends(b) -> Nat]

(* What is skipped would not have been cheaper.                            *)
LEMMA SkippedIs ==
    ASSUME NEW b \in Blocks, NEW j \in 0..(BlockSize(b) - 1), NEW runs \in Answers(b, j),
           NEW k \in MinMatch..Longest(b, j), NEW c, Typed(b, c), Skipped(b, c, j, runs, k)
    PROVE  c.costs[j + k] <= c.costs[j] + TokenCost(b, j, k)
<1> DEFINE n == RunOf(runs, k)
           from == RunStart(runs, n)
           to == runs[n].end
           d == Distance(b, j, k)
           least == LengthCostSuffixMin(b, from)
           threshold == c.costs[j] + b.model.distance[runs[n].dist] + least
           S == {to + 1} \cup {x \in from..to : c.costs[j + x] > threshold}
<1>1. j \in Ends(b) /\ MinMatch \in Nat /\ MinMatch > 1 /\ k # 1 /\ k \in Nat /\ MaxMatch \in Nat
  BY BlockSizes, LengthAssumption, LongestIs DEF Ends
<1>2. runs[n].dist = d /\ from \in MinMatch..k /\ to \in Nat /\ to >= k
  BY <1>1, AnswersSpeak DEF Speaks
<1>3. k \in MinMatch..MaxMatch /\ d \in 1..Len(b.array) /\ j + k \in Ends(b)
  <2>1. k \in MinMatch..MaxMatch /\ d \in 1..(b.start + j) /\ k <= BlockSize(b) - j
    BY <1>1, DistanceIs
  <2>2. b.start + j < Len(b.array) /\ b.start \in Nat /\ Len(b.array) \in Nat /\ BlockSize(b) \in Nat
    BY BlockSizes
  <2> HIDE DEF d
  <2> QED BY <2>1, <2>2, <1>1 DEF Ends
<1>4. k < Min(S)
  BY DEF Skipped, FirstImprovable
<1>5. TokenCost(b, j, k) = b.model.length[k] + b.model.distance[d]
  BY <1>1 DEF TokenCost
<1> HIDE DEF n, d
<1>6. S \in SUBSET Nat /\ S # {} /\ k \in from..to
  <2> HIDE DEF to, from, threshold
  <2> QED BY <1>1, <1>2
<1>7. \A x \in S : Min(S) <= x /\ Min(S) \in Nat
  BY <1>6, LeastOf
<1>8. k \notin S
  <2> HIDE DEF S
  <2>1. ASSUME k \in S PROVE FALSE
    <3>1. Min(S) <= k /\ Min(S) \in Nat
      BY <2>1, <1>7
    <3> QED BY <3>1, <1>4, <1>1
  <2> QED BY <2>1
<1>9. ~ (c.costs[j + k] > threshold)
  <2> HIDE DEF threshold, from, to
  <2> QED BY <1>6, <1>8
<1>10. b.model.length[k] \in Nat /\ b.model.distance[d] \in Nat
  BY <1>3, CostAssumption
<1>11. least <= b.model.length[k] /\ least \in Nat
  <2> DEFINE T == {b.model.length[x] : x \in from..MaxMatch}
  <2>1. T \in SUBSET Nat
    <3> SUFFICES ASSUME NEW x \in from..MaxMatch PROVE b.model.length[x] \in Nat
      OBVIOUS
    <3>1. x \in MinMatch..MaxMatch
      <4> HIDE DEF from
      <4> QED BY <1>1, <1>2
    <3> QED BY <3>1, CostAssumption
  <2>2. b.model.length[k] \in T
    <3>1. k \in from..MaxMatch
      <4> HIDE DEF from
      <4> QED BY <1>1, <1>2, <1>3
    <3> QED BY <3>1
  <2>3. least = Min(T)
    BY DEF LengthCostSuffixMin
  <2> HIDE DEF T, least
  <2>4. Min(T) \in T /\ \A y \in T : Min(T) <= y
    BY <2>1, <2>2, LeastOf
  <2> QED BY <2>1, <2>2, <2>3, <2>4
<1>12. c.costs[j + k] \in Nat /\ c.costs[j] \in Nat
  BY <1>1, <1>3 DEF Typed
<1> HIDE DEF least, from, to
<1> QED BY <1>2, <1>5, <1>9, <1>10, <1>11, <1>12

-----------------------------------------------------------------------------
(* What one byte does to the arrays: nothing gets dearer, every token from *)
(* the byte is as good as taken, and what changes is by such a token.      *)
Effect(b, c, j, d) ==
    /\ Typed(b, d)
    /\ \A i \in Ends(b) : d.costs[i] <= c.costs[i]
    /\ \A k \in TokensAt(b, j) : d.costs[j + k] <= c.costs[j] + TokenCost(b, j, k)
    /\ \A i \in Ends(b) :
          \/ d.costs[i] = c.costs[i] /\ d.lengths[i] = c.lengths[i]
          \/ /\ i - j \in TokensAt(b, j) /\ d.lengths[i] = i - j
             /\ d.costs[i] = c.costs[j] + TokenCost(b, j, i - j)

(* The literal.                                                            *)
LEMMA LiteralEffect ==
    ASSUME NEW b \in Blocks, NEW j \in 0..(BlockSize(b) - 1), NEW c, Typed(b, c), NEW d,
           d = Improve(c, j, 1, c.costs[j] + b.model.literal[Byte(b, j)])
    PROVE  /\ Typed(b, d) /\ d.costs[j] = c.costs[j]
           /\ d.costs[j + 1] <= c.costs[j] + TokenCost(b, j, 1)
           /\ d.costs[j + 1] <= c.costs[j + 1]
           /\ \A i \in Ends(b) : i # j + 1 => d.costs[i] = c.costs[i] /\ d.lengths[i] = c.lengths[i]
           /\ \/ d.costs[j + 1] = c.costs[j + 1] /\ d.lengths[j + 1] = c.lengths[j + 1]
              \/ d.lengths[j + 1] = 1 /\ d.costs[j + 1] = c.costs[j] + TokenCost(b, j, 1)
<1>1. PICK cost \in Nat : cost = c.costs[j] + TokenCost(b, j, 1)
  <2>1. 1 \in TokensAt(b, j)
    BY DEF TokensAt
  <2>2. TokenCost(b, j, 1) \in Nat
    BY <2>1, TokenIs, CostAssumption
  <2>3. c.costs[j] \in Nat
    BY BlockSizes DEF Typed, Ends
  <2> QED BY <2>2, <2>3
<1>2. d = Improve(c, j, 1, cost)
  BY <1>1 DEF TokenCost
<1>3. j + 1 \in Ends(b) /\ j \in Ends(b) /\ j # j + 1
  BY BlockSizes DEF Ends
<1>4. c.costs[j + 1] \in Nat /\ c.costs[j] \in Nat
  BY <1>3 DEF Typed
<1>5. CASE cost < c.costs[j + 1]
  <2>1. d.costs = [c.costs EXCEPT ![j + 1] = cost] /\ d.lengths = [c.lengths EXCEPT ![j + 1] = 1]
    BY <1>2, <1>5 DEF Improve
  <2>2. 1 \in Nat
    OBVIOUS
  <2>3. Typed(b, d)
    BY <2>1, <2>2 DEF Typed
  <2>4. /\ d.costs[j + 1] = cost /\ d.lengths[j + 1] = 1 /\ d.costs[j] = c.costs[j]
        /\ \A i \in Ends(b) : i # j + 1 => d.costs[i] = c.costs[i] /\ d.lengths[i] = c.lengths[i]
    BY <2>1, <1>3 DEF Typed
  <2>5. d.costs[j + 1] <= c.costs[j + 1] /\ d.costs[j + 1] <= cost
    BY <2>4, <1>4, <1>5
  <2> QED BY <2>3, <2>4, <2>5, <1>1
<1>6. CASE ~ (cost < c.costs[j + 1])
  <2>1. d = c
    BY <1>2, <1>6 DEF Improve
  <2> QED BY <2>1, <1>1, <1>4, <1>6
<1> QED BY <1>5, <1>6

(* The loop over the runs, which takes each length of the longest match.   *)
LEMMA MatchesEffect ==
    ASSUME NEW b \in Blocks, NEW j \in 0..(BlockSize(b) - 1), NEW runs \in Answers(b, j),
           NEW c, Typed(b, c), NEW d, d = RelaxMatches(b, c, j, runs)
    PROVE  /\ Typed(b, d) /\ \A i \in Ends(b) : d.costs[i] <= c.costs[i]
           /\ \A k \in MinMatch..Longest(b, j) : d.costs[j + k] <= c.costs[j] + TokenCost(b, j, k)
           /\ \A i \in Ends(b) :
                 \/ d.costs[i] = c.costs[i] /\ d.lengths[i] = c.lengths[i]
                 \/ /\ i - j \in MinMatch..Longest(b, j) /\ d.lengths[i] = i - j
                    /\ d.costs[i] = c.costs[j] + TokenCost(b, j, i - j)
<1> DEFINE cand(k) == Candidate(b, c, j, runs, k)
           improved == {k \in MinMatch..Longest(b, j) :
                           /\ b.model.fixed \/ ~Skipped(b, c, j, runs, k)
                           /\ cand(k) < c.costs[j + k]}
<1>1. /\ d.costs = [i \in Ends(b) |-> IF i - j \in improved THEN cand(i - j) ELSE c.costs[i]]
      /\ d.lengths = [i \in Ends(b) |-> IF i - j \in improved THEN i - j ELSE c.lengths[i]]
  BY DEF RelaxMatches
<1>2. j \in Ends(b) /\ j \in Nat /\ c.costs[j] \in Nat
  BY BlockSizes DEF Ends, Typed
<1>3. ASSUME NEW k \in MinMatch..Longest(b, j)
      PROVE  /\ cand(k) = c.costs[j] + TokenCost(b, j, k) /\ cand(k) \in Nat /\ k \in Nat
             /\ j + k \in Ends(b) /\ (j + k) - j = k /\ c.costs[j + k] \in Nat
  <2>1. k \in TokensAt(b, j)
    BY DEF TokensAt
  <2>2. TokenCost(b, j, k) \in Nat /\ k \in Nat /\ j + k \in Ends(b)
    <3>1. TokenCost(b, j, k) \in 0..MaxCost /\ MaxCost \in Nat
      BY <2>1, TokenIs, CostAssumption
    <3> QED BY <3>1, <2>1, TokenIs
  <2>3. cand(k) = c.costs[j] + TokenCost(b, j, k)
    BY <1>2, CandidateIs
  <2>4. c.costs[j + k] \in Nat
    BY <2>2 DEF Typed
  <2> HIDE DEF cand
  <2> QED BY <2>2, <2>3, <2>4, <1>2
<1>4. ASSUME NEW k \in MinMatch..Longest(b, j), k \notin improved
      PROVE  c.costs[j + k] <= c.costs[j] + TokenCost(b, j, k)
  <2>1. CASE Skipped(b, c, j, runs, k)
    BY <2>1, SkippedIs
  <2>2. CASE ~ (cand(k) < c.costs[j + k])
    <3>1. c.costs[j + k] <= cand(k)
      <4> HIDE DEF cand
      <4> QED BY <2>2, <1>3
    <3> QED BY <3>1, <1>3
  <2> QED BY <2>1, <2>2, <1>4
<1>5. ASSUME NEW k \in improved
      PROVE  k \in MinMatch..Longest(b, j) /\ cand(k) < c.costs[j + k]
  OBVIOUS
<1> HIDE DEF improved, cand
<1>6. ASSUME NEW i \in Ends(b)
      PROVE  /\ d.costs[i] \in Nat /\ d.lengths[i] \in Nat /\ d.costs[i] <= c.costs[i]
             /\ \/ d.costs[i] = c.costs[i] /\ d.lengths[i] = c.lengths[i]
                \/ /\ i - j \in MinMatch..Longest(b, j) /\ d.lengths[i] = i - j
                   /\ d.costs[i] = c.costs[j] + TokenCost(b, j, i - j)
  <2>1. i \in Nat /\ c.costs[i] \in Nat /\ c.lengths[i] \in Nat
    <3>1. i \in Nat
      BY BlockSizes DEF Ends
    <3> QED BY <3>1 DEF Typed
  <2>2. CASE i - j \in improved
    <3>1. PICK k \in improved : k = i - j
      BY <2>2
    <3>2. d.costs[i] = cand(k) /\ d.lengths[i] = k
      BY <3>1, <1>1
    <3>3. k \in MinMatch..Longest(b, j) /\ cand(k) < c.costs[j + k]
      BY <1>5
    <3>4. cand(k) = c.costs[j] + TokenCost(b, j, k) /\ cand(k) \in Nat /\ k \in Nat
      BY <3>3, <1>3
    <3>5. j + k = i
      BY <3>1, <3>4, <2>1, <1>2
    <3>6. d.costs[i] <= c.costs[i] /\ d.costs[i] \in Nat /\ d.lengths[i] \in Nat
      BY <3>2, <3>3, <3>4, <3>5, <2>1
    <3> QED BY <3>1, <3>2, <3>3, <3>4, <3>6
  <2>3. CASE i - j \notin improved
    BY <2>1, <2>3, <1>1
  <2> QED BY <2>2, <2>3
<1>7. ASSUME NEW k \in MinMatch..Longest(b, j)
      PROVE  d.costs[j + k] <= c.costs[j] + TokenCost(b, j, k)
  <2>1. j + k \in Ends(b) /\ (j + k) - j = k
    BY <1>3
  <2>2. CASE k \in improved
    <3>1. d.costs[j + k] = cand(k)
      BY <1>1, <2>1, <2>2
    <3> QED BY <3>1, <1>3
  <2>3. CASE k \notin improved
    <3>1. d.costs[j + k] = c.costs[j + k]
      BY <1>1, <2>1, <2>3
    <3> QED BY <3>1, <2>3, <1>4
  <2> QED BY <2>2, <2>3
<1>8. Typed(b, d)
  BY <1>1, <1>6 DEF Typed
<1> QED BY <1>6, <1>7, <1>8

(* A byte, its literal and its matches.                                    *)
LEMMA ByteEffect ==
    ASSUME NEW b \in Blocks, NEW j \in 0..(BlockSize(b) - 1), NEW runs \in Answers(b, j),
           NEW c, Typed(b, c)
    PROVE  Effect(b, c, j, RelaxByte(b, c, j, runs))
<1>1. PICK e : e = Improve(c, j, 1, c.costs[j] + b.model.literal[Byte(b, j)])
  OBVIOUS
<1>2. PICK d : d = RelaxMatches(b, e, j, runs)
  OBVIOUS
<1>3. RelaxByte(b, c, j, runs) = d
  BY <1>1, <1>2 DEF RelaxByte
<1>4. Typed(b, e) /\ e.costs[j] = c.costs[j]
  BY <1>1, LiteralEffect
<1>5. /\ e.costs[j + 1] <= c.costs[j] + TokenCost(b, j, 1)
      /\ e.costs[j + 1] <= c.costs[j + 1]
      /\ \A i \in Ends(b) : i # j + 1 => e.costs[i] = c.costs[i] /\ e.lengths[i] = c.lengths[i]
      /\ \/ e.costs[j + 1] = c.costs[j + 1] /\ e.lengths[j + 1] = c.lengths[j + 1]
         \/ e.lengths[j + 1] = 1 /\ e.costs[j + 1] = c.costs[j] + TokenCost(b, j, 1)
  BY <1>1, LiteralEffect
<1>6. Typed(b, d) /\ \A i \in Ends(b) : d.costs[i] <= e.costs[i]
  BY <1>2, <1>4, MatchesEffect
<1>7. \A k \in MinMatch..Longest(b, j) : d.costs[j + k] <= c.costs[j] + TokenCost(b, j, k)
  <2>1. \A k \in MinMatch..Longest(b, j) : d.costs[j + k] <= e.costs[j] + TokenCost(b, j, k)
    BY <1>2, <1>4, MatchesEffect
  <2> QED BY <2>1, <1>4
<1>8. \A i \in Ends(b) :
         \/ d.costs[i] = e.costs[i] /\ d.lengths[i] = e.lengths[i]
         \/ /\ i - j \in MinMatch..Longest(b, j) /\ d.lengths[i] = i - j
            /\ d.costs[i] = c.costs[j] + TokenCost(b, j, i - j)
  <2>1. \A i \in Ends(b) :
           \/ d.costs[i] = e.costs[i] /\ d.lengths[i] = e.lengths[i]
           \/ /\ i - j \in MinMatch..Longest(b, j) /\ d.lengths[i] = i - j
              /\ d.costs[i] = e.costs[j] + TokenCost(b, j, i - j)
    BY <1>2, <1>4, MatchesEffect
  <2> QED BY <2>1, <1>4
<1>9. j \in Nat /\ j + 1 \in Ends(b) /\ (j + 1) - j = 1 /\ Ends(b) \subseteq Nat
  BY BlockSizes DEF Ends
<1>10. \A i \in Ends(b) : d.costs[i] \in Nat /\ e.costs[i] \in Nat /\ c.costs[i] \in Nat
  BY <1>4, <1>6 DEF Typed
<1>11. 1 \in TokensAt(b, j) /\ MinMatch..Longest(b, j) \subseteq TokensAt(b, j)
  BY DEF TokensAt
<1>12. \A i \in Ends(b) : d.costs[i] <= c.costs[i]
  <2> SUFFICES ASSUME NEW i \in Ends(b) PROVE d.costs[i] <= c.costs[i]
    OBVIOUS
  <2>1. e.costs[i] <= c.costs[i]
    BY <1>5, <1>10
  <2> QED BY <2>1, <1>6, <1>10
<1>13. ASSUME NEW k \in TokensAt(b, j) PROVE d.costs[j + k] <= c.costs[j] + TokenCost(b, j, k)
  <2>1. CASE k = 1
    <3>1. d.costs[j + 1] <= e.costs[j + 1]
      BY <1>6, <1>9
    <3>2. TokenCost(b, j, 1) \in Int /\ c.costs[j] \in Nat
      <4>1. TokenCost(b, j, 1) \in 0..MaxCost
        BY <1>11, TokenIs
      <4> QED BY <4>1 , <1>10, <1>9, BlockSizes DEF Ends
    <3>3. d.costs[j + 1] <= c.costs[j] + TokenCost(b, j, 1)
      BY <3>1, <3>2, <1>5, <1>9, <1>10
    <3> QED BY <3>3, <2>1
  <2> QED BY <2>1, <1>7 DEF TokensAt
<1>14. ASSUME NEW i \in Ends(b)
       PROVE  \/ d.costs[i] = c.costs[i] /\ d.lengths[i] = c.lengths[i]
              \/ /\ i - j \in TokensAt(b, j) /\ d.lengths[i] = i - j
                 /\ d.costs[i] = c.costs[j] + TokenCost(b, j, i - j)
  <2>1. CASE i = j + 1
    <3>1. i - j = 1
      BY <2>1, <1>9
    <3> QED BY <3>1, <2>1, <1>5, <1>8, <1>11
  <2>2. CASE i # j + 1
    BY <2>2, <1>5, <1>8, <1>11
  <2> QED BY <2>1, <2>2
<1> QED BY <1>3, <1>6, <1>12, <1>13, <1>14 DEF Effect

-----------------------------------------------------------------------------
(* A byte of a long run repeats the one before it.                         *)
LEMMA SameIs ==
    ASSUME NEW b \in Blocks, NEW j \in 0..(BlockSize(b) - 1), NEW n \in Nat, Same(b, j) > n,
           NEW x, x \in (j + 1)..(j + 1 + n)
    PROVE  Byte(b, x) = Byte(b, x - 1)
<1>1. j \in Nat /\ BlockSize(b) \in Nat /\ x \in Nat
  BY BlockSizes
<1>2. j + 1 # BlockSize(b) /\ Same(b, j) = Common(b, j + 1, 1)
  BY DEF Same
<1>3. j + 1 \in Ends(b)
  BY <1>1 DEF Ends
<1>4. PICK m : m = Common(b, j + 1, 1)
  OBVIOUS
<1>5. m \in 0..(BlockSize(b) - (j + 1)) /\ m > n
  BY <1>2, <1>3, <1>4, CommonIs
<1>6. \A l \in 0..(m - 1) : Byte(b, (j + 1) + l) = Byte(b, (j + 1) - 1 + l)
  BY <1>3, <1>4, CommonIs
<1>7. PICK l : l = x - (j + 1)
  OBVIOUS
<1>8. l \in 0..(m - 1) /\ (j + 1) + l = x /\ (j + 1) - 1 + l = x - 1
  BY <1>1, <1>5, <1>7
<1>9. Byte(b, (j + 1) + l) = Byte(b, (j + 1) - 1 + l)
  BY <1>6, <1>8
<1> QED BY <1>8, <1>9

(* Around a jump the bytes are one run.                                    *)
LEMMA JumpRun ==
    ASSUME NEW b \in Blocks, NEW j \in 0..(BlockSize(b) - 1), Jump(b, j),
           NEW x, x \in (j - MaxMatch + 1)..(j + 2 * MaxMatch + 1)
    PROVE  Byte(b, x) = Byte(b, x - 1)
<1>1. /\ j \in Nat /\ BlockSize(b) \in Nat /\ MaxMatch \in Nat /\ j > MaxMatch + 1 /\ x \in Int
      /\ Same(b, j) > MaxMatch * 2 /\ Same(b, j - MaxMatch) > MaxMatch
  BY BlockSizes, LengthAssumption DEF Jump
<1>2. CASE x \in (j + 1)..(j + 1 + MaxMatch * 2)
  <2>1. MaxMatch * 2 \in Nat
    BY <1>1
  <2> QED BY <1>1, <1>2, <2>1, SameIs
<1>3. CASE x \in ((j - MaxMatch) + 1)..((j - MaxMatch) + 1 + MaxMatch)
  <2>1. j - MaxMatch \in 0..(BlockSize(b) - 1)
    BY <1>1
  <2> QED BY <1>1, <1>3, <2>1, SameIs
<1> QED BY <1>1, <1>2, <1>3

(* There a byte has the longest match, at distance 1.                      *)
LEMMA JumpMatches ==
    ASSUME NEW b \in Blocks, NEW j \in 0..(BlockSize(b) - 1), Jump(b, j),
           NEW y \in (j - MaxMatch + 1)..(j + MaxMatch - 1)
    PROVE  /\ y \in 0..(BlockSize(b) - 1) /\ Longest(b, y) = MaxMatch
           /\ TokensAt(b, y) = {1} \cup MinMatch..MaxMatch
           /\ TokenCost(b, y, MaxMatch) = b.model.length[MaxMatch] + b.model.distance[1]
<1>1. /\ j \in Nat /\ BlockSize(b) \in Nat /\ MaxMatch \in Nat /\ j > MaxMatch + 1 /\ y \in Int
      /\ j + MaxMatch * 2 + 1 < BlockSize(b) /\ MinMatch \in Nat /\ 1 < MinMatch /\ MinMatch < MaxMatch
      /\ b.start \in Nat
  BY BlockSizes, LengthAssumption DEF Jump
<1>2. y \in 0..(BlockSize(b) - 1) /\ y \in Ends(b) /\ y >= 1 /\ MaxMatch <= BlockSize(b) - y
  BY <1>1 DEF Ends
<1>3. \A l \in 0..(MaxMatch - 1) : Byte(b, y + l) = Byte(b, y - 1 + l)
  <2> SUFFICES ASSUME NEW l \in 0..(MaxMatch - 1) PROVE Byte(b, y + l) = Byte(b, y - 1 + l)
    OBVIOUS
  <2>1. y + l \in (j - MaxMatch + 1)..(j + 2 * MaxMatch + 1)
    BY <1>1
  <2>2. Byte(b, y + l) = Byte(b, (y + l) - 1)
    BY <2>1, JumpRun
  <2>3. (y + l) - 1 = y - 1 + l
    BY <1>1
  <2> QED BY <2>2, <2>3
<1>4. Common(b, y, 1) >= MaxMatch
  BY <1>1, <1>2, <1>3, CommonAtLeast
<1>5. 1 \in Distances(b, y, MaxMatch)
  BY <1>1, <1>2, <1>4 DEF Distances
<1>6. Longest(b, y) = MaxMatch
  <2>1. MaxMatch \in MinMatch..MaxMatch
    BY <1>1
  <2>2. MaxMatch <= Longest(b, y) /\ Longest(b, y) \in 0..MaxMatch
    BY <1>2, <1>5, <2>1, LongestIs
  <2> QED BY <1>1, <2>2
<1>7. Distance(b, y, MaxMatch) = 1
  <2> DEFINE S == Distances(b, y, MaxMatch)
  <2>1. S \in SUBSET Nat /\ \A d \in S : 1 <= d
    BY <1>1, <1>2 DEF Distances
  <2> HIDE DEF S
  <2>2. Min(S) \in S /\ Min(S) <= 1
    BY <2>1, <1>5, LeastOf DEF S
  <2>3. PICK m : m = Min(S)
    OBVIOUS
  <2>4. m \in S /\ m <= 1
    BY <2>2, <2>3
  <2>5. m \in Nat /\ 1 <= m
    BY <2>1, <2>4
  <2>6. m = 1
    BY <2>4, <2>5
  <2> QED BY <2>3, <2>6 DEF S, Distance
<1>8. TokenCost(b, y, MaxMatch) = b.model.length[MaxMatch] + b.model.distance[1]
  <2>1. MaxMatch # 1
    BY <1>1
  <2> QED BY <2>1, <1>7 DEF TokenCost
<1>9. TokensAt(b, y) = {1} \cup MinMatch..MaxMatch
  BY <1>6 DEF TokensAt
<1> QED BY <1>2, <1>6, <1>8, <1>9

-----------------------------------------------------------------------------
(* The largest cost of a way over so many bytes.                           *)
Most(n) == n * MaxCost

LEMMA MostIs ==
    ASSUME NEW n \in Nat
    PROVE  Most(n) \in Nat
BY CostAssumption DEF Most

LEMMA MostGrows ==
    ASSUME NEW n \in Nat, NEW k \in Nat, 1 <= k
    PROVE  Most(n) \in Nat /\ Most(n) + MaxCost <= Most(n + k)
<1>1. MaxCost \in Nat
  BY CostAssumption
<1>2. PICK m \in Nat : k = m + 1
  <2>1. k - 1 \in Nat /\ k = (k - 1) + 1
    OBVIOUS
  <2> QED BY <2>1
<1>3. m * MaxCost \in Nat /\ n * MaxCost \in Nat
  BY <1>1
<1>4. (n + (m + 1)) * MaxCost = n * MaxCost + m * MaxCost + MaxCost
  BY <1>1
<1> QED BY <1>1, <1>2, <1>3, <1>4 DEF Most

LEMMA MostIsLess ==
    ASSUME NEW b \in Blocks, NEW i \in Ends(b)
    PROVE  Most(i) < LargeFloat
<1>1. MaxCost \in Nat /\ LargeFloat \in Nat /\ Len(b.array) * MaxCost < LargeFloat
  BY CostAssumption
<1>2. i \in Nat /\ Len(b.array) \in Nat /\ i <= Len(b.array)
  BY BlockSizes DEF Ends
<1>3. Most(i) <= Len(b.array) * MaxCost /\ Most(i) \in Nat /\ Len(b.array) * MaxCost \in Nat
  <2>1. CASE i = Len(b.array)
    BY <2>1, <1>1, <1>2 DEF Most
  <2>2. CASE i # Len(b.array)
    <3>1. PICK k \in Nat : k = Len(b.array) - i
      BY SMTT(30), <1>2
    <3>2. 1 <= k /\ i + k = Len(b.array)
      BY <3>1, <1>2, <2>2
    <3>3. Most(i) \in Nat /\ Most(i) + MaxCost <= Most(i + k)
      BY <3>2, <1>2, MostGrows
    <3>4. Most(i + k) = Len(b.array) * MaxCost
      BY <3>2 DEF Most
    <3>5. Len(b.array) * MaxCost \in Nat
      BY <1>1, <1>2
    <3> QED BY <3>3, <3>4, <3>5, <1>1
  <2> QED BY <2>1, <2>2
<1> QED BY <1>1, <1>3

(* The bytes before p have been looked at: what a token from one of them   *)
(* leads to has a cost, and a cost is either that of a token from one of   *)
(* them, or has not been reached.                                          *)
Link(b, c, p, i) ==
    /\ c.lengths[i] \in 1..i /\ i - c.lengths[i] < p
    /\ c.lengths[i] \in TokensAt(b, i - c.lengths[i])
    /\ c.costs[i] = c.costs[i - c.lengths[i]] + TokenCost(b, i - c.lengths[i], c.lengths[i])

Searched(b, c, p) ==
    /\ Typed(b, c) /\ c.costs[0] = 0
    /\ \A q \in 0..(p - 1) : \A k \in TokensAt(b, q) : c.costs[q + k] <= Most(q + k)
    /\ \A i \in 1..BlockSize(b) : c.costs[i] = LargeFloat \/ Link(b, c, p, i)

(* Every token from them was taken or not cheaper: not so in a long run.   *)
Explored(b, c, p) ==
    \A q \in 0..(p - 1) : \A k \in TokensAt(b, q) :
        c.costs[q + k] <= c.costs[q] + TokenCost(b, q, k)

LEMMA Reached ==
    ASSUME NEW b \in Blocks, NEW p \in Ends(b), NEW c, Searched(b, c, p), NEW i \in 0..p
    PROVE  c.costs[i] <= Most(i)
<1>1. p \in Nat /\ MaxCost \in Nat /\ BlockSize(b) \in Nat
  BY BlockSizes, CostAssumption DEF Ends
<1>2. CASE i = 0
  BY <1>1, <1>2 DEF Searched, Most
<1>3. CASE i # 0
  <2>1. PICK q \in 0..(p - 1) : q = i - 1
    BY <1>1, <1>3
  <2>2. 1 \in TokensAt(b, q) /\ q + 1 = i
    BY <2>1, <1>1 DEF TokensAt
  <2> QED BY <2>1, <2>2 DEF Searched
<1> QED BY <1>2, <1>3

(* A byte that is looked at.                                               *)
LEMMA ByteSearched ==
    ASSUME NEW b \in Blocks, NEW p \in 0..(BlockSize(b) - 1), NEW c, Searched(b, c, p),
           NEW d, Effect(b, c, p, d)
    PROVE  Searched(b, d, p + 1)
<1>1. /\ p \in Nat /\ MaxCost \in Nat /\ BlockSize(b) \in Nat /\ p \in Ends(b) /\ 0 \in Ends(b)
      /\ Ends(b) \subseteq Nat /\ p + 1 \in Nat
  BY BlockSizes, CostAssumption DEF Ends
<1>2. Typed(b, d) /\ Typed(b, c)
  BY DEF Effect, Searched
<1>3. \A i \in Ends(b) : c.costs[i] \in Nat /\ d.costs[i] \in Nat
  BY <1>2 DEF Typed
<1>4. \A i \in 0..p : d.costs[i] = c.costs[i] /\ d.lengths[i] = c.lengths[i]
  <2> SUFFICES ASSUME NEW i \in 0..p, i - p \in TokensAt(b, p) PROVE FALSE
    <3>1. 0..p \subseteq Ends(b)
      BY <1>1 DEF Ends
    <3> QED BY <3>1 DEF Effect
  <2>1. 1 <= i - p
    BY TokenIs
  <2> QED BY <2>1, <1>1
<1>5. ASSUME NEW q \in 0..((p + 1) - 1), NEW k \in TokensAt(b, q) PROVE d.costs[q + k] <= Most(q + k)
  <2>1. q \in 0..(BlockSize(b) - 1) /\ q \in Nat
    BY <1>1
  <2>2. q + k \in Ends(b) /\ k \in Nat /\ 1 <= k
    BY <2>1, TokenIs
  <2>3. CASE q = p
    <3>1. d.costs[p + k] <= c.costs[p] + TokenCost(b, p, k)
      BY <2>3 DEF Effect
    <3>2. c.costs[p] <= Most(p)
      BY <1>1, Reached
    <3>3. TokenCost(b, p, k) \in 0..MaxCost
      BY <2>3, TokenIs
    <3>4. Most(p) \in Nat /\ Most(p) + MaxCost <= Most(p + k)
      BY <1>1, <2>2, MostGrows
    <3>5. Most(p + k) \in Nat
      BY <1>1, <2>2, MostIs
    <3>6. d.costs[p + k] \in Nat /\ c.costs[p] \in Nat
      BY <1>1, <1>3, <2>2, <2>3
    <3>7. d.costs[p + k] <= Most(p + k)
      BY <3>1, <3>2, <3>3, <3>4, <3>5, <3>6, <1>1
    <3> QED BY <3>7, <2>3
  <2>4. CASE q # p
    <3>1. q \in 0..(p - 1)
      BY <1>1, <2>4
    <3>2. c.costs[q + k] <= Most(q + k)
      BY <3>1 DEF Searched
    <3>3. d.costs[q + k] <= c.costs[q + k]
      BY <2>2 DEF Effect
    <3>4. Most(q + k) \in Nat
      BY <1>1, <2>2, MostIs
    <3> QED BY <3>2, <3>3, <3>4, <2>2, <1>3
  <2> QED BY <2>3, <2>4
<1>6. ASSUME NEW i \in 1..BlockSize(b) PROVE d.costs[i] = LargeFloat \/ Link(b, d, p + 1, i)
  <2>1. i \in Ends(b) /\ i \in Nat
    BY <1>1 DEF Ends
  <2>2. CASE d.costs[i] = c.costs[i] /\ d.lengths[i] = c.lengths[i] /\ c.costs[i] # LargeFloat
    <3>1. Link(b, c, p, i)
      BY <2>2 DEF Searched
    <3>2. PICK k : k = c.lengths[i]
      OBVIOUS
    <3>3. k \in 1..i /\ i - k < p /\ k \in TokensAt(b, i - k) /\ c.costs[i] = c.costs[i - k] + TokenCost(b, i - k, k)
      BY <3>1, <3>2 DEF Link
    <3>4. i - k \in 0..p /\ i - k < p + 1
      BY <3>3, <2>1, <1>1
    <3>5. d.costs[i - k] = c.costs[i - k]
      BY <3>4, <1>4
    <3> QED BY <2>2, <3>2, <3>3, <3>4, <3>5 DEF Link
  <2>3. CASE /\ i - p \in TokensAt(b, p) /\ d.lengths[i] = i - p
             /\ d.costs[i] = c.costs[p] + TokenCost(b, p, i - p)
    <3>1. PICK k : k = i - p
      OBVIOUS
    <3>2. k \in Nat /\ 1 <= k
      BY <2>3, <3>1, TokenIs
    <3>3. i - k = p /\ k \in 1..i /\ p < p + 1 /\ p \in 0..p
      BY <3>1, <3>2, <2>1, <1>1
    <3>4. d.costs[p] = c.costs[p]
      BY <3>3, <1>4
    <3>5. d.lengths[i] = k /\ k \in TokensAt(b, p) /\ d.costs[i] = d.costs[p] + TokenCost(b, p, k)
      BY <2>3, <3>1, <3>4
    <3> QED BY <3>3, <3>5 DEF Link
  <2> QED BY <2>1, <2>2, <2>3 DEF Effect
<1>7. d.costs[0] = 0
  BY <1>1, <1>4 DEF Searched
<1> QED BY <1>2, <1>5, <1>6, <1>7 DEF Searched

LEMMA ByteExplored ==
    ASSUME NEW b \in Blocks, NEW p \in 0..(BlockSize(b) - 1), NEW c, Typed(b, c), Explored(b, c, p),
           NEW d, Effect(b, c, p, d)
    PROVE  Explored(b, d, p + 1)
<1> SUFFICES ASSUME NEW q \in 0..((p + 1) - 1), NEW k \in TokensAt(b, q)
             PROVE  d.costs[q + k] <= d.costs[q] + TokenCost(b, q, k)
  BY DEF Explored
<1>1. p \in Nat /\ BlockSize(b) \in Nat /\ q \in 0..(BlockSize(b) - 1) /\ q \in Nat /\ q \in Ends(b)
  BY BlockSizes DEF Ends
<1>2. q + k \in Ends(b) /\ TokenCost(b, q, k) \in 0..MaxCost
  BY <1>1, TokenIs
<1>3. d.costs[q] = c.costs[q]
  <2>1. ASSUME q - p \in TokensAt(b, p) PROVE FALSE
    <3>1. 1 <= q - p
      BY <2>1, TokenIs
    <3> QED BY <3>1, <1>1
  <2> QED BY <2>1, <1>1 DEF Effect
<1>4. c.costs[q] \in Nat /\ c.costs[q + k] \in Nat /\ d.costs[q + k] \in Nat
  BY <1>1, <1>2 DEF Effect, Typed
<1>5. CASE q = p
  BY <1>3, <1>5 DEF Effect
<1>6. CASE q # p
  <2>1. q \in 0..(p - 1)
    BY <1>1, <1>6
  <2>2. c.costs[q + k] <= c.costs[q] + TokenCost(b, q, k)
    BY <2>1 DEF Explored
  <2>3. d.costs[q + k] <= c.costs[q + k]
    BY <1>2 DEF Effect
  <2> QED BY <2>2, <2>3, <1>2, <1>3, <1>4
<1> QED BY <1>5, <1>6

(* Around a jump the bytes up to the ones it leads to have been reached:   *)
(* by the literal and by the matches of the bytes before.                  *)
LEMMA JumpReached ==
    ASSUME NEW b \in Blocks, NEW p \in 0..(BlockSize(b) - 1), NEW c, Searched(b, c, p), Jump(b, p),
           NEW i \in p..(p + MaxMatch - 1)
    PROVE  c.costs[i] <= Most(i)
<1>1. /\ p \in Nat /\ MaxMatch \in Nat /\ MinMatch \in Nat /\ 1 < MinMatch /\ MinMatch < MaxMatch
      /\ p > MaxMatch + 1 /\ i \in Nat
  BY BlockSizes, LengthAssumption DEF Jump
<1>2. PICK k : k = IF i = p THEN 1 ELSE IF i - p + 1 <= MinMatch THEN MinMatch ELSE i - p + 1
  OBVIOUS
<1>3. k \in {1} \cup MinMatch..MaxMatch /\ k \in Nat
  BY <1>1, <1>2
<1>4. i - k \in (p - MaxMatch + 1)..(p + MaxMatch - 1) /\ i - k \in 0..(p - 1) /\ (i - k) + k = i
  BY <1>1, <1>2
<1>5. PICK q : q = i - k
  OBVIOUS
<1>6. TokensAt(b, q) = {1} \cup MinMatch..MaxMatch
  BY <1>4, <1>5, JumpMatches
<1>7. c.costs[q + k] <= Most(q + k)
  BY <1>3, <1>4, <1>5, <1>6 DEF Searched
<1> QED BY <1>4, <1>5, <1>7

(* The bytes that are jumped over.                                         *)
LEMMA JumpSearched ==
    ASSUME NEW b \in Blocks, NEW p \in 0..(BlockSize(b) - 1), NEW c, Searched(b, c, p), Jump(b, p),
           NEW d, d = Jumped(b, c, p)
    PROVE  Searched(b, d, p + MaxMatch)
<1> DEFINE reached == (p + MaxMatch)..(p + 2 * MaxMatch - 1)
           cost == b.model.length[MaxMatch] + b.model.distance[1]
<1>1. /\ p \in Nat /\ MaxMatch \in Nat /\ MinMatch \in Nat /\ 1 < MinMatch /\ MinMatch < MaxMatch
      /\ p > MaxMatch + 1 /\ MaxCost \in Nat /\ BlockSize(b) \in Nat
      /\ p + MaxMatch * 2 + 1 < BlockSize(b)
  BY BlockSizes, LengthAssumption, CostAssumption DEF Jump
<1>2. /\ d.costs = [i \in Ends(b) |-> IF i \in reached THEN c.costs[i - MaxMatch] + cost ELSE c.costs[i]]
      /\ d.lengths = [i \in Ends(b) |-> IF i \in reached THEN MaxMatch ELSE c.lengths[i]]
  BY DEF Jumped
<1>3. ASSUME NEW y \in p..(p + MaxMatch - 1)
      PROVE  /\ y \in 0..(BlockSize(b) - 1) /\ MaxMatch \in TokensAt(b, y)
             /\ TokenCost(b, y, MaxMatch) = cost /\ cost \in 0..MaxCost /\ y \in Ends(b)
  <2>1. y \in (p - MaxMatch + 1)..(p + MaxMatch - 1)
    BY <1>1
  <2>2. /\ y \in 0..(BlockSize(b) - 1) /\ TokensAt(b, y) = {1} \cup MinMatch..MaxMatch
        /\ TokenCost(b, y, MaxMatch) = cost
    BY <2>1, JumpMatches
  <2>3. MaxMatch \in TokensAt(b, y)
    BY <2>2, <1>1
  <2> HIDE DEF cost
  <2>4. cost \in 0..MaxCost
    <3>1. TokenCost(b, y, MaxMatch) \in 0..MaxCost
      BY <2>2, <2>3, TokenIs
    <3> QED BY <3>1, <2>2
  <2> QED BY <2>2, <2>3, <2>4, <1>1 DEF Ends
<1> HIDE DEF cost
<1>4. Typed(b, c) /\ \A i \in Ends(b) : c.costs[i] \in Nat /\ c.lengths[i] \in Nat
  BY DEF Searched, Typed
<1>5. \A i \in Ends(b) : i \in Nat
  BY <1>1 DEF Ends
<1>6. \A i \in Ends(b) : i < p + MaxMatch => d.costs[i] = c.costs[i] /\ d.lengths[i] = c.lengths[i]
  BY <1>1, <1>2, <1>5
<1>7. ASSUME NEW i \in reached
      PROVE  /\ i \in Ends(b) /\ i - MaxMatch \in p..(p + MaxMatch - 1)
             /\ d.costs[i] = c.costs[i - MaxMatch] + cost /\ d.lengths[i] = MaxMatch
             /\ d.costs[i] <= Most(i) /\ d.costs[i] \in Nat
  <2>1. i \in Ends(b) /\ i \in Nat
    BY <1>1 DEF Ends
  <2>2. PICK y \in p..(p + MaxMatch - 1) : y = i - MaxMatch
    BY <1>1
  <2>3. y \in Nat /\ y + MaxMatch = i /\ 1 <= MaxMatch
    BY <1>1, <2>1, <2>2
  <2>4. cost \in 0..MaxCost /\ c.costs[y] \in Nat
    BY <1>3, <1>4
  <2>5. c.costs[y] <= Most(y)
    BY JumpReached
  <2>6. Most(y) \in Nat /\ Most(y) + MaxCost <= Most(y + MaxMatch) /\ Most(y + MaxMatch) \in Nat
    <3>1. y + MaxMatch \in Nat
      BY <2>3, <1>1
    <3> QED BY <3>1, <2>3, <1>1, MostGrows, MostIs
  <2>7. d.costs[i] = c.costs[y] + cost /\ d.lengths[i] = MaxMatch
    BY <1>2, <2>1, <2>2
  <2>8. d.costs[i] <= Most(y + MaxMatch) /\ d.costs[i] \in Nat
    BY <2>4, <2>5, <2>6, <2>7, <1>1
  <2> QED BY <2>1, <2>2, <2>3, <2>7, <2>8
<1>8. Typed(b, d)
  <2>1. \A i \in Ends(b) : d.costs[i] \in Nat /\ d.lengths[i] \in Nat
    <3> SUFFICES ASSUME NEW i \in Ends(b) PROVE d.costs[i] \in Nat /\ d.lengths[i] \in Nat
      OBVIOUS
    <3>1. CASE i \in reached
      BY <3>1, <1>7, <1>1
    <3>2. CASE i \notin reached
      BY <3>2, <1>2, <1>4
    <3> QED BY <3>1, <3>2
  <2> QED BY <2>1, <1>2 DEF Typed
<1>9. d.costs[0] = 0
  <2>1. 0 \in Ends(b) /\ 0 < p + MaxMatch
    BY <1>1 DEF Ends
  <2> QED BY <2>1, <1>6 DEF Searched
<1>10. ASSUME NEW q \in 0..((p + MaxMatch) - 1), NEW k \in TokensAt(b, q)
       PROVE  d.costs[q + k] <= Most(q + k)
  <2>1. q \in 0..(BlockSize(b) - 1) /\ q \in Nat
    BY <1>1
  <2>2. q + k \in Ends(b) /\ k \in Nat /\ 1 <= k /\ k <= MaxMatch
    BY <2>1, TokenIs
  <2>3. CASE q < p
    <3>1. q \in 0..(p - 1) /\ q + k < p + MaxMatch
      BY <1>1, <2>1, <2>2, <2>3
    <3>2. c.costs[q + k] <= Most(q + k)
      BY <3>1 DEF Searched
    <3> QED BY <3>1, <3>2, <2>2, <1>6
  <2>4. CASE q >= p /\ q + k < p + MaxMatch
    <3>1. q + k \in p..(p + MaxMatch - 1)
      BY <1>1, <2>1, <2>2, <2>4
    <3>2. c.costs[q + k] <= Most(q + k)
      BY <3>1, JumpReached
    <3> QED BY <3>2, <2>2, <2>4, <1>6
  <2>5. CASE q >= p /\ q + k >= p + MaxMatch
    <3>1. q + k \in reached
      BY <1>1, <2>1, <2>2, <2>5
    <3> HIDE DEF reached
    <3> QED BY <3>1, <1>7
  <2> QED BY <2>1, <2>2, <2>3, <2>4, <2>5, <1>1
<1>11. ASSUME NEW i \in 1..BlockSize(b) PROVE d.costs[i] = LargeFloat \/ Link(b, d, p + MaxMatch, i)
  <2>1. i \in Ends(b) /\ i \in Nat
    BY <1>1 DEF Ends
  <2>2. CASE i \in reached
    <3>1. PICK y \in p..(p + MaxMatch - 1) : y = i - MaxMatch
      BY <2>2, <1>1
    <3>2. d.costs[i] = c.costs[y] + cost /\ d.lengths[i] = MaxMatch
      BY <2>2, <3>1, <1>7
    <3>3. y \in Ends(b) /\ y < p + MaxMatch /\ MaxMatch \in TokensAt(b, y) /\ TokenCost(b, y, MaxMatch) = cost
      BY <1>1, <1>3
    <3>4. d.costs[y] = c.costs[y]
      BY <3>3, <1>6
    <3>5. MaxMatch \in 1..i
      BY <1>1, <2>2
    <3> HIDE DEF reached
    <3> QED BY <3>1, <3>2, <3>3, <3>4, <3>5 DEF Link
  <2>3. CASE i \notin reached /\ c.costs[i] # LargeFloat
    <3>1. Link(b, c, p, i)
      BY <2>3 DEF Searched
    <3>2. PICK k : k = c.lengths[i]
      OBVIOUS
    <3>3. k \in 1..i /\ i - k < p /\ k \in TokensAt(b, i - k) /\ c.costs[i] = c.costs[i - k] + TokenCost(b, i - k, k)
      BY <3>1, <3>2 DEF Link
    <3>4. i - k \in Ends(b) /\ i - k < p + MaxMatch
      BY <3>3, <2>1, <1>1 DEF Ends
    <3>5. d.costs[i - k] = c.costs[i - k]
      BY <3>4, <1>6
    <3>6. d.costs[i] = c.costs[i] /\ d.lengths[i] = c.lengths[i]
      BY <2>1, <2>3, <1>2
    <3> QED BY <3>2, <3>3, <3>4, <3>5, <3>6 DEF Link
  <2>4. CASE i \notin reached /\ c.costs[i] = LargeFloat
    <3>1. d.costs[i] = c.costs[i]
      BY <2>1, <2>4, <1>2
    <3> QED BY <3>1, <2>4
  <2> QED BY <2>2, <2>3, <2>4
<1> QED BY <1>8, <1>9, <1>10, <1>11 DEF Searched

-----------------------------------------------------------------------------
(* The least cost of the rest of the block is one token's and the least of *)
(* the rest behind it.                                                     *)
Right(b, r, j) ==
    IF j = BlockSize(b) THEN r[j] = 0
    ELSE /\ \A k \in TokensAt(b, j) : r[j] <= TokenCost(b, j, k) + r[j + k]
         /\ \E k \in TokensAt(b, j) : r[j] = TokenCost(b, j, k) + r[j + k]

Rests(b) == [Ends(b) -> Nat]

Least(b, r, j) == Min({TokenCost(b, j, k) + r[j + k] : k \in TokensAt(b, j)})

LEMMA LeastIs ==
    ASSUME NEW b \in Blocks, NEW j \in 0..(BlockSize(b) - 1), NEW r \in Rests(b)
    PROVE  /\ Least(b, r, j) \in Nat
           /\ \A k \in TokensAt(b, j) : Least(b, r, j) <= TokenCost(b, j, k) + r[j + k]
           /\ \E k \in TokensAt(b, j) : Least(b, r, j) = TokenCost(b, j, k) + r[j + k]
<1> DEFINE S == {TokenCost(b, j, k) + r[j + k] : k \in TokensAt(b, j)}
<1>1. S \in SUBSET Nat
  <2> SUFFICES ASSUME NEW k \in TokensAt(b, j) PROVE TokenCost(b, j, k) + r[j + k] \in Nat
    OBVIOUS
  <2>1. TokenCost(b, j, k) \in 0..MaxCost /\ j + k \in Ends(b) /\ MaxCost \in Nat
    BY TokenIs, CostAssumption
  <2>2. r[j + k] \in Nat
    BY <2>1 DEF Rests
  <2> QED BY <2>1, <2>2
<1>2. S # {}
  BY DEF TokensAt
<1>3. Min(S) \in S /\ \A y \in S : Min(S) <= y
  BY <1>1, <1>2, LeastOf
<1>4. Least(b, r, j) = Min(S)
  BY DEF Least
<1>5. PICK m : m = Least(b, r, j)
  OBVIOUS
<1>6. m \in S /\ m \in Nat /\ \A y \in S : m <= y
  BY <1>1, <1>3, <1>4, <1>5
<1>7. \A k \in TokensAt(b, j) : m <= TokenCost(b, j, k) + r[j + k]
  BY <1>6
<1>8. \E k \in TokensAt(b, j) : m = TokenCost(b, j, k) + r[j + k]
  BY <1>6
<1> QED BY <1>5, <1>6, <1>7, <1>8

(* An entry further back keeps those behind it right.                      *)
LEMMA RightBehind ==
    ASSUME NEW b \in Blocks, NEW r \in Rests(b), NEW n \in 0..(BlockSize(b) - 1),
           \A j \in (n + 1)..BlockSize(b) : Right(b, r, j),
           NEW s, s = [r EXCEPT ![n] = Least(b, r, n)]
    PROVE  s \in Rests(b) /\ \A j \in n..BlockSize(b) : Right(b, s, j)
<1>1. BlockSize(b) \in Nat /\ n \in Nat /\ n \in Ends(b) /\ n # BlockSize(b)
  BY BlockSizes DEF Ends
<1>2. PICK m : m = Least(b, r, n)
  OBVIOUS
<1>3. m \in Nat
  BY <1>2, LeastIs
<1>4. s = [r EXCEPT ![n] = m]
  BY <1>2
<1>5. s \in Rests(b) /\ s[n] = m /\ \A j \in Ends(b) : j # n => s[j] = r[j]
  BY <1>1, <1>3, <1>4 DEF Rests
<1>6. ASSUME NEW j \in 0..(BlockSize(b) - 1), j >= n, NEW k \in TokensAt(b, j)
      PROVE  s[j + k] = r[j + k]
  <2>1. j + k \in Ends(b) /\ k \in Nat /\ 1 <= k
    BY TokenIs
  <2>2. j + k # n
    BY <2>1, <1>6, <1>1
  <2> QED BY <2>1, <2>2, <1>5
<1>7. ASSUME NEW j \in n..BlockSize(b) PROVE Right(b, s, j)
  <2>1. CASE j = BlockSize(b)
    <3>1. r[j] = 0 /\ s[j] = r[j]
      <4>1. j \in (n + 1)..BlockSize(b) /\ j \in Ends(b) /\ j # n
        BY <2>1, <1>1 DEF Ends
      <4> QED BY <4>1, <2>1, <1>5 DEF Right
    <3> QED BY <3>1, <2>1 DEF Right
  <2>2. CASE j # BlockSize(b) /\ j # n
    <3>1. /\ j \in (n + 1)..BlockSize(b) /\ j \in Ends(b) /\ j \in 0..(BlockSize(b) - 1) /\ j >= n
      BY <2>2, <1>1 DEF Ends
    <3>2. Right(b, r, j) /\ s[j] = r[j]
      BY <3>1, <2>2, <1>5
    <3>3. \A k \in TokensAt(b, j) : s[j + k] = r[j + k]
      BY <3>1, <1>6
    <3> QED BY <3>2, <3>3, <2>2 DEF Right
  <2>3. CASE j = n
    <3>1. \A k \in TokensAt(b, n) : s[n + k] = r[n + k]
      BY <1>1, <1>6
    <3>2. /\ \A k \in TokensAt(b, n) : m <= TokenCost(b, n, k) + r[n + k]
          /\ \E k \in TokensAt(b, n) : m = TokenCost(b, n, k) + r[n + k]
      BY <1>2, LeastIs
    <3> QED BY <3>1, <3>2, <2>3, <1>1, <1>5 DEF Right
  <2> QED BY <2>1, <2>2, <2>3
<1> QED BY <1>5, <1>7

LEMMA CheapestIs ==
    ASSUME NEW b \in Blocks
    PROVE  Cheapest(b) \in Rests(b) /\ \A j \in Ends(b) : Right(b, Cheapest(b), j)
<1> DEFINE n == BlockSize(b)
           zero == [j \in Ends(b) |-> 0]
           next(k, r) == [r EXCEPT ![n - k] =
                             Min({TokenCost(b, n - k, i) + r[n - k + i] : i \in TokensAt(b, n - k)})]
           step == [k \in 1..n |-> [r \in Rests(b) |-> next(k, r)]]
           body(f) == [k \in 0..n |-> IF k = 0 THEN zero ELSE next(k, f[k - 1])]
           g == CHOOSE f : f = body(f)
<1>0. n \in Nat /\ zero \in Rests(b)
  BY BlockSizes DEF Rests
<1>1. Cheapest(b) = g[n]
  BY DEF Cheapest
<1>2. \A k, r : next(k, r) = [r EXCEPT ![n - k] = Least(b, r, n - k)]
  BY DEF Least
<1>3. zero[n] = 0
  BY <1>0 DEF Ends
<1> HIDE DEF next, g, zero
<1>4. ASSUME NEW k \in 1..n, NEW r \in Rests(b) PROVE next(k, r) \in Rests(b)
  <2>1. n - k \in 0..(BlockSize(b) - 1)
    BY <1>0
  <2>2. Least(b, r, n - k) \in Nat
    BY <2>1, LeastIs
  <2> QED BY <2>2, <1>2 DEF Rests
<1> HIDE DEF n
<1>5. step \in [1..n -> [Rests(b) -> Rests(b)]]
  BY <1>4
<1>6. \A k \in 1..n : \A r \in Rests(b) : step[k][r] = next(k, r)
  OBVIOUS
<1> HIDE DEF step
<1>7. PICK f : IsRecursion(f, Rests(b), n, zero, step)
  <2>1. HasRecursion(Rests(b), n, zero, step)
    BY <1>0, <1>5, RecursionDefines
  <2> QED BY <2>1 DEF HasRecursion
<1>8. \A k \in 1..n : f[k] = next(k, f[k - 1])
  <2> SUFFICES ASSUME NEW k \in 1..n PROVE f[k] = next(k, f[k - 1])
    OBVIOUS
  <2>1. f[k - 1] \in Rests(b) /\ f[k] = step[k][f[k - 1]]
    BY <1>7, <1>0 DEF IsRecursion
  <2> QED BY <2>1, <1>6
<1>9. f = body(f)
  BY <1>7, <1>8, <1>0 DEF IsRecursion
<1>10. g = body(g)
  BY <1>9 DEF g
<1>11. g[0] = zero /\ \A k \in 1..n : g[k] = next(k, g[k - 1])
  BY <1>10, <1>0
<1> HIDE DEF body
<1> DEFINE S == {k \in 0..n : g[k] \in Rests(b) /\ \A j \in (n - k)..n : Right(b, g[k], j)}
<1>12. 0 \in S
  <2>1. 0 \in 0..n /\ n - 0 = n /\ \A j \in n..n : j = n
    BY <1>0
  <2>2. Right(b, zero, n)
    BY <1>3 DEF Right, n
  <2> QED BY <2>1, <2>2, <1>0, <1>11
<1>13. ASSUME NEW k \in 0..(n - 1), k \in S PROVE k + 1 \in S
  <2>1. /\ k + 1 \in 1..n /\ k + 1 \in 0..n /\ (k + 1) - 1 = k /\ n - (k + 1) \in 0..(n - 1)
        /\ (n - (k + 1)) + 1 = n - k
    BY <1>0
  <2>2. g[k] \in Rests(b) /\ \A j \in (n - k)..n : Right(b, g[k], j)
    BY <1>13
  <2>3. g[k + 1] = [g[k] EXCEPT ![n - (k + 1)] = Least(b, g[k], n - (k + 1))]
    BY <1>2, <1>11, <2>1
  <2>4. PICK m : m = n - (k + 1)
    OBVIOUS
  <2>5. PICK r : r = g[k]
    OBVIOUS
  <2>6. PICK s : s = g[k + 1]
    OBVIOUS
  <2>7. s \in Rests(b) /\ \A j \in m..BlockSize(b) : Right(b, s, j)
    <3>1. r \in Rests(b) /\ m \in 0..(BlockSize(b) - 1)
      BY <2>1, <2>2, <2>4, <2>5 DEF n
    <3>2. \A j \in (m + 1)..BlockSize(b) : Right(b, r, j)
      BY <2>1, <2>2, <2>4, <2>5 DEF n
    <3>3. s = [r EXCEPT ![m] = Least(b, r, m)]
      BY <2>3, <2>4, <2>5, <2>6
    <3> QED BY <3>1, <3>2, <3>3, RightBehind
  <2>8. g[k + 1] \in Rests(b) /\ \A j \in (n - (k + 1))..n : Right(b, g[k + 1], j)
    BY <2>4, <2>6, <2>7 DEF n
  <2> QED BY <2>1, <2>8
<1> HIDE DEF S
<1>14. n \in S
  <2>1. 0..n \subseteq S
    BY <1>0, <1>12, <1>13, SetInductionUpTo
  <2>2. n \in 0..n
    BY <1>0
  <2> QED BY <2>1, <2>2
<1>15. g[n] \in Rests(b) /\ \A j \in (n - n)..n : Right(b, g[n], j)
  BY <1>14 DEF S
<1>16. n - n = 0
  BY <1>0
<1>17. Ends(b) = 0..n
  BY DEF Ends, n
<1> QED BY <1>1, <1>15, <1>16, <1>17

-----------------------------------------------------------------------------
(* At the end every byte has a cost, that of the token that leads to it.   *)
LEMMA AllLinked ==
    ASSUME NEW b \in Blocks, NEW c, Searched(b, c, BlockSize(b)), NEW i \in 1..BlockSize(b)
    PROVE  Link(b, c, BlockSize(b), i)
<1>1. BlockSize(b) \in Nat /\ BlockSize(b) \in Ends(b) /\ i \in Ends(b) /\ i \in Nat
  BY BlockSizes DEF Ends
<1>2. c.costs[i] <= Most(i)
  <2>1. i \in 0..BlockSize(b)
    BY <1>1
  <2> QED BY <1>1, <2>1, Reached
<1>3. Most(i) < LargeFloat /\ Most(i) \in Nat /\ LargeFloat \in Nat /\ c.costs[i] \in Nat
  BY <1>1, MostIsLess, MostIs, CostAssumption DEF Searched, Typed
<1>4. c.costs[i] # LargeFloat
  BY <1>2, <1>3
<1> QED BY <1>4 DEF Searched

(* So it is not less than the cheapest way there.                          *)
LEMMA NeverCheaper ==
    ASSUME NEW b \in Blocks, NEW c, Searched(b, c, BlockSize(b))
    PROVE  c.costs[BlockSize(b)] >= Cheapest(b)[0]
<1> DEFINE n == BlockSize(b)
           least == Cheapest(b)
           S == {i \in 0..n : \A q \in 0..i : c.costs[q] + least[q] >= least[0]}
<1>1. n \in Nat /\ n \in Ends(b) /\ Ends(b) = 0..n
  BY BlockSizes DEF Ends
<1>2. least \in Rests(b) /\ \A j \in Ends(b) : Right(b, least, j)
  BY CheapestIs
<1> HIDE DEF least
<1>3. \A q \in Ends(b) : c.costs[q] \in Nat /\ least[q] \in Nat
  BY <1>2 DEF Searched, Typed, Rests
<1>4. 0 \in S
  <2>1. \A q \in 0..0 : q = 0
    OBVIOUS
  <2>2. c.costs[0] = 0 /\ least[0] \in Nat
    BY <1>1, <1>3 DEF Searched
  <2> QED BY <2>1, <2>2, <1>1
<1>5. ASSUME NEW i \in 0..(n - 1), i \in S PROVE i + 1 \in S
  <2>1. i + 1 \in 1..n /\ i + 1 \in Ends(b) /\ i \in Nat /\ i + 1 \in Nat
    BY <1>1
  <2>2. PICK e : e = i + 1
    OBVIOUS
  <2>3. Link(b, c, n, e)
    BY <2>1, <2>2, AllLinked
  <2>4. PICK k : k = c.lengths[e]
    OBVIOUS
  <2>5. PICK q : q = e - k
    OBVIOUS
  <2>6. k \in 1..e /\ k \in TokensAt(b, q) /\ c.costs[e] = c.costs[q] + TokenCost(b, q, k)
    BY <2>3, <2>4, <2>5 DEF Link
  <2>7. q \in 0..i /\ q + k = e /\ q \in 0..(n - 1) /\ q \in Ends(b) /\ q # n
    BY <2>1, <2>2, <2>5, <2>6, <1>1
  <2>8. c.costs[q] + least[q] >= least[0]
    BY <1>5, <2>7
  <2>9. least[q] <= TokenCost(b, q, k) + least[e]
    BY <1>2, <2>6, <2>7 DEF Right
  <2>10. TokenCost(b, q, k) \in 0..MaxCost
    BY <2>6, <2>7, TokenIs
  <2>11. /\ c.costs[q] \in Nat /\ c.costs[e] \in Nat /\ least[q] \in Nat /\ least[e] \in Nat
         /\ least[0] \in Nat
    BY <1>1, <1>3, <2>1, <2>2, <2>7
  <2>12. c.costs[e] + least[e] >= least[0]
    BY <2>6, <2>8, <2>9, <2>10, <2>11
  <2>13. \A x \in 0..(i + 1) : x \in 0..i \/ x = e
    BY <2>1, <2>2
  <2>14. i + 1 \in 0..n /\ \A x \in 0..(i + 1) : c.costs[x] + least[x] >= least[0]
    BY <2>1, <2>12, <2>13, <1>5
  <2> QED BY <2>14
<1> HIDE DEF S
<1>6. n \in S
  <2>1. 0..n \subseteq S
    BY <1>1, <1>4, <1>5, SetInductionUpTo
  <2> QED BY <2>1, <1>1
<1>7. c.costs[n] + least[n] >= least[0]
  BY <1>1, <1>6 DEF S
<1>8. least[n] = 0
  BY <1>1, <1>2 DEF Right
<1>9. c.costs[n] >= least[0]
  BY <1>1, <1>3, <1>7, <1>8
<1> QED BY <1>9 DEF least

(* And if every token was explored, it is not more.                        *)
LEMMA NotDearer ==
    ASSUME NEW b \in Blocks, NEW c, Typed(b, c), c.costs[0] = 0, Explored(b, c, BlockSize(b))
    PROVE  c.costs[BlockSize(b)] <= Cheapest(b)[0]
<1> DEFINE n == BlockSize(b)
           least == Cheapest(b)
           S == {m \in 0..n : \A q \in (n - m)..n : c.costs[n] <= c.costs[q] + least[q]}
<1>1. n \in Nat /\ n \in Ends(b) /\ Ends(b) = 0..n
  BY BlockSizes DEF Ends
<1>2. least \in Rests(b) /\ \A j \in Ends(b) : Right(b, least, j)
  BY CheapestIs
<1> HIDE DEF least
<1>3. \A q \in Ends(b) : c.costs[q] \in Nat /\ least[q] \in Nat
  BY <1>2 DEF Typed, Rests
<1>4. 0 \in S
  <2>1. \A q \in (n - 0)..n : q = n
    BY <1>1
  <2>2. c.costs[n] <= c.costs[n] + least[n]
    BY <1>1, <1>3
  <2> QED BY <2>1, <2>2, <1>1
<1>5. ASSUME NEW m \in 0..(n - 1), m \in S PROVE m + 1 \in S
  <2>1. PICK q : q = n - (m + 1)
    OBVIOUS
  <2>2. q \in 0..(n - 1) /\ q \in Ends(b) /\ q # n
    BY <2>1, <1>1
  <2>3. Right(b, least, q)
    BY <1>2, <2>2
  <2>4. PICK k \in TokensAt(b, q) : least[q] = TokenCost(b, q, k) + least[q + k]
    BY <2>2, <2>3 DEF Right
  <2>5. TokenCost(b, q, k) \in 0..MaxCost /\ q + k \in Ends(b) /\ k \in Nat /\ 1 <= k
    BY <2>2, TokenIs
  <2>6. c.costs[q + k] <= c.costs[q] + TokenCost(b, q, k)
    BY <2>2 DEF Explored
  <2>7. q + k \in (n - m)..n
    BY <2>1, <2>5, <1>1
  <2>8. c.costs[n] <= c.costs[q + k] + least[q + k]
    BY <2>7, <1>5
  <2>9. PICK e : e = q + k
    OBVIOUS
  <2>10. /\ c.costs[q] \in Nat /\ c.costs[e] \in Nat /\ least[q] \in Nat /\ least[e] \in Nat
         /\ c.costs[n] \in Nat
    BY <1>1, <1>3, <2>2, <2>5, <2>9
  <2>11. c.costs[n] <= c.costs[q] + least[q]
    BY <2>4, <2>5, <2>6, <2>8, <2>9, <2>10
  <2>12. \A x \in (n - (m + 1))..n : x \in (n - m)..n \/ x = q
    BY <2>1, <1>1
  <2>13. m + 1 \in 0..n /\ \A x \in (n - (m + 1))..n : c.costs[n] <= c.costs[x] + least[x]
    BY <2>11, <2>12, <1>1, <1>5
  <2> QED BY <2>13
<1> HIDE DEF S
<1>6. n \in S
  <2>1. 0..n \subseteq S
    BY <1>1, <1>4, <1>5, SetInductionUpTo
  <2> QED BY <2>1, <1>1
<1>7. c.costs[n] <= c.costs[0] + least[0]
  <2>1. 0 \in (n - n)..n
    BY <1>1
  <2> QED BY <2>1, <1>6 DEF S
<1>8. c.costs[n] <= least[0]
  BY <1>1, <1>3, <1>7
<1> QED BY <1>8 DEF least

-----------------------------------------------------------------------------
arrays == [costs |-> costs, lengths |-> lengthArray]

(* The path leads from byte to byte, by the lengths in the array.          *)
IsWay(b, c, way, from, p) ==
    /\ way \in [1..(Len(p) + 1) -> Ends(b)] /\ way[1] = from /\ way[Len(p) + 1] = BlockSize(b)
    /\ \A n \in 1..Len(p) :
          way[n] < way[n + 1] /\ way[n + 1] = way[n] + p[n] /\ p[n] = c.lengths[way[n + 1]]

Leads(b, c, from, p) == \E way : IsWay(b, c, way, from, p)

(* A token that is stored is the one that the search took to its end.      *)
Token == [pos: Nat, length: Nat, dist: Nat]

Taken(b, c, t) ==
    /\ t.pos \in 0..(BlockSize(b) - 1) /\ t.length \in TokensAt(b, t.pos)
    /\ c.costs[t.pos + t.length] = c.costs[t.pos] + TokenCost(b, t.pos, t.length)
    /\ t.dist # 0 => Common(b, t.pos, t.dist) >= t.length

Stored(b, c, s, to) ==
    /\ s \in Seq(Token)
    /\ IF s = <<>> THEN to = 0 ELSE s[1].pos = 0 /\ s[Len(s)].pos + s[Len(s)].length = to
    /\ \A n \in 1..(Len(s) - 1) : s[n + 1].pos = s[n].pos + s[n].length
    /\ \A n \in 1..Len(s) : Taken(b, c, s[n])

(* What is searched, and explored where no long run is stepped through.    *)
searchedTo == IF pc = "relax" THEN pos ELSE BlockSize(block)

Plain == block.model.fixed \/ \A j \in 0..(BlockSize(block) - 1) : ~Jump(block, j)

(* The inductive invariant: the types, what has been searched, and where   *)
(* the path and the tokens lead.                                           *)
TypeOK ==
    /\ block \in Blocks /\ pc \in {"relax", "trace", "follow"}
    /\ pos \in Ends(block) /\ Typed(block, arrays)
    /\ path \in Seq(Nat) /\ store \in Seq(Token)

SearchInvariant ==
    /\ Searched(block, arrays, searchedTo)
    /\ Plain => Explored(block, arrays, searchedTo)

PathInvariant ==
    /\ pc = "relax" => path = <<>>
    /\ pc # "follow" => store = <<>>
    /\ pc = "trace" => pos # 0
    /\ pc # "relax" => Leads(block, arrays, pos, path)
    /\ pc = "follow" => Stored(block, arrays, store, pos)

Invariant == TypeOK /\ SearchInvariant /\ PathInvariant

LEMMA InvariantInit == Init => Invariant
<1> SUFFICES ASSUME Init PROVE Invariant
  OBVIOUS
<1>1. block \in Blocks /\ BlockSize(block) \in Nat /\ 0 \in Ends(block) /\ LargeFloat \in Nat
  BY BlockSizes, CostAssumption DEF Init, Ends
<1>2. MaxMatch \in Nat
  BY LengthAssumption
<1>3. Typed(block, arrays)
  BY <1>1, <1>2 DEF Init, Typed, arrays
<1>4. arrays.costs = [k \in Ends(block) |-> IF k = 0 THEN 0 ELSE LargeFloat]
  BY DEF Init, arrays
<1>5. \A i \in 1..BlockSize(block) : i \in Ends(block) /\ i # 0
  BY <1>1 DEF Ends
<1>6. searchedTo = 0 /\ \A q \in 0..(0 - 1) : FALSE
  BY DEF searchedTo, Init
<1>7. Searched(block, arrays, 0)
  BY <1>1, <1>3, <1>4, <1>5, <1>6 DEF Searched
<1>8. Explored(block, arrays, 0)
  BY <1>6 DEF Explored
<1>9. TypeOK
  BY <1>1, <1>3 DEF TypeOK, Init
<1>10. PathInvariant
  BY DEF PathInvariant, Init
<1> QED BY <1>6, <1>7, <1>8, <1>9, <1>10 DEF Invariant, SearchInvariant

(* The arrays after one byte.                                              *)
LEMMA ByteArrays ==
    ASSUME NEW b, NEW c, NEW j, NEW runs
    PROVE  \E C, L : RelaxByte(b, c, j, runs) = [costs |-> C, lengths |-> L]
<1>1. PICK e : e = Improve(c, j, 1, c.costs[j] + b.model.literal[Byte(b, j)])
  OBVIOUS
<1>2. RelaxByte(b, c, j, runs) = RelaxMatches(b, e, j, runs)
  BY <1>1 DEF RelaxByte
<1>3. \E C, L : RelaxMatches(b, e, j, runs) = [costs |-> C, lengths |-> L]
  BY DEF RelaxMatches
<1> QED BY <1>2, <1>3

LEMMA RelaxKeeps ==
    ASSUME Invariant, Relax
    PROVE  Invariant'
<1> DEFINE jump == ~block.model.fixed /\ Jump(block, pos)
           j == IF jump THEN pos + MaxMatch ELSE pos
           c == IF jump THEN Jumped(block, arrays, pos) ELSE arrays
<1>1. /\ block \in Blocks /\ block' = block /\ pc = "relax" /\ pc' = "relax" /\ pos < BlockSize(block)
      /\ path' = path /\ store' = store /\ pos' = j + 1
  BY DEF Relax, Invariant, TypeOK, arrays
<1>2. /\ BlockSize(block) \in Nat /\ pos \in Nat /\ pos \in Ends(block) /\ MaxMatch \in Nat
      /\ pos \in 0..(BlockSize(block) - 1)
  BY <1>1, BlockSizes, LengthAssumption DEF Ends, Invariant, TypeOK
<1>3. PICK runs \in Answers(block, j) :
         /\ costs' = RelaxByte(block, c, j, runs).costs
         /\ lengthArray' = RelaxByte(block, c, j, runs).lengths
  BY DEF Relax, arrays
<1>4. PICK d : d = RelaxByte(block, c, j, runs)
  OBVIOUS
<1>5. arrays' = d
  <2> HIDE DEF c, j, jump
  <2>1. PICK C, L : d = [costs |-> C, lengths |-> L]
    BY <1>4, ByteArrays
  <2>2. costs' = C /\ lengthArray' = L
    BY <1>3, <1>4, <2>1
  <2> QED BY <2>1, <2>2 DEF arrays
<1>6. Searched(block, arrays, pos) /\ (Plain => Explored(block, arrays, pos))
  BY <1>1 DEF Invariant, SearchInvariant, searchedTo
<1>7. /\ j \in 0..(BlockSize(block) - 1) /\ Searched(block, c, j)
      /\ (Plain => Explored(block, c, j))
  <2>1. CASE jump
    <3>1. j = pos + MaxMatch /\ c = Jumped(block, arrays, pos)
      BY <2>1
    <3>2. pos + MaxMatch * 2 + 1 < BlockSize(block)
      BY <2>1 DEF Jump
    <3>3. Searched(block, c, pos + MaxMatch)
      BY <2>1, <3>1, <1>1, <1>2, <1>6, JumpSearched
    <3>4. ~ Plain
      BY <2>1, <1>2 DEF Plain
    <3>5. pos + MaxMatch \in 0..(BlockSize(block) - 1)
      BY <3>2, <1>2
    <3> HIDE DEF c, j, jump
    <3> QED BY <3>1, <3>3, <3>4, <3>5
  <2>2. CASE ~ jump
    <3>1. j = pos /\ c = arrays
      BY <2>2
    <3> HIDE DEF c, j, jump
    <3> QED BY <3>1, <1>2, <1>6
  <2> QED BY <2>1, <2>2
<1> HIDE DEF c, j, jump
<1>8. Typed(block, c)
  BY <1>7 DEF Searched
<1>9. Effect(block, c, j, d)
  BY <1>1, <1>4, <1>7, <1>8, ByteEffect
<1>10. Searched(block, d, j + 1)
  BY <1>1, <1>7, <1>9, ByteSearched
<1>11. Plain => Explored(block, d, j + 1)
  BY <1>1, <1>7, <1>8, <1>9, ByteExplored
<1>12. searchedTo' = j + 1
  BY <1>1 DEF searchedTo
<1>13. Plain' <=> Plain
  BY <1>1 DEF Plain
<1>14. SearchInvariant'
  BY <1>1, <1>5, <1>10, <1>11, <1>12, <1>13 DEF SearchInvariant
<1>15. TypeOK'
  <2>1. Typed(block, d)
    BY <1>10 DEF Searched
  <2>2. j + 1 \in Ends(block)
    BY <1>2, <1>7 DEF Ends
  <2> QED BY <1>1, <1>5, <2>1, <2>2 DEF TypeOK, Invariant
<1>16. PathInvariant'
  BY <1>1 DEF PathInvariant, Invariant
<1> QED BY <1>14, <1>15, <1>16 DEF Invariant

(* The steps that follow leave the arrays alone.                           *)
LEMMA SearchStays ==
    ASSUME Invariant, UNCHANGED <<block, costs, lengthArray>>, searchedTo' = searchedTo
    PROVE  SearchInvariant' /\ Typed(block, arrays)' /\ arrays' = arrays
<1>1. arrays' = arrays /\ (Plain' <=> Plain) /\ block' = block
  BY DEF arrays, Plain
<1>2. Typed(block, arrays)'
  BY <1>1 DEF Invariant, TypeOK
<1>3. SearchInvariant'
  BY <1>1 DEF Invariant, SearchInvariant
<1> QED BY <1>1, <1>2, <1>3

LEMMA RelaxedKeeps ==
    ASSUME Invariant, Relaxed
    PROVE  Invariant'
<1>1. /\ block \in Blocks /\ block' = block /\ pc = "relax" /\ pc' = "trace" /\ pos = BlockSize(block)
      /\ pos' = pos /\ path' = path /\ store' = store /\ path = <<>> /\ store = <<>>
  BY DEF Relaxed, Invariant, TypeOK, PathInvariant
<1>2. searchedTo' = searchedTo
  BY <1>1 DEF searchedTo
<1>3. SearchInvariant' /\ Typed(block, arrays)' /\ arrays' = arrays
  BY <1>2, SearchStays DEF Relaxed
<1>4. BlockSize(block) \in Nat /\ BlockSize(block) # 0 /\ BlockSize(block) \in Ends(block)
  BY <1>1, BlockSizes DEF Ends
<1>5. Leads(block, arrays, pos, <<>>)
  <2> DEFINE way == [n \in 1..(Len(<<>>) + 1) |-> BlockSize(block)]
  <2>1. IsWay(block, arrays, way, pos, <<>>)
    BY <1>1, <1>4 DEF IsWay
  <2> QED BY <2>1 DEF Leads
<1>6. TypeOK'
  BY <1>1, <1>3 DEF TypeOK, Invariant
<1>7. PathInvariant'
  BY <1>1, <1>3, <1>4, <1>5 DEF PathInvariant
<1> QED BY <1>3, <1>6, <1>7 DEF Invariant

(* One step back along the lengths.                                        *)
LEMMA WayBack ==
    ASSUME NEW b \in Blocks, NEW c, NEW p \in Seq(Nat), NEW from \in Ends(b), Leads(b, c, from, p),
           NEW k \in Nat, k = c.lengths[from], 1 <= k, k <= from
    PROVE  Leads(b, c, from - k, <<k>> \o p)
<1>1. PICK way : IsWay(b, c, way, from, p)
  BY DEF Leads
<1>2. Len(p) \in Nat /\ BlockSize(b) \in Nat /\ from \in Nat /\ from - k \in Ends(b)
  BY BlockSizes DEF Ends
<1>3. PICK s : s = <<k>> \o p
  OBVIOUS
<1>4. Len(s) = Len(p) + 1 /\ s[1] = k /\ \A n \in 1..Len(p) : s[n + 1] = p[n]
  BY <1>2, <1>3
<1> DEFINE w == [n \in 1..(Len(s) + 1) |-> IF n = 1 THEN from - k ELSE way[n - 1]]
<1>5. way \in [1..(Len(p) + 1) -> Ends(b)] /\ way[1] = from /\ way[Len(p) + 1] = BlockSize(b)
  BY <1>1 DEF IsWay
<1>6. w \in [1..(Len(s) + 1) -> Ends(b)]
  <2> SUFFICES ASSUME NEW n \in 1..(Len(s) + 1) PROVE w[n] \in Ends(b)
    OBVIOUS
  <2>1. n = 1 \/ n - 1 \in 1..(Len(p) + 1)
    BY <1>2, <1>4
  <2> QED BY <2>1, <1>2, <1>5
<1>7. w[1] = from - k /\ \A n \in 1..(Len(p) + 1) : w[n + 1] = way[n]
  BY <1>2, <1>4
<1> HIDE DEF w
<1>8. w[Len(s) + 1] = BlockSize(b)
  BY <1>2, <1>4, <1>5, <1>7
<1>9. ASSUME NEW n \in 1..Len(s)
      PROVE  w[n] < w[n + 1] /\ w[n + 1] = w[n] + s[n] /\ s[n] = c.lengths[w[n + 1]]
  <2>1. CASE n = 1
    <3>1. w[1] = from - k /\ w[1 + 1] = from /\ s[1] = k
      BY <1>2, <1>4, <1>5, <1>7
    <3>2. from - k < from /\ (from - k) + k = from
      BY <1>2
    <3>3. w[1] < w[1 + 1] /\ w[1 + 1] = w[1] + s[1] /\ s[1] = c.lengths[w[1 + 1]]
      BY <3>1, <3>2
    <3> QED BY <3>3, <2>1
  <2>2. CASE n # 1
    <3>1. PICK m \in 1..Len(p) : n = m + 1
      <4>1. n - 1 \in 1..Len(p) /\ n = (n - 1) + 1
        BY <2>2, <1>2, <1>4
      <4> QED BY <4>1
    <3>2. w[m + 1] = way[m] /\ w[(m + 1) + 1] = way[m + 1] /\ s[m + 1] = p[m]
      <4>1. m \in 1..(Len(p) + 1) /\ m + 1 \in 1..(Len(p) + 1)
        BY <1>2
      <4> QED BY <4>1, <1>4, <1>7
    <3>3. way[m] < way[m + 1] /\ way[m + 1] = way[m] + p[m] /\ p[m] = c.lengths[way[m + 1]]
      BY <1>1 DEF IsWay
    <3> QED BY <3>1, <3>2, <3>3
  <2> QED BY <2>1, <2>2
<1>10. IsWay(b, c, w, from - k, s)
  BY <1>6, <1>7, <1>8, <1>9 DEF IsWay
<1> QED BY <1>3, <1>10 DEF Leads

(* One step on along the path.                                             *)
GoesOn(b, c, p, from, k) ==
    /\ Leads(b, c, from + k, Tail(p)) /\ from + k \in Ends(b)
    /\ from < from + k /\ k = c.lengths[from + k]

LEMMA WayOn ==
    ASSUME NEW b \in Blocks, NEW c, NEW p \in Seq(Nat), NEW from \in Ends(b),
           Leads(b, c, from, p), p # <<>>, NEW k \in Nat, k = Head(p)
    PROVE  GoesOn(b, c, p, from, k)
<1>1. PICK way : IsWay(b, c, way, from, p)
  BY DEF Leads
<1>2. Len(p) \in Nat /\ Len(p) >= 1 /\ k = p[1]
  OBVIOUS
<1>3. PICK s : s = Tail(p)
  OBVIOUS
<1>4. Len(s) = Len(p) - 1 /\ \A n \in 1..Len(s) : s[n] = p[n + 1]
  BY <1>2, <1>3
<1> DEFINE w == [n \in 1..(Len(s) + 1) |-> way[n + 1]]
<1>5. /\ way \in [1..(Len(p) + 1) -> Ends(b)] /\ way[1] = from /\ way[Len(p) + 1] = BlockSize(b)
      /\ \A n \in 1..Len(p) :
          way[n] < way[n + 1] /\ way[n + 1] = way[n] + p[n] /\ p[n] = c.lengths[way[n + 1]]
  BY <1>1 DEF IsWay
<1>6. way[1 + 1] = from + k /\ from < from + k /\ k = c.lengths[from + k] /\ from + k \in Ends(b)
  <2>1. 1 \in 1..Len(p) /\ 1 + 1 \in 1..(Len(p) + 1) /\ 1 \in 1..(Len(p) + 1)
    BY <1>2
  <2> QED BY <2>1, <1>2, <1>5
<1>7. \A n \in 1..(Len(s) + 1) : n + 1 \in 1..(Len(p) + 1)
  BY <1>2, <1>4
<1>8. w \in [1..(Len(s) + 1) -> Ends(b)]
  BY <1>5, <1>7
<1>9. w[1] = from + k /\ w[Len(s) + 1] = BlockSize(b)
  <2>1. 1 \in 1..(Len(s) + 1) /\ Len(s) + 1 \in 1..(Len(s) + 1) /\ (Len(s) + 1) + 1 = Len(p) + 1
    BY <1>2, <1>4
  <2> QED BY <2>1, <1>5, <1>6
<1>10. ASSUME NEW n \in 1..Len(s)
       PROVE  w[n] < w[n + 1] /\ w[n + 1] = w[n] + s[n] /\ s[n] = c.lengths[w[n + 1]]
  <2>1. n \in 1..(Len(s) + 1) /\ n + 1 \in 1..(Len(s) + 1) /\ n + 1 \in 1..Len(p)
    BY <1>2, <1>4
  <2>2. w[n] = way[n + 1] /\ w[n + 1] = way[(n + 1) + 1] /\ s[n] = p[n + 1]
    BY <2>1, <1>4
  <2> HIDE DEF w
  <2> QED BY <2>1, <2>2, <1>5
<1> HIDE DEF w
<1>11. IsWay(b, c, w, from + k, s)
  BY <1>8, <1>9, <1>10 DEF IsWay
<1>12. Leads(b, c, from + k, Tail(p))
  BY <1>3, <1>11 DEF Leads
<1> QED BY <1>6, <1>12 DEF GoesOn

LEMMA TraceKeeps ==
    ASSUME Invariant, Trace
    PROVE  Invariant'
<1>1. /\ block \in Blocks /\ block' = block /\ pc = "trace" /\ pos \in Ends(block) /\ pos # 0
      /\ path \in Seq(Nat) /\ store = <<>> /\ store' = store /\ Leads(block, arrays, pos, path)
  BY DEF Trace, Invariant, TypeOK, PathInvariant
<1>2. BlockSize(block) \in Nat /\ pos \in Nat /\ pos \in 1..BlockSize(block)
  BY <1>1, BlockSizes DEF Ends
<1>3. Searched(block, arrays, BlockSize(block))
  BY <1>1 DEF Invariant, SearchInvariant, searchedTo
<1>4. Link(block, arrays, BlockSize(block), pos)
  BY <1>1, <1>2, <1>3, AllLinked
<1>5. PICK k : k = lengthArray[pos]
  OBVIOUS
<1>6. k \in 1..pos /\ k = arrays.lengths[pos]
  BY <1>4, <1>5 DEF Link, arrays
<1>7. /\ path' = <<k>> \o path /\ pos' = pos - k
      /\ pc' = IF pos - k = 0 THEN "follow" ELSE "trace"
  BY <1>5 DEF Trace
<1>8. k \in Nat /\ 1 <= k /\ k <= pos
  BY <1>2, <1>6
<1>9. Leads(block, arrays, pos - k, <<k>> \o path)
  BY <1>1, <1>6, <1>8, WayBack
<1>10. searchedTo' = searchedTo
  BY <1>1, <1>7 DEF searchedTo
<1>11. SearchInvariant' /\ Typed(block, arrays)' /\ arrays' = arrays
  BY <1>10, SearchStays DEF Trace
<1>12. <<k>> \o path \in Seq(Nat)
  <2>1. <<k>> \in Seq(Nat)
    BY <1>8
  <2> QED BY <2>1, <1>1, ConcatProperties
<1>13. TypeOK'
  <2>1. pos - k \in Ends(block)
    BY <1>2, <1>8 DEF Ends
  <2>2. pc' \in {"relax", "trace", "follow"}
    BY <1>7
  <2> QED BY <1>1, <1>7, <1>11, <1>12, <2>1, <2>2 DEF TypeOK
<1>14. PathInvariant'
  <2>1. Stored(block, arrays, <<>>, 0)
    <3>1. <<>> \in Seq(Token) /\ Len(<<>>) = 0
      OBVIOUS
    <3> QED BY <3>1 DEF Stored
  <2>2. pc' = "follow" => pos' = 0
    BY <1>7
  <2>3. pc' = "trace" => pos' # 0
    BY <1>7
  <2>4. pc' # "relax"
    BY <1>7
  <2>5. Leads(block, arrays, pos, path)'
    BY <1>1, <1>7, <1>9, <1>11
  <2>6. (pc = "follow" => Stored(block, arrays, store, pos))'
    BY <1>1, <1>11, <2>1, <2>2
  <2> QED BY <1>1, <2>3, <2>4, <2>5, <2>6 DEF PathInvariant
<1> QED BY <1>11, <1>13, <1>14 DEF Invariant

(* The token that is stored for a length of the path.                      *)
LEMMA TokenTaken ==
    ASSUME NEW b \in Blocks, NEW c, NEW j \in 0..(BlockSize(b) - 1), NEW k \in TokensAt(b, j),
           c.costs[j + k] = c.costs[j] + TokenCost(b, j, k), NEW t, t = TokenAt(b, j, k)
    PROVE  t \in Token /\ t.pos = j /\ t.length = k /\ Taken(b, c, t)
<1>1. j \in Nat /\ j \in Ends(b) /\ MinMatch \in Nat /\ 1 < MinMatch /\ k \in Nat
  BY BlockSizes, LengthAssumption, TokenIs DEF Ends
<1>2. CASE k = 1
  <2>1. t = [pos |-> j, length |-> 1, dist |-> 0]
    BY <1>1, <1>2 DEF TokenAt
  <2> QED BY <2>1, <1>1, <1>2 DEF Token, Taken
<1>3. CASE k \in MinMatch..Longest(b, j)
  <2>1. t = [pos |-> j, length |-> k, dist |-> Distance(b, j, k)]
    BY <1>1, <1>3 DEF TokenAt
  <2>2. Distance(b, j, k) \in Nat /\ Common(b, j, Distance(b, j, k)) >= k
    <3>1. Distance(b, j, k) \in 1..(b.start + j) /\ Common(b, j, Distance(b, j, k)) >= k
      BY <1>1, <1>3, DistanceIs
    <3>2. b.start + j \in Nat
      BY <1>1, BlockSizes
    <3> QED BY <3>1, <3>2
  <2> QED BY <2>1, <2>2, <1>1 DEF Token, Taken
<1> QED BY <1>2, <1>3 DEF TokensAt

LEMMA StoredNext ==
    ASSUME NEW b, NEW c, NEW s, NEW to, Stored(b, c, s, to),
           NEW t \in Token, t.pos = to, Taken(b, c, t)
    PROVE  Stored(b, c, Append(s, t), to + t.length)
<1>1. s \in Seq(Token) /\ Len(s) \in Nat
  BY DEF Stored
<1>2. PICK u : u = Append(s, t)
  OBVIOUS
<1>3. /\ u \in Seq(Token) /\ Len(u) = Len(s) + 1 /\ u[Len(s) + 1] = t /\ u # <<>>
      /\ \A n \in 1..Len(s) : u[n] = s[n]
  BY <1>1, <1>2
<1>4. \A n \in 1..Len(u) : n \in 1..Len(s) \/ n = Len(s) + 1
  BY <1>1, <1>3
<1>5. \A n \in 1..Len(u) : Taken(b, c, u[n])
  BY <1>3, <1>4 DEF Stored
<1>6. CASE s = <<>>
  <2>1. Len(s) = 0 /\ Len(u) = 1 /\ u[1] = t /\ to = 0
    BY <1>3, <1>6 DEF Stored
  <2> QED BY <2>1, <1>2, <1>3, <1>5 DEF Stored
<1>7. CASE s # <<>>
  <2>1. s[1].pos = 0 /\ s[Len(s)].pos + s[Len(s)].length = to /\ Len(s) >= 1
    BY <1>1, <1>7 DEF Stored
  <2>2. u[1] = s[1] /\ u[Len(s)] = s[Len(s)] /\ u[Len(u)] = t
    BY <2>1, <1>1, <1>3
  <2>3. ASSUME NEW n \in 1..(Len(u) - 1) PROVE u[n + 1].pos = u[n].pos + u[n].length
    <3>1. CASE n = Len(s)
      BY <3>1, <2>1, <2>2, <1>3
    <3>2. CASE n # Len(s)
      <4>1. n \in 1..(Len(s) - 1) /\ n \in 1..Len(s) /\ n + 1 \in 1..Len(s)
        BY <3>2, <1>1, <1>3
      <4> QED BY <4>1, <1>3 DEF Stored
    <3> QED BY <3>1, <3>2
  <2> QED BY <2>1, <2>2, <2>3, <1>2, <1>3, <1>5 DEF Stored
<1> QED BY <1>6, <1>7

LEMMA FollowKeeps ==
    ASSUME Invariant, Follow
    PROVE  Invariant'
<1>1. /\ block \in Blocks /\ block' = block /\ pc = "follow" /\ pc' = pc /\ pos \in Ends(block)
      /\ path \in Seq(Nat) /\ path # <<>> /\ Leads(block, arrays, pos, path)
      /\ Stored(block, arrays, store, pos)
  BY DEF Follow, Invariant, TypeOK, PathInvariant
<1>2. BlockSize(block) \in Nat /\ Ends(block) = 0..BlockSize(block)
  BY <1>1, BlockSizes DEF Ends
<1>3. Searched(block, arrays, BlockSize(block))
  BY <1>1 DEF Invariant, SearchInvariant, searchedTo
<1>4. PICK k : k = Head(path)
  OBVIOUS
<1>5. k \in Nat
  BY <1>1, <1>4
<1>6. /\ Leads(block, arrays, pos + k, Tail(path)) /\ pos + k \in Ends(block)
      /\ pos < pos + k /\ k = arrays.lengths[pos + k]
  <2>1. PICK c, p, from : c = arrays /\ p = path /\ from = pos
    OBVIOUS
  <2>2. /\ p \in Seq(Nat) /\ from \in Ends(block) /\ Leads(block, c, from, p) /\ p # <<>>
        /\ k = Head(p)
    BY <1>1, <1>4, <2>1
  <2>3. GoesOn(block, c, p, from, k)
    BY <1>1, <1>5, <2>2, WayOn
  <2> QED BY <2>1, <2>3 DEF GoesOn
<1>7. pos \in 0..(BlockSize(block) - 1) /\ pos + k \in 1..BlockSize(block) /\ (pos + k) - k = pos
  BY <1>1, <1>2, <1>5, <1>6
<1>8. k \in TokensAt(block, pos) /\ arrays.costs[pos + k] = arrays.costs[pos] + TokenCost(block, pos, k)
  <2>1. PICK i : i = pos + k
    OBVIOUS
  <2>2. Link(block, arrays, BlockSize(block), i)
    BY <2>1, <1>1, <1>3, <1>7, AllLinked
  <2>3. arrays.lengths[i] = k /\ i - k = pos
    BY <2>1, <1>6, <1>7
  <2> QED BY <2>1, <2>2, <2>3 DEF Link
<1>9. PICK t : t = TokenAt(block, pos, k)
  OBVIOUS
<1>10. t \in Token /\ t.pos = pos /\ t.length = k /\ Taken(block, arrays, t)
  BY <1>1, <1>7, <1>8, <1>9, TokenTaken
<1>11. store' = Append(store, t) /\ pos' = pos + k /\ path' = Tail(path)
  <2>1. store' = Append(store, t) /\ pos' = pos + t.length
    BY <1>4, <1>9 DEF Follow
  <2> QED BY <2>1, <1>10 DEF Follow
<1>12. Stored(block, arrays, Append(store, t), pos + k)
  BY <1>1, <1>10, StoredNext
<1>13. searchedTo' = searchedTo
  BY <1>1 DEF searchedTo
<1>14. SearchInvariant' /\ Typed(block, arrays)' /\ arrays' = arrays
  BY <1>13, SearchStays DEF Follow
<1>15. TypeOK'
  <2>1. Tail(path) \in Seq(Nat) /\ Append(store, t) \in Seq(Token)
    BY <1>1, <1>12 DEF Stored
  <2> QED BY <2>1, <1>1, <1>6, <1>11, <1>14 DEF TypeOK
<1>16. PathInvariant'
  <2>1. Leads(block, arrays, pos, path)'
    BY <1>1, <1>6, <1>11, <1>14
  <2>2. Stored(block, arrays, store, pos)'
    BY <1>1, <1>11, <1>12, <1>14
  <2> QED BY <2>1, <2>2, <1>1 DEF PathInvariant
<1> QED BY <1>14, <1>15, <1>16 DEF Invariant

LEMMA StutterKeeps ==
    ASSUME Invariant, UNCHANGED vars
    PROVE  Invariant'
<1>1. /\ block' = block /\ pc' = pc /\ pos' = pos /\ costs' = costs /\ lengthArray' = lengthArray
      /\ path' = path /\ store' = store
  BY DEF vars
<1>2. searchedTo' = searchedTo
  BY <1>1 DEF searchedTo
<1>3. SearchInvariant' /\ Typed(block, arrays)' /\ arrays' = arrays
  BY <1>1, <1>2, SearchStays
<1>4. TypeOK'
  BY <1>1, <1>3 DEF Invariant, TypeOK
<1>5. PathInvariant'
  BY <1>1, <1>3 DEF Invariant, PathInvariant
<1> QED BY <1>3, <1>4, <1>5 DEF Invariant

LEMMA InvariantStep == Invariant /\ [Next]_vars => Invariant'
<1> SUFFICES ASSUME Invariant, [Next]_vars PROVE Invariant'
  OBVIOUS
<1>1. CASE Relax
  BY <1>1, RelaxKeeps
<1>2. CASE Relaxed
  BY <1>2, RelaxedKeeps
<1>3. CASE Trace
  BY <1>3, TraceKeeps
<1>4. CASE Follow
  BY <1>4, FollowKeeps
<1>5. CASE Followed
  BY <1>5, StutterKeeps DEF Followed
<1>6. CASE UNCHANGED vars
  BY <1>6, StutterKeeps
<1> QED BY <1>1, <1>2, <1>3, <1>4, <1>5, <1>6 DEF Next

(* The arrays of the search are well formed, each cost that was reached is *)
(* that of a token, and the path and the tokens lead along them (lz77-     *)
(* OptimalRunStat, lz77OptimalRunFixed).                                   *)
THEOREM SearchIsSound == Spec => []Invariant
<1>1. Init => Invariant
  BY InvariantInit
<1>2. Invariant /\ [Next]_vars => Invariant'
  BY InvariantStep
<1> QED BY <1>1, <1>2, PTL DEF Spec

-----------------------------------------------------------------------------
(* The search returns the cost of the cheapest parse of the block: never   *)
(* less, and not more where no long run is stepped through unseen.         *)
THEOREM SearchFindsCheapest == Spec => []CheapestParse
<1>1. Invariant => CheapestParse
  <2> SUFFICES ASSUME Invariant, pc = "trace", pos = BlockSize(block)
               PROVE  /\ costs[pos] >= Cheapest(block)[0]
                      /\ Plain => costs[pos] = Cheapest(block)[0]
    BY BlockSizes DEF CheapestParse, Plain
  <2>1. block \in Blocks /\ Typed(block, arrays) /\ pos \in Ends(block) /\ arrays.costs = costs
    BY DEF Invariant, TypeOK, arrays
  <2>2. Searched(block, arrays, BlockSize(block)) /\ (Plain => Explored(block, arrays, BlockSize(block)))
    BY DEF Invariant, SearchInvariant, searchedTo
  <2>3. costs[pos] >= Cheapest(block)[0]
    BY <2>1, <2>2, NeverCheaper
  <2>4. arrays.costs[0] = 0
    BY <2>2 DEF Searched
  <2>5. Plain => costs[pos] <= Cheapest(block)[0]
    BY <2>1, <2>2, <2>4, NotDearer
  <2>6. costs[pos] \in Nat /\ Cheapest(block)[0] \in Nat
    <3>1. 0 \in Ends(block)
      BY <2>1, BlockSizes DEF Ends
    <3>2. Cheapest(block) \in Rests(block)
      BY <2>1, CheapestIs
    <3> QED BY <3>1, <3>2, <2>1 DEF Rests, Typed
  <2> QED BY <2>3, <2>5, <2>6
<1> QED BY <1>1, SearchIsSound, PTL

(* What the tokens cost, one by one, is what the search said of their end. *)
LEMMA StoreCosts ==
    ASSUME block \in Blocks, Typed(block, arrays), costs[0] = 0, NEW to,
           Stored(block, arrays, store, to), store # <<>>
    PROVE  StoreCost = costs[to]
<1> DEFINE n == Len(store)
           cost(k) == TokenCost(block, store[k].pos, store[k].length)
           step == [k \in 1..n |-> [v \in Nat |-> v + cost(k)]]
           body(f) == [k \in 0..n |-> IF k = 0 THEN 0 ELSE f[k - 1] + cost(k)]
           g == CHOOSE f : f = body(f)
           at(k) == IF k = 0 THEN 0 ELSE store[k].pos + store[k].length
           S == {k \in 0..n : g[k] = costs[at(k)]}
<1>0. n \in Nat /\ n >= 1
  BY DEF Stored
<1>1. StoreCost = g[n]
  BY DEF StoreCost
<1>2. ASSUME NEW k \in 1..n
      PROVE  /\ store[k].pos = at(k - 1) /\ at(k) = store[k].pos + store[k].length
             /\ costs[at(k)] = costs[at(k - 1)] + cost(k) /\ cost(k) \in Nat
  <2>1. Taken(block, arrays, store[k])
    BY DEF Stored
  <2>2. cost(k) \in Nat
    <3>1. cost(k) \in 0..MaxCost /\ MaxCost \in Nat
      BY <2>1, TokenIs, CostAssumption DEF Taken
    <3> HIDE DEF cost
    <3> QED BY <3>1
  <2>3. at(k) = store[k].pos + store[k].length
    OBVIOUS
  <2>4. store[k].pos = at(k - 1)
    <3>1. CASE k = 1
      BY <3>1 DEF Stored
    <3>2. CASE k # 1
      <4>1. PICK m \in 1..(n - 1) : k = m + 1
        <5>1. k - 1 \in 1..(n - 1) /\ k = (k - 1) + 1
          BY <3>2, <1>0
        <5> QED BY <5>1
      <4>2. store[m + 1].pos = store[m].pos + store[m].length
        BY DEF Stored
      <4>3. k - 1 = m /\ m # 0
        BY <4>1
      <4> QED BY <4>1, <4>2, <4>3
    <3> QED BY <3>1, <3>2
  <2>5. costs[store[k].pos + store[k].length] = costs[store[k].pos] + cost(k)
    BY <2>1 DEF Taken, arrays
  <2> HIDE DEF at, cost
  <2> QED BY <2>2, <2>3, <2>4, <2>5
<1>3. at(0) = 0 /\ at(n) = to
  BY <1>0 DEF Stored
<1> HIDE DEF at, cost, n, g
<1>4. step \in [1..n -> [Nat -> Nat]]
  BY <1>2
<1>5. \A k \in 1..n : \A v \in Nat : step[k][v] = v + cost(k)
  OBVIOUS
<1> HIDE DEF step
<1>6. PICK f : IsRecursion(f, Nat, n, 0, step)
  <2>1. HasRecursion(Nat, n, 0, step)
    BY <1>0, <1>4, RecursionDefines
  <2> QED BY <2>1 DEF HasRecursion
<1>7. \A k \in 1..n : f[k] = f[k - 1] + cost(k)
  <2> SUFFICES ASSUME NEW k \in 1..n PROVE f[k] = f[k - 1] + cost(k)
    OBVIOUS
  <2>1. f[k - 1] \in Nat /\ f[k] = step[k][f[k - 1]]
    BY <1>6, <1>0 DEF IsRecursion
  <2> QED BY <2>1, <1>5
<1>8. f = body(f)
  BY <1>6, <1>7, <1>0 DEF IsRecursion
<1>9. g = body(g)
  BY <1>8 DEF g
<1>10. g[0] = 0 /\ \A k \in 1..n : g[k] = g[k - 1] + cost(k)
  BY <1>9, <1>0
<1> HIDE DEF body
<1>11. 0 \in S
  BY <1>0, <1>3, <1>10
<1>12. ASSUME NEW k \in 0..(n - 1), k \in S PROVE k + 1 \in S
  <2>1. k + 1 \in 1..n /\ k + 1 \in 0..n /\ (k + 1) - 1 = k
    BY <1>0
  <2>2. g[k + 1] = g[k] + cost(k + 1)
    BY <1>10, <2>1
  <2>3. costs[at(k + 1)] = costs[at(k)] + cost(k + 1)
    BY <1>2, <2>1
  <2>4. g[k] = costs[at(k)]
    BY <1>12
  <2> QED BY <2>1, <2>2, <2>3, <2>4
<1> HIDE DEF S
<1>13. n \in S
  <2>1. 0..n \subseteq S
    BY <1>0, <1>11, <1>12, SetInductionUpTo
  <2> QED BY <2>1, <1>0
<1> QED BY <1>1, <1>3, <1>13 DEF S

(* The tokens that are stored cover the block, each match is there, and    *)
(* together they cost what the search said (followPath).                   *)
THEOREM StoreCostsAsSearched == Spec => []StoreHasItsCost
<1>1. Invariant => StoreHasItsCost
  <2> SUFFICES ASSUME Invariant, pc = "follow", path = <<>>
               PROVE  /\ store[1].pos = 0
                      /\ store[Len(store)].pos + store[Len(store)].length = BlockSize(block)
                      /\ \A n \in 1..(Len(store) - 1) :
                            store[n + 1].pos = store[n].pos + store[n].length
                      /\ \A n \in 1..Len(store) :
                            store[n].dist # 0 =>
                                Common(block, store[n].pos, store[n].dist) >= store[n].length
                      /\ costs[BlockSize(block)] = StoreCost
    BY DEF StoreHasItsCost
  <2>1. /\ block \in Blocks /\ Typed(block, arrays) /\ arrays.costs = costs
        /\ Leads(block, arrays, pos, <<>>) /\ Stored(block, arrays, store, pos)
    BY DEF Invariant, TypeOK, PathInvariant, arrays
  <2>2. pos = BlockSize(block)
    <3>1. PICK way : IsWay(block, arrays, way, pos, <<>>)
      BY <2>1 DEF Leads
    <3>2. Len(<<>>) + 1 = 1
      OBVIOUS
    <3> QED BY <3>1, <3>2 DEF IsWay
  <2>3. BlockSize(block) # 0
    BY <2>1, BlockSizes
  <2>4. store # <<>>
    BY <2>1, <2>2, <2>3 DEF Stored
  <2>5. costs[0] = 0
    BY <2>1 DEF Invariant, SearchInvariant, Searched
  <2>6. StoreCost = costs[pos]
    BY <2>1, <2>4, <2>5, StoreCosts
  <2>7. \A n \in 1..Len(store) : store[n].dist # 0 =>
           Common(block, store[n].pos, store[n].dist) >= store[n].length
    BY <2>1 DEF Stored, Taken
  <2> QED BY <2>1, <2>2, <2>4, <2>6, <2>7 DEF Stored
<1> QED BY <1>1, SearchIsSound, PTL

=============================================================================
