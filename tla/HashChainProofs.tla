--------------------------- MODULE HashChainProofs ---------------------------
(***************************************************************************)
(* Proofs about the hash chains and the search, for any bytes, windows,    *)
(* lengths and chain limits.  The first part is about data: slots, bytes   *)
(* that agree, runs.  The second shows that the chains are what they stand *)
(* for after each position, the third follows the walk turn by turn, the   *)
(* last one puts the results together.                                     *)
(***************************************************************************)
EXTENDS HashChain, InductionFacts

(* The least of a set of natural numbers.                                  *)
LEMMA LeastOf ==
    ASSUME NEW S \in SUBSET Nat, S # {}
    PROVE  Min(S) \in S /\ \A y \in S : Min(S) <= y
<1>1. \E x \in S : \A y \in S : x <= y
  BY LeastElement
<1> QED BY <1>1 DEF Min

-----------------------------------------------------------------------------
(* Positions and slots.                                                    *)
LEMMA Sizes == WindowSize \in Nat /\ WindowSize >= 1
BY SizesAssumption

LEMMA Divided ==
    ASSUME NEW p \in Int
    PROVE  /\ Slot(p) \in Slots /\ Slot(p) \in Int
           /\ \E k \in Int : p = WindowSize * k + Slot(p)
<1>1. p % WindowSize \in 0..(WindowSize - 1)
  BY Sizes
<1>2. p = WindowSize * (p \div WindowSize) + (p % WindowSize)
  BY Sizes
<1>3. p \div WindowSize \in Int
  BY Sizes
<1> QED BY <1>1, <1>2, <1>3 DEF Slot, Slots

LEMMA Times ==
    ASSUME NEW k \in Int
    PROVE  /\ WindowSize * k \in Int
           /\ k >= 1 => WindowSize * k >= WindowSize
           /\ k <= -1 => WindowSize * k <= -WindowSize
           /\ WindowSize * 0 = 0 /\ WindowSize * 1 = WindowSize
           /\ WindowSize * k = WindowSize + WindowSize * (k - 1)
BY Sizes

LEMMA Factor ==
    ASSUME NEW j \in Int, NEW k \in Int
    PROVE  WindowSize * j - WindowSize * k = WindowSize * (j - k)
BY Sizes

(* Two positions of a window have slots of their own, and the way back     *)
(* from one to the other is the distance between them.                     *)
LEMMA BackIs ==
    ASSUME NEW p \in Int, NEW q \in Int, q < p, p - q < WindowSize
    PROVE  Slot(p) # Slot(q) /\ Back(Slot(p), Slot(q)) = p - q
<1>1. PICK i \in Int : p = WindowSize * i + Slot(p)
  BY Divided
<1>2. PICK j \in Int : q = WindowSize * j + Slot(q)
  BY Divided
<1>3. PICK k \in Int : k = i - j
  OBVIOUS
<1>4. PICK m, a, b : m = WindowSize * k /\ a = Slot(p) /\ b = Slot(q)
  OBVIOUS
<1>5. m \in Int /\ a \in 0..(WindowSize - 1) /\ b \in 0..(WindowSize - 1) /\ p - q = m + a - b
  <2>1. m \in Int /\ a \in 0..(WindowSize - 1) /\ b \in 0..(WindowSize - 1)
    BY <1>4, Divided, Times DEF Slots
  <2>2. PICK x, y : x = WindowSize * i /\ y = WindowSize * j
    OBVIOUS
  <2>3. x \in Int /\ y \in Int /\ x - y = m
    BY <1>3, <1>4, <2>2, Times, Factor
  <2>4. p = x + a /\ q = y + b
    BY <1>1, <1>2, <1>4, <2>2
  <2> QED BY <2>1, <2>3, <2>4, Sizes
<1>6. k = 0 \/ k = 1
  <2>1. (k >= 1 => m >= WindowSize) /\ (k <= -1 => m <= -WindowSize)
    BY <1>4, Times
  <2>2. k < 2
    <3> SUFFICES ASSUME k >= 2 PROVE FALSE
      OBVIOUS
    <3>1. m = WindowSize + WindowSize * (k - 1)
      BY <1>4, Times
    <3>2. PICK j1 \in Int : j1 = k - 1 /\ j1 >= 1
      OBVIOUS
    <3>3. WindowSize * j1 >= WindowSize /\ WindowSize * j1 \in Int
      BY <3>2, Times
    <3> QED BY <3>1, <3>2, <3>3, <1>5, Sizes
  <2> QED BY <2>1, <2>2, <1>5, Sizes
<1>7. m = 0 \/ m = WindowSize
  BY <1>4, <1>6, Times
<1> QED BY <1>4, <1>5, <1>7, Sizes DEF Back

(* A slot is taken again by the position a window further on.              *)
LEMMA SlotAgain ==
    ASSUME NEW p \in Int
    PROVE  Slot(p - WindowSize) = Slot(p)
<1>1. PICK i \in Int : p = WindowSize * i + Slot(p)
  BY Divided
<1>2. \A k \in Int, r \in 0..(WindowSize - 1) : (WindowSize * k + r) % WindowSize = r
  BY Sizes
<1>3. PICK x, y, r : x = WindowSize * i /\ y = WindowSize * (i - 1) /\ r = Slot(p)
  OBVIOUS
<1>4. x \in Int /\ y \in Int /\ x = WindowSize + y /\ r \in 0..(WindowSize - 1) /\ i - 1 \in Int
  BY <1>3, Times, Divided DEF Slots
<1>5. p - WindowSize = y + r
  <2>1. p = x + r
    BY <1>1, <1>3
  <2> QED BY <2>1, <1>4, Sizes
<1>6. (y + r) % WindowSize = r
  BY <1>2, <1>3, <1>4
<1> QED BY <1>3, <1>5, <1>6 DEF Slot

(* The way from a slot to another, or once around.                         *)
LEMMA BackRange ==
    ASSUME NEW s \in Slots, NEW t \in Slots
    PROVE  Back(s, t) \in Nat /\ Back(s, t) >= 1 /\ Back(s, s) = WindowSize
BY Sizes DEF Slots, Back

-----------------------------------------------------------------------------
(* Bytes.                                                                  *)
LEMMA ByteIs ==
    ASSUME NEW a \in Seq(Values), NEW p \in Int
    PROVE  /\ Byte(a, p) \in Int
           /\ 0 <= p /\ p < Len(a) => Byte(a, p) \in Values
           /\ p >= Len(a) => Byte(a, p) = -1
<1>1. Len(a) \in Nat
  OBVIOUS
<1>2. CASE p \in 0..(Len(a) - 1)
  <2>1. p + 1 \in 1..Len(a)
    BY <1>1, <1>2
  <2>2. Byte(a, p) = a[p + 1] /\ a[p + 1] \in Values
    BY <1>2, <2>1 DEF Byte
  <2> QED BY <2>2, <1>2 DEF Values
<1>3. CASE p \notin 0..(Len(a) - 1)
  <2>1. Byte(a, p) = -1
    BY <1>3 DEF Byte
  <2> QED BY <2>1, <1>1, <1>3
<1> QED BY <1>2, <1>3

(* The first k bytes at p are those d before.                              *)
Agree(a, p, d, k) == \A l \in 0..(k - 1) : Byte(a, p + l) = Byte(a, p - d + l)

LEMMA CommonIs ==
    ASSUME NEW a, NEW size \in Nat, NEW p \in Nat, p <= size, NEW d
    PROVE  /\ Common(a, p, d, size) \in 0..(size - p)
           /\ Agree(a, p, d, Common(a, p, d, size))
           /\ \A k \in Nat : k <= size - p /\ Agree(a, p, d, k) => k <= Common(a, p, d, size)
<1> DEFINE n == size - p
           S == {l \in 0..n : l = n \/ Byte(a, p + l) # Byte(a, p - d + l)}
<1>1. n \in Nat
  OBVIOUS
<1>2. Common(a, p, d, size) = Min(S)
  BY DEF Common
<1>3. S \in SUBSET Nat /\ S # {}
  BY <1>1
<1>4. Min(S) \in S /\ \A y \in S : Min(S) <= y
  BY <1>3, LeastOf
<1>5. PICK m : m = Min(S)
  OBVIOUS
<1>6. m \in 0..n /\ (m = n \/ Byte(a, p + m) # Byte(a, p - d + m)) /\ \A y \in S : m <= y
  BY <1>4, <1>5
<1>7. Agree(a, p, d, m)
  <2> SUFFICES ASSUME NEW l \in 0..(m - 1), Byte(a, p + l) # Byte(a, p - d + l) PROVE FALSE
    BY DEF Agree
  <2>1. l \in 0..n /\ l < m
    BY <1>1, <1>6
  <2>2. l \in S
    BY <2>1
  <2> QED BY <1>6, <2>1, <2>2
<1>8. ASSUME NEW k \in Nat, k <= n, Agree(a, p, d, k) PROVE k <= m
  <2> SUFFICES ASSUME m < k PROVE FALSE
    BY <1>1, <1>6
  <2>1. m \in 0..(k - 1) /\ m # n
    BY <1>1, <1>6, <1>8
  <2> QED BY <2>1, <1>6, <1>8 DEF Agree
<1> QED BY <1>2, <1>5, <1>6, <1>7, <1>8

(* Fewer bytes agree, too.                                                 *)
LEMMA AgreeLess ==
    ASSUME NEW a, NEW p, NEW d, NEW k \in Nat, Agree(a, p, d, k), NEW l \in 0..k
    PROVE  Agree(a, p, d, l)
BY DEF Agree

(* The comparison behind the bytes that need none.                         *)
LEMMA MatchIs ==
    ASSUME NEW g, NEW a, NEW size \in Nat, NEW p \in Nat, NEW d,
           NEW limit \in Nat, p + limit <= size,
           NEW skip \in 0..limit, skip = Skip(g, a, p, d, limit), Agree(a, p, d, skip)
    PROVE  MatchLength(g, a, p, d, limit) = Smaller(Common(a, p, d, size), limit)
<1> DEFINE S == {l \in skip..limit : l = limit \/ Byte(a, p + l) # Byte(a, p - d + l)}
<1>1. MatchLength(g, a, p, d, limit) = Min(S)
  BY DEF MatchLength
<1>2. S \in SUBSET Nat /\ limit \in S
  OBVIOUS
<1>3. Min(S) \in S /\ \A y \in S : Min(S) <= y
  BY <1>2, LeastOf
<1>4. PICK m : m = Min(S)
  OBVIOUS
<1>5. /\ m \in skip..limit /\ (m = limit \/ Byte(a, p + m) # Byte(a, p - d + m))
      /\ \A y \in S : m <= y
  BY <1>3, <1>4
<1>6. Agree(a, p, d, m)
  <2> SUFFICES ASSUME NEW l \in 0..(m - 1), Byte(a, p + l) # Byte(a, p - d + l) PROVE FALSE
    BY DEF Agree
  <2>1. l \in 0..(skip - 1) \/ l \in skip..limit
    BY <1>5
  <2>2. l \notin 0..(skip - 1)
    BY DEF Agree
  <2>3. l \in S
    BY <2>1, <2>2
  <2> QED BY <1>5, <2>3
<1>7. PICK c : c = Common(a, p, d, size)
  OBVIOUS
<1>8. c \in 0..(size - p) /\ Agree(a, p, d, c) /\ m <= c
  BY <1>5, <1>6, <1>7, CommonIs
<1>9. m = limit \/ m = c
  <2> SUFFICES ASSUME m # limit, m < c PROVE FALSE
    BY <1>5, <1>8
  <2>1. m \in 0..(c - 1)
    BY <1>5, <1>8
  <2> QED BY <2>1, <1>5, <1>8 DEF Agree
<1> QED BY <1>1, <1>4, <1>5, <1>7, <1>8, <1>9 DEF Smaller

-----------------------------------------------------------------------------
(* Runs of one byte.  A run of r bytes behind p: they repeat the byte at p,*)
(* and no more do, or no more are counted.                                 *)
IsRun(a, p, size, r) ==
    /\ r \in Nat /\ r <= size - p - 1 /\ r <= SameMax
    /\ \A l \in 0..r : Byte(a, p + l) = Byte(a, p)
    /\ r < SameMax /\ p + r + 1 < size => Byte(a, p + r + 1) # Byte(a, p)

(* There is one such number.                                               *)
LEMMA OneRun ==
    ASSUME NEW a, NEW p \in Nat, NEW size \in Nat, NEW r, NEW s,
           IsRun(a, p, size, r), IsRun(a, p, size, s)
    PROVE  r = s
<1>1. ASSUME NEW x, NEW y, IsRun(a, p, size, x), IsRun(a, p, size, y), x < y PROVE FALSE
  <2>1. x \in Nat /\ y \in Nat /\ x < SameMax /\ p + x + 1 < size /\ x + 1 \in 0..y
    BY <1>1, SizesAssumption DEF IsRun
  <2>2. Byte(a, p + (x + 1)) = Byte(a, p)
    BY <1>1, <2>1 DEF IsRun
  <2>3. Byte(a, p + x + 1) # Byte(a, p)
    BY <1>1, <2>1 DEF IsRun
  <2>4. p + (x + 1) = p + x + 1
    BY <2>1
  <2> QED BY <2>2, <2>3, <2>4
<1>2. r \in Nat /\ s \in Nat
  BY DEF IsRun
<1>3. ~ (r < s) /\ ~ (s < r)
  BY <1>1
<1> QED BY <1>2, <1>3

(* Bytes that repeat the one before them repeat the first.                 *)
LEMMA Repeated ==
    ASSUME NEW a, NEW p \in Nat, NEW n \in Nat, Agree(a, p + 1, 1, n)
    PROVE  \A l \in 0..n : Byte(a, p + l) = Byte(a, p)
<1> DEFINE S == {l \in 0..n : Byte(a, p + l) = Byte(a, p)}
<1>1. 0 \in S
  OBVIOUS
<1>2. ASSUME NEW l \in 0..(n - 1), l \in S PROVE l + 1 \in S
  <2>1. Byte(a, (p + 1) + l) = Byte(a, (p + 1) - 1 + l)
    BY DEF Agree
  <2>2. (p + 1) + l = p + (l + 1) /\ (p + 1) - 1 + l = p + l /\ l + 1 \in 0..n
    OBVIOUS
  <2>3. Byte(a, p + l) = Byte(a, p)
    BY <1>2
  <2> QED BY <2>1, <2>2, <2>3
<1> HIDE DEF S
<1>3. 0..n \subseteq S
  BY <1>1, <1>2, SetInductionUpTo
<1> QED BY <1>3 DEF S

LEMMA RunOfIs ==
    ASSUME NEW a, NEW size \in Nat, NEW p \in Nat, p < size
    PROVE  IsRun(a, p, size, RunOf(a, p, size))
<1>1. PICK c : c = Common(a, p + 1, 1, size)
  OBVIOUS
<1>2. /\ c \in 0..(size - (p + 1)) /\ Agree(a, p + 1, 1, c)
      /\ \A k \in Nat : k <= size - (p + 1) /\ Agree(a, p + 1, 1, k) => k <= c
  BY <1>1, CommonIs
<1>3. \A l \in 0..c : Byte(a, p + l) = Byte(a, p)
  BY <1>2, Repeated
<1>4. PICK r : r = RunOf(a, p, size)
  OBVIOUS
<1>5. SameMax \in Nat /\ r \in Nat /\ r <= c /\ r <= SameMax /\ (r = c \/ r = SameMax)
  BY <1>1, <1>2, <1>4, SizesAssumption DEF RunOf, Smaller
<1>6. \A l \in 0..r : Byte(a, p + l) = Byte(a, p)
  BY <1>2, <1>3, <1>5
<1>7. ASSUME r < SameMax, p + r + 1 < size, Byte(a, p + r + 1) = Byte(a, p) PROVE FALSE
  <2>1. r = c
    BY <1>5, <1>7
  <2>2. c + 1 \in Nat /\ c + 1 <= size - (p + 1) /\ ~ (c + 1 <= c)
    BY <1>2, <1>7, <2>1
  <2>3. Agree(a, p + 1, 1, c + 1)
    <3> SUFFICES ASSUME NEW l \in 0..c PROVE Byte(a, (p + 1) + l) = Byte(a, (p + 1) - 1 + l)
      BY <1>2 DEF Agree
    <3>1. (p + 1) - 1 + l = p + l /\ (l \in 0..(c - 1) \/ l = c) /\ (p + 1) + c = p + c + 1
      BY <1>2
    <3>2. CASE l \in 0..(c - 1)
      BY <3>2, <1>2 DEF Agree
    <3>3. CASE l = c
      <4>1. Byte(a, p + c) = Byte(a, p)
        BY <1>2, <1>3
      <4> QED BY <4>1, <3>1, <3>3, <2>1, <1>7
    <3> QED BY <3>1, <3>2, <3>3
  <2> QED BY <2>2, <2>3, <1>2
<1>8. r <= size - p - 1
  BY <1>2, <1>5
<1> QED BY <1>4, <1>5, <1>6, <1>7, <1>8 DEF IsRun

(* update counts it from what is left of the run of the position before.   *)
LEMMA RunIs ==
    ASSUME NEW a, NEW size \in Nat, NEW p \in Nat, p < size,
           NEW before, before = 0 \/ (p # 0 /\ before = RunOf(a, p - 1, size))
    PROVE  Run(a, p, size, before) = RunOf(a, p, size)
<1>1. PICK k : k = IF before > 1 THEN before - 1 ELSE 0
  OBVIOUS
<1>2. /\ SameMax \in Nat /\ k \in Nat /\ k <= SameMax /\ k <= size - p - 1
      /\ \A l \in 0..k : Byte(a, p + l) = Byte(a, p)
  <2>1. SameMax \in Nat
    BY SizesAssumption
  <2>2. CASE before = 0
    <3>1. k = 0
      BY <1>1, <2>2
    <3>2. \A l \in 0..0 : p + l = p
      OBVIOUS
    <3> QED BY <2>1, <3>1, <3>2
  <2>3. CASE p # 0 /\ before = RunOf(a, p - 1, size)
    <3>1. PICK q \in Nat : q = p - 1 /\ q < size /\ q + 1 = p
      BY <2>3
    <3>2. IsRun(a, q, size, before)
      BY <2>3, <3>1, RunOfIs
    <3>3. /\ before \in Nat /\ before <= size - q - 1 /\ before <= SameMax
          /\ \A l \in 0..before : Byte(a, q + l) = Byte(a, q)
      BY <3>2 DEF IsRun
    <3>4. CASE before > 1
      <4>1. k = before - 1
        BY <1>1, <3>4
      <4>2. ASSUME NEW l \in 0..k PROVE Byte(a, p + l) = Byte(a, p)
        <5>1. l + 1 \in 0..before /\ 1 \in 0..before /\ q + (l + 1) = p + l
          BY <3>1, <3>3, <3>4, <4>1
        <5>2. Byte(a, q + (l + 1)) = Byte(a, q) /\ Byte(a, q + 1) = Byte(a, q)
          BY <3>3, <5>1
        <5> QED BY <5>1, <5>2, <3>1
      <4> QED BY <2>1, <3>1, <3>3, <3>4, <4>1, <4>2
    <3>5. CASE ~ (before > 1)
      <4>1. k = 0
        BY <1>1, <3>5
      <4>2. \A l \in 0..0 : p + l = p
        OBVIOUS
      <4> QED BY <2>1, <4>1, <4>2
    <3> QED BY <3>4, <3>5
  <2> QED BY <2>2, <2>3
<1>3. PICK n : n = Smaller(size - p - 1, Larger(k, SameMax))
  OBVIOUS
<1>4. n \in Nat /\ k <= n /\ n <= size - p - 1 /\ n <= SameMax /\ (n = size - p - 1 \/ n = SameMax)
  BY <1>2, <1>3 DEF Smaller, Larger
<1> DEFINE S == {l \in k..n : l = n \/ Byte(a, p + l + 1) # Byte(a, p)}
<1>5. Run(a, p, size, before) = IF S = {} THEN k ELSE Min(S)
  BY <1>1, <1>3 DEF Run
<1>6. S \in SUBSET Nat /\ n \in S
  BY <1>2, <1>4
<1>7. Min(S) \in S /\ \A y \in S : Min(S) <= y
  BY <1>6, LeastOf
<1>8. PICK m : m = Min(S)
  OBVIOUS
<1>9. Run(a, p, size, before) = m
  BY <1>5, <1>6, <1>8
<1>10. /\ m \in k..n /\ (m = n \/ Byte(a, p + m + 1) # Byte(a, p))
       /\ \A y \in S : m <= y
  BY <1>7, <1>8
<1>11. ASSUME NEW l \in 0..m PROVE Byte(a, p + l) = Byte(a, p)
  <2>1. CASE l \in 0..k
    BY <2>1, <1>2
  <2>2. CASE l > k
    <3>1. l - 1 \in k..n /\ l - 1 < m /\ p + (l - 1) + 1 = p + l
      BY <2>2, <1>2, <1>4, <1>10
    <3>2. l - 1 \notin S
      BY <3>1, <1>10
    <3>3. Byte(a, p + (l - 1) + 1) = Byte(a, p)
      BY <3>1, <3>2
    <3> QED BY <3>1, <3>3
  <2> QED BY <2>1, <2>2, <1>2, <1>10
<1> HIDE DEF S
<1>12. m \in Nat /\ m <= size - p - 1 /\ m <= SameMax
  BY <1>2, <1>4, <1>10
<1>13. ASSUME m < SameMax, p + m + 1 < size PROVE Byte(a, p + m + 1) # Byte(a, p)
  <2>1. m # n
    BY <1>2, <1>4, <1>12, <1>13
  <2> QED BY <2>1, <1>10
<1>14. IsRun(a, p, size, m)
  BY <1>11, <1>12, <1>13 DEF IsRun
<1> QED BY <1>9, <1>14, RunOfIs, OneRun

-----------------------------------------------------------------------------
(* A chain: values of positions, V, of which those before p have entered.  *)
(* The one before q is the nearest with its value, if it is in the window. *)
Follows(V, first, q, o) ==
    /\ o \in first..(q - 1) /\ q - o < WindowSize /\ V[o] = V[q]
    /\ \A r \in (o + 1)..(q - 1) : V[r] # V[q]

Alone(V, first, q) == \A r \in first..(q - 1) : q - r < WindowSize => V[r] # V[q]

LinksBack(V, first, q, slot) ==
    \/ Alone(V, first, q) /\ slot = Slot(q)
    \/ \E o \in Int : Follows(V, first, q, o) /\ slot = Slot(o)

(* The last position that entered with a value.                            *)
HeadOf(V, first, p, v, slot) ==
    \/ slot = NoSlot /\ \A q \in first..(p - 1) : V[q] # v
    \/ \E q \in first..(p - 1) :
          V[q] = v /\ slot = Slot(q) /\ \A r \in (q + 1)..(p - 1) : V[r] # v

Recent(first, p) == {q \in first..(p - 1) : p - q <= WindowSize}

Chained(V, first, p, head, prev, hashval) ==
    /\ head \in [Values -> Slots \cup {NoSlot}] /\ prev \in [Slots -> Slots]
    /\ hashval \in [Slots -> Values \cup {-1}]
    /\ \A q \in Recent(first, p) :
          hashval[Slot(q)] = V[q] /\ LinksBack(V, first, q, prev[Slot(q)])
    /\ \A s \in Slots : hashval[s] = -1 \/ \E q \in Recent(first, p) : s = Slot(q)
    /\ \A v \in Values : HeadOf(V, first, p, v, head[v])

(* A new position is linked to the last one with its value, though the     *)
(* head may be older than the window and its slot taken by another.        *)
LEMMA LinkIs ==
    ASSUME NEW first \in Nat, NEW size \in Nat, NEW V \in [first..(size - 1) -> Values],
           NEW p \in first..(size - 1), NEW head, NEW prev, NEW hashval,
           Chained(V, first, p, head, prev, hashval), NEW hv,
           hv = [hashval EXCEPT ![Slot(p)] = V[p]]
    PROVE  LinksBack(V, first, p, Link(head, hv, V[p], Slot(p)))
<1>1. PICK v, s : v = V[p] /\ s = Slot(p)
  OBVIOUS
<1>2. v \in Values /\ v # -1 /\ s \in Slots /\ p \in Nat /\ p \in Int
  BY <1>1, Divided DEF Values
<1>3. HeadOf(V, first, p, v, head[v])
  BY <1>2 DEF Chained
<1>4. hashval \in [Slots -> Values \cup {-1}]
  BY DEF Chained
<1>5. hv[s] = v /\ \A t \in Slots : t # s => hv[t] = hashval[t]
  BY <1>1, <1>2, <1>4
<1>6. CASE head[v] = NoSlot /\ \A q \in first..(p - 1) : V[q] # v
  <2>1. Link(head, hv, v, s) = s
    BY <1>6 DEF Link
  <2>2. Alone(V, first, p)
    BY <1>6, <1>1 DEF Alone
  <2> QED BY <2>1, <2>2, <1>1 DEF LinksBack
<1>7. CASE \E q \in first..(p - 1) :
             V[q] = v /\ head[v] = Slot(q) /\ \A r \in (q + 1)..(p - 1) : V[r] # v
  <2>1. PICK q \in first..(p - 1) :
             V[q] = v /\ head[v] = Slot(q) /\ \A r \in (q + 1)..(p - 1) : V[r] # v
    BY <1>7
  <2>2. q \in Int /\ q < p /\ q \in Nat
    OBVIOUS
  <2>3. Slot(q) \in Slots /\ Slot(q) # NoSlot
    <3>1. \A x \in Slots : x # NoSlot
      BY Sizes DEF Slots, NoSlot
    <3> QED BY <3>1, <2>2, Divided
  <2>4. CASE p - q < WindowSize
    <3>1. Slot(q) # s
      BY <1>1, <1>2, <2>2, <2>4, BackIs
    <3>2. q \in Recent(first, p)
      BY <2>4, Sizes DEF Recent
    <3>3. hashval[Slot(q)] = v
      BY <3>2, <2>1 DEF Chained
    <3>4. Link(head, hv, v, s) = Slot(q)
      BY <3>1, <3>3, <2>1, <2>3, <1>5 DEF Link
    <3>5. Follows(V, first, p, q)
      BY <2>1, <2>4, <1>1 DEF Follows
    <3> QED BY <3>4, <3>5, <2>2, <1>1 DEF LinksBack
  <2>5. CASE ~ (p - q < WindowSize)
    <3>1. Alone(V, first, p)
      <4> SUFFICES ASSUME NEW r \in first..(p - 1), p - r < WindowSize PROVE V[r] # v
        BY <1>1 DEF Alone
      <4>1. r \in (q + 1)..(p - 1)
        BY <2>2, <2>5, <1>2, Sizes
      <4> QED BY <4>1, <2>1
    <3>2. Link(head, hv, v, s) = s
      <4>1. CASE Slot(q) = s
        BY <4>1, <2>1, <1>5 DEF Link
      <4>2. CASE Slot(q) # s
        <5>1. hv[Slot(q)] = hashval[Slot(q)]
          BY <4>2, <2>3, <1>5
        <5>2. hashval[Slot(q)] # v
          <6>1. CASE hashval[Slot(q)] = -1
            BY <6>1, <1>2
          <6>2. CASE \E r \in Recent(first, p) : Slot(q) = Slot(r)
            <7>1. PICK r \in Recent(first, p) : Slot(q) = Slot(r)
              BY <6>2
            <7>2. hashval[Slot(r)] = V[r] /\ r \in first..(p - 1) /\ p - r <= WindowSize
              BY DEF Chained, Recent
            <7>3. r # q
              <8> SUFFICES ASSUME r = q PROVE FALSE
                OBVIOUS
              <8>1. q = p - WindowSize
                BY <7>2, <2>2, <2>5, <1>2, Sizes
              <8>2. Slot(p - WindowSize) = Slot(p)
                BY <1>2, SlotAgain
              <8> QED BY <8>1, <8>2, <4>2, <1>1
            <7>4. r \in (q + 1)..(p - 1)
              BY <7>2, <7>3, <2>2, <2>5, <1>2, Sizes
            <7> QED BY <7>1, <7>2, <7>4, <2>1
          <6> QED BY <6>1, <6>2, <2>3 DEF Chained
        <5> QED BY <5>1, <5>2, <2>1 DEF Link
      <4> QED BY <4>1, <4>2
    <3> QED BY <3>1, <3>2, <1>1 DEF LinksBack
  <2> QED BY <2>4, <2>5
<1> QED BY <1>3, <1>6, <1>7 DEF HeadOf

LEMMA ChainedNext ==
    ASSUME NEW first \in Nat, NEW size \in Nat, NEW V \in [first..(size - 1) -> Values],
           NEW p \in first..(size - 1), NEW head, NEW prev, NEW hashval,
           Chained(V, first, p, head, prev, hashval), NEW hv,
           hv = [hashval EXCEPT ![Slot(p)] = V[p]]
    PROVE  Chained(V, first, p + 1, [head EXCEPT ![V[p]] = Slot(p)],
                   [prev EXCEPT ![Slot(p)] = Link(head, hv, V[p], Slot(p))], hv)
<1>1. PICK v, s, l : v = V[p] /\ s = Slot(p) /\ l = Link(head, hv, v, s)
  OBVIOUS
<1>2. PICK hd, pr : hd = [head EXCEPT ![v] = s] /\ pr = [prev EXCEPT ![s] = l]
  OBVIOUS
<1>3. v \in Values /\ s \in Slots /\ p \in Nat /\ p \in Int
  BY <1>1, Divided
<1>4. LinksBack(V, first, p, l)
  BY <1>1, LinkIs
<1>5. l \in Slots
  BY <1>4, <1>3, Divided DEF LinksBack
<1>6. /\ head \in [Values -> Slots \cup {NoSlot}] /\ prev \in [Slots -> Slots]
      /\ hashval \in [Slots -> Values \cup {-1}]
  BY DEF Chained
<1>7. /\ hd \in [Values -> Slots \cup {NoSlot}] /\ pr \in [Slots -> Slots]
      /\ hv \in [Slots -> Values \cup {-1}]
  BY <1>1, <1>2, <1>3, <1>5, <1>6
<1>8. /\ hd[v] = s /\ pr[s] = l /\ hv[s] = v
      /\ \A u \in Values : u # v => hd[u] = head[u]
      /\ \A t \in Slots : t # s => pr[t] = prev[t] /\ hv[t] = hashval[t]
  BY <1>1, <1>2, <1>3, <1>6
<1>9. p \in Recent(first, p + 1)
  BY <1>3, Sizes DEF Recent
<1>10. ASSUME NEW q \in Recent(first, p + 1), q # p
       PROVE  q \in Recent(first, p) /\ Slot(q) \in Slots /\ Slot(q) # s
  <2>1. q \in first..(p - 1) /\ q \in Int /\ q < p /\ p - q < WindowSize
    BY <1>3, <1>10, Sizes DEF Recent
  <2>2. q \in Recent(first, p)
    BY <2>1, Sizes DEF Recent
  <2> QED BY <2>1, <2>2, <1>1, <1>3, Divided, BackIs
<1>11. ASSUME NEW q \in Recent(first, p + 1)
       PROVE  hv[Slot(q)] = V[q] /\ LinksBack(V, first, q, pr[Slot(q)])
  <2>1. CASE q = p
    BY <2>1, <1>1, <1>4, <1>8
  <2>2. CASE q # p
    <3>1. q \in Recent(first, p) /\ Slot(q) \in Slots /\ Slot(q) # s
      BY <2>2, <1>10
    <3>2. hashval[Slot(q)] = V[q] /\ LinksBack(V, first, q, prev[Slot(q)])
      BY <3>1 DEF Chained
    <3> QED BY <3>1, <3>2, <1>8
  <2> QED BY <2>1, <2>2
<1>12. ASSUME NEW t \in Slots, hv[t] # -1
       PROVE  \E q \in Recent(first, p + 1) : t = Slot(q)
  <2>1. CASE t = s
    BY <2>1, <1>1, <1>9
  <2>2. CASE t # s
    <3>1. PICK q \in Recent(first, p) : t = Slot(q)
      BY <2>2, <1>8, <1>12 DEF Chained
    <3>2. q \in Int /\ q \in first..(p - 1) /\ p - q <= WindowSize
      BY <1>3 DEF Recent
    <3>3. p - q # WindowSize
      <4> SUFFICES ASSUME p - q = WindowSize PROVE FALSE
        OBVIOUS
      <4>1. q = p - WindowSize
        BY <1>3, <3>2, Sizes
      <4> QED BY <4>1, <1>1, <1>3, <2>2, <3>1, SlotAgain
    <3>4. q \in Recent(first, p + 1)
      BY <1>3, <3>2, <3>3, Sizes DEF Recent
    <3> QED BY <3>1, <3>4
  <2> QED BY <2>1, <2>2
<1>13. ASSUME NEW u \in Values PROVE HeadOf(V, first, p + 1, u, hd[u])
  <2>1. (p + 1) - 1 = p /\ \A r \in first..p : r \in first..(p - 1) \/ r = p
    BY <1>3
  <2>2. CASE u = v
    <3>1. \A r \in (p + 1)..p : FALSE
      BY <1>3
    <3>2. p \in first..p
      OBVIOUS
    <3> QED BY <2>1, <2>2, <3>1, <3>2, <1>1, <1>8 DEF HeadOf
  <2>3. CASE u # v
    <3>1. HeadOf(V, first, p, u, head[u]) /\ hd[u] = head[u]
      BY <2>3, <1>8 DEF Chained
    <3>2. CASE head[u] = NoSlot /\ \A q \in first..(p - 1) : V[q] # u
      BY <3>1, <3>2, <2>1, <2>3, <1>1 DEF HeadOf
    <3>3. CASE \E q \in first..(p - 1) :
                 V[q] = u /\ head[u] = Slot(q) /\ \A r \in (q + 1)..(p - 1) : V[r] # u
      <4>1. PICK q \in first..(p - 1) :
                 V[q] = u /\ head[u] = Slot(q) /\ \A r \in (q + 1)..(p - 1) : V[r] # u
        BY <3>3
      <4>2. q \in first..p /\ \A r \in (q + 1)..p : r \in (q + 1)..(p - 1) \/ r = p
        BY <1>3
      <4>3. \A r \in (q + 1)..p : V[r] # u
        BY <4>1, <4>2, <2>3, <1>1
      <4> QED BY <4>1, <4>2, <4>3, <3>1, <2>1 DEF HeadOf
    <3> QED BY <3>1, <3>2, <3>3 DEF HeadOf
  <2> QED BY <2>2, <2>3
<1>14. Chained(V, first, p + 1, hd, pr, hv)
  BY <1>7, <1>11, <1>12, <1>13 DEF Chained
<1> QED BY <1>1, <1>2, <1>14

-----------------------------------------------------------------------------
(* The values of positions: of three bytes, zero behind the end.  A window *)
(* of a single byte has a value of its own, which nobody asks for.         *)
Padded(a, size, q) == IF q < size THEN Byte(a, q) ELSE 0

Key(a, first, size, q) ==
    IF size = first + 1 THEN Rolled(Rolled(0, Byte(a, first)), 0)
    ELSE Rolled(Rolled(Rolled(0, Padded(a, size, q)), Padded(a, size, q + 1)), Padded(a, size, q + 2))

Keys(a, first, size) == [q \in first..(size - 1) |-> Key(a, first, size, q)]

Keys2(a, first, size) ==
    [q \in first..(size - 1) |-> Second(RunOf(a, q, size), Key(a, first, size, q))]

(* The value before p enters: all but the last byte is in it.              *)
Ready(a, first, size, p, val) ==
    IF size = first + 1 THEN p = first => val = Rolled(0, Byte(a, first))
    ELSE \E v \in Values : val = Rolled(Rolled(v, Padded(a, size, p)), Padded(a, size, p + 1))

Hashes ==
    [val : Values, val2 : Values,
     head : [Values -> Slots \cup {NoSlot}], head2 : [Values -> Slots \cup {NoSlot}],
     prev : [Slots -> Slots], prev2 : [Slots -> Slots],
     hashval : [Slots -> Values \cup {-1}], hashval2 : [Slots -> Values \cup {-1}],
     same : [Slots -> Nat]]

(* The hash when the positions from first to p - 1 have entered.           *)
Holds(g, a, first, size, p) ==
    /\ g \in Hashes
    /\ Ready(a, first, size, p, g.val)
    /\ p # first => g.val = Keys(a, first, size)[p - 1] /\ g.val2 = Keys2(a, first, size)[p - 1]
    /\ Chained(Keys(a, first, size), first, p, g.head, g.prev, g.hashval)
    /\ Chained(Keys2(a, first, size), first, p, g.head2, g.prev2, g.hashval2)
    /\ p = first => g.same[Slot(p - 1)] = 0
    /\ \A q \in Recent(first, p) : g.same[Slot(q)] = RunOf(a, q, size)

(* The bytes first..(size - 1) of a: a block and the window before it.     *)
IsWindow(a, first, size) ==
    /\ a \in Seq(Values) /\ first \in Nat /\ size \in Nat /\ first < size /\ size <= Len(a)

LEMMA PaddedIs ==
    ASSUME NEW a, NEW first, NEW size, IsWindow(a, first, size), NEW q \in Nat
    PROVE  Padded(a, size, q) \in Values
<1>1. 0 \in Values
  BY SizesAssumption DEF Values
<1>2. CASE q < size
  <2>1. 0 <= q /\ q < Len(a) /\ q \in Int
    BY <1>2 DEF IsWindow
  <2> QED BY <1>2, <2>1, ByteIs DEF Padded, IsWindow
<1> QED BY <1>1, <1>2 DEF Padded

LEMMA KeyIs ==
    ASSUME NEW a, NEW first, NEW size, IsWindow(a, first, size), NEW q \in first..(size - 1)
    PROVE  Key(a, first, size, q) \in Values
<1>1. q \in Nat /\ q + 1 \in Nat /\ q + 2 \in Nat /\ first \in Nat /\ first < size
  BY DEF IsWindow
<1>2. Padded(a, size, q) \in Values /\ Padded(a, size, q + 1) \in Values /\ Padded(a, size, q + 2) \in Values
  BY <1>1, PaddedIs
<1>3. 0 \in Values
  BY SizesAssumption DEF Values
<1>4. Byte(a, first) \in Values
  <2>1. Padded(a, size, first) \in Values
    BY <1>1, PaddedIs
  <2> QED BY <2>1, <1>1 DEF Padded
<1>5. \A x, y \in Values : Rolled(x, y) \in Values
  BY HashAssumption
<1> QED BY <1>2, <1>3, <1>4, <1>5 DEF Key

LEMMA SecondIs ==
    ASSUME NEW run \in Int, NEW val \in Values
    PROVE  Second(run, val) \in Values
<1>1. SameMask \in Nat /\ HashMask \in Nat /\ SameMask <= HashMask /\ MinMatch = 3
  BY SizesAssumption
<1>2. (run - MinMatch) % (SameMask + 1) \in 0..SameMask
  <2>1. PICK m \in Nat : m = SameMask + 1 /\ m > 0
    BY <1>1
  <2>2. PICK x \in Int : x = run - MinMatch
    BY <1>1
  <2>3. x % m \in 0..(m - 1)
    BY <2>1
  <2> QED BY <2>1, <2>2, <2>3, <1>1
<1>3. (run - MinMatch) % (SameMask + 1) \in Values
  BY <1>1, <1>2 DEF Values
<1> QED BY <1>3, HashAssumption DEF Second

LEMMA KeysAre ==
    ASSUME NEW a, NEW first, NEW size, IsWindow(a, first, size)
    PROVE  /\ Keys(a, first, size) \in [first..(size - 1) -> Values]
           /\ Keys2(a, first, size) \in [first..(size - 1) -> Values]
<1>1. \A q \in first..(size - 1) : Key(a, first, size, q) \in Values
  BY KeyIs
<1>2. \A q \in first..(size - 1) : RunOf(a, q, size) \in Int
  <2> SUFFICES ASSUME NEW q \in first..(size - 1) PROVE RunOf(a, q, size) \in Int
    OBVIOUS
  <2>1. q \in Nat /\ q < size /\ size \in Nat
    BY DEF IsWindow
  <2>2. IsRun(a, q, size, RunOf(a, q, size))
    BY <2>1, RunOfIs
  <2> QED BY <2>2 DEF IsRun
<1>3. \A q \in first..(size - 1) : Second(RunOf(a, q, size), Key(a, first, size, q)) \in Values
  BY <1>1, <1>2, SecondIs
<1> QED BY <1>1, <1>3 DEF Keys, Keys2

(* The next byte makes the value of p from what is ready.                  *)
LEMMA ValueIs ==
    ASSUME NEW a, NEW first, NEW size, IsWindow(a, first, size), NEW p \in first..(size - 1),
           NEW val, Ready(a, first, size, p, val)
    PROVE  /\ Rolled(val, Padded(a, size, p + 2)) = Key(a, first, size, p)
           /\ Ready(a, first, size, p + 1, Key(a, first, size, p))
<1>1. p \in Nat /\ p + 1 \in Nat /\ p + 2 \in Nat /\ first \in Nat /\ size \in Nat /\ first < size
  BY DEF IsWindow
<1>2. PICK x, y, z : x = Padded(a, size, p) /\ y = Padded(a, size, p + 1) /\ z = Padded(a, size, p + 2)
  OBVIOUS
<1>3. x \in Values /\ y \in Values /\ z \in Values /\ 0 \in Values
  BY <1>1, <1>2, PaddedIs, SizesAssumption DEF Values
<1>4. CASE size = first + 1
  <2>1. p = first /\ p + 1 # first /\ z = 0
    BY <1>1, <1>2, <1>4 DEF Padded
  <2> QED BY <2>1, <1>2, <1>4 DEF Ready, Key
<1>5. CASE size # first + 1
  <2>1. PICK v \in Values : val = Rolled(Rolled(v, x), y)
    BY <1>2, <1>5 DEF Ready
  <2>2. Rolled(val, z) = Rolled(Rolled(Rolled(0, x), y), z)
    BY <2>1, <1>3, HashAssumption
  <2>3. Key(a, first, size, p) = Rolled(Rolled(Rolled(0, x), y), z)
    BY <1>2, <1>5 DEF Key
  <2>4. Rolled(0, x) \in Values
    BY <1>3, HashAssumption
  <2>5. (p + 1) + 1 = p + 2
    BY <1>1
  <2>6. Ready(a, first, size, p + 1, Key(a, first, size, p))
    BY <2>3, <2>4, <2>5, <1>2, <1>5 DEF Ready
  <2> QED BY <2>2, <2>3, <2>6, <1>2
<1> QED BY <1>4, <1>5

-----------------------------------------------------------------------------
(* The hash before the first position of a window.                         *)
LEMMA PreparedHolds ==
    ASSUME NEW a, NEW first, NEW size, IsWindow(a, first, size), NEW old \in Hashes
    PROVE  Holds(Warmup(Reset(old), a, first, size), a, first, size, first)
<1>1. first \in Nat /\ size \in Nat /\ first < size /\ first \in first..(size - 1)
  BY DEF IsWindow
<1>2. PICK r : r = Reset(old)
  OBVIOUS
<1>3. 0 \in Values
  BY SizesAssumption DEF Values
<1>4. /\ r \in Hashes /\ r.val = 0 /\ r.val2 = 0
      /\ r.head = [v \in Values |-> NoSlot] /\ r.head2 = [v \in Values |-> NoSlot]
      /\ r.hashval = [s \in Slots |-> -1] /\ r.hashval2 = [s \in Slots |-> -1]
      /\ r.same = [s \in Slots |-> 0]
  BY <1>2, <1>3 DEF Reset, Hashes
<1>5. PICK x, y : x = Byte(a, first) /\ y = Byte(a, first + 1)
  OBVIOUS
<1>6. x \in Values /\ x = Padded(a, size, first)
  <2>1. Padded(a, size, first) \in Values
    BY <1>1, PaddedIs
  <2> QED BY <2>1, <1>1, <1>5 DEF Padded
<1>7. first + 1 < size => y \in Values /\ y = Padded(a, size, first + 1)
  <2>1. Padded(a, size, first + 1) \in Values
    BY <1>1, PaddedIs
  <2> QED BY <2>1, <1>1, <1>5 DEF Padded
<1>8. PICK val : val = IF first + 1 < size THEN Rolled(Rolled(0, x), y) ELSE Rolled(0, x)
  OBVIOUS
<1>9. val \in Values
  BY <1>3, <1>6, <1>7, <1>8, HashAssumption
<1>10. PICK g : g = Warmup(Reset(old), a, first, size)
  OBVIOUS
<1>11. g = [r EXCEPT !.val = val]
  BY <1>2, <1>4, <1>5, <1>8, <1>10 DEF Warmup
<1>12. /\ g \in Hashes /\ g.val = val
       /\ g.head = [v \in Values |-> NoSlot] /\ g.head2 = [v \in Values |-> NoSlot]
       /\ g.hashval = [s \in Slots |-> -1] /\ g.hashval2 = [s \in Slots |-> -1]
       /\ g.same = [s \in Slots |-> 0]
  BY <1>4, <1>9, <1>11 DEF Hashes
<1>13. Ready(a, first, size, first, g.val)
  <2>1. CASE size = first + 1
    BY <2>1, <1>1, <1>5, <1>8, <1>12 DEF Ready
  <2>2. CASE size # first + 1
    <3>1. first + 1 < size
      BY <2>2, <1>1
    <3>2. val = Rolled(Rolled(0, Padded(a, size, first)), Padded(a, size, first + 1))
      BY <3>1, <1>6, <1>7, <1>8
    <3> QED BY <3>2, <2>2, <1>3, <1>12 DEF Ready
  <2> QED BY <2>1, <2>2
<1>14. \A q \in first..(first - 1) : FALSE
  BY <1>1
<1>15. ASSUME NEW V, NEW head, NEW prev, NEW hashval, head = [v \in Values |-> NoSlot],
              prev \in [Slots -> Slots], hashval = [s \in Slots |-> -1]
       PROVE  Chained(V, first, first, head, prev, hashval)
  <2>1. Recent(first, first) = {}
    BY <1>14 DEF Recent
  <2>2. \A v \in Values : HeadOf(V, first, first, v, head[v])
    BY <1>14, <1>15 DEF HeadOf
  <2> QED BY <2>1, <2>2, <1>15 DEF Chained
<1>16. g.prev \in [Slots -> Slots] /\ g.prev2 \in [Slots -> Slots]
  BY <1>12 DEF Hashes
<1>17. g.same[Slot(first - 1)] = 0
  <2>1. first - 1 \in Int
    BY <1>1
  <2> QED BY <2>1, <1>12, Divided
<1>18. Recent(first, first) = {}
  BY <1>14 DEF Recent
<1> QED BY <1>10, <1>12, <1>13, <1>15, <1>16, <1>17, <1>18 DEF Holds

(* A position enters.                                                      *)
LEMMA UpdateHolds ==
    ASSUME NEW a, NEW first, NEW size, IsWindow(a, first, size), NEW p \in first..(size - 1),
           NEW g, Holds(g, a, first, size, p)
    PROVE  Holds(Update(g, a, p, size), a, first, size, p + 1)
<1>1. /\ p \in Nat /\ p + 1 \in Nat /\ first \in Nat /\ size \in Nat /\ first < size /\ p < size
      /\ MinMatch = 3 /\ p + 1 # first /\ (p + 1) - 1 = p
  BY SizesAssumption DEF IsWindow
<1>2. PICK K, L : K = Keys(a, first, size) /\ L = Keys2(a, first, size)
  OBVIOUS
<1>3. K \in [first..(size - 1) -> Values] /\ L \in [first..(size - 1) -> Values]
  BY <1>2, KeysAre
<1>4. PICK s, val : /\ s = Slot(p)
                    /\ val = Rolled(g.val, IF p + MinMatch <= size THEN Byte(a, p + MinMatch - 1) ELSE 0)
  OBVIOUS
<1>5. val = Rolled(g.val, Padded(a, size, p + 2))
  <2>1. p + MinMatch - 1 = p + 2 /\ (p + MinMatch <= size <=> p + 2 < size)
    BY <1>1
  <2> QED BY <2>1, <1>4 DEF Padded
<1>6. val = K[p] /\ Ready(a, first, size, p + 1, val) /\ val = Key(a, first, size, p)
  <2>1. Ready(a, first, size, p, g.val)
    BY DEF Holds
  <2>2. /\ Rolled(g.val, Padded(a, size, p + 2)) = Key(a, first, size, p)
        /\ Ready(a, first, size, p + 1, Key(a, first, size, p))
    BY <2>1, ValueIs
  <2> QED BY <2>2, <1>2, <1>5 DEF Keys
<1>7. s \in Slots
  BY <1>1, <1>4, Divided
<1>8. PICK run : run = Run(a, p, size, g.same[Slot(p - 1)])
  OBVIOUS
<1>9. run = RunOf(a, p, size)
  <2>1. CASE p = first
    <3>1. g.same[Slot(p - 1)] = 0
      BY <2>1 DEF Holds
    <3> QED BY <3>1, <1>1, <1>8, RunIs
  <2>2. CASE p # first
    <3>1. p - 1 \in Recent(first, p) /\ p # 0
      BY <2>2, <1>1, Sizes DEF Recent
    <3>2. g.same[Slot(p - 1)] = RunOf(a, p - 1, size)
      BY <3>1 DEF Holds
    <3> QED BY <3>1, <3>2, <1>1, <1>8, RunIs
  <2> QED BY <2>1, <2>2
<1>10. run \in Nat
  <2>1. IsRun(a, p, size, run)
    BY <1>1, <1>9, RunOfIs
  <2> QED BY <2>1 DEF IsRun
<1>11. PICK val2 : val2 = Second(run, val)
  OBVIOUS
<1>12. val2 = L[p]
  BY <1>2, <1>6, <1>9, <1>11 DEF Keys2
<1>13. val \in Values /\ val2 \in Values
  BY <1>3, <1>6, <1>12
<1>14. PICK hv, hv2 : hv = [g.hashval EXCEPT ![s] = val] /\ hv2 = [g.hashval2 EXCEPT ![s] = val2]
  OBVIOUS
<1>15. PICK n : n = Update(g, a, p, size)
  OBVIOUS
<1>16. n = [val |-> val, val2 |-> val2, hashval |-> hv, hashval2 |-> hv2,
            prev |-> [g.prev EXCEPT ![s] = Link(g.head, hv, val, s)],
            prev2 |-> [g.prev2 EXCEPT ![s] = Link(g.head2, hv2, val2, s)],
            head |-> [g.head EXCEPT ![val] = s],
            head2 |-> [g.head2 EXCEPT ![val2] = s],
            same |-> [g.same EXCEPT ![s] = run]]
  BY <1>4, <1>8, <1>11, <1>14, <1>15 DEF Update
<1>17. Chained(K, first, p + 1, n.head, n.prev, n.hashval)
  <2>1. Chained(K, first, p, g.head, g.prev, g.hashval)
    BY <1>2 DEF Holds
  <2>2. hv = [g.hashval EXCEPT ![Slot(p)] = K[p]]
    BY <1>4, <1>6, <1>14
  <2>3. Chained(K, first, p + 1, [g.head EXCEPT ![K[p]] = Slot(p)],
                [g.prev EXCEPT ![Slot(p)] = Link(g.head, hv, K[p], Slot(p))], hv)
    BY <2>1, <2>2, <1>1, <1>3, ChainedNext
  <2> QED BY <2>3, <1>4, <1>6, <1>16
<1>18. Chained(L, first, p + 1, n.head2, n.prev2, n.hashval2)
  <2>1. Chained(L, first, p, g.head2, g.prev2, g.hashval2)
    BY <1>2 DEF Holds
  <2>2. hv2 = [g.hashval2 EXCEPT ![Slot(p)] = L[p]]
    BY <1>4, <1>12, <1>14
  <2>3. Chained(L, first, p + 1, [g.head2 EXCEPT ![L[p]] = Slot(p)],
                [g.prev2 EXCEPT ![Slot(p)] = Link(g.head2, hv2, L[p], Slot(p))], hv2)
    BY <2>1, <2>2, <1>1, <1>3, ChainedNext
  <2> QED BY <2>3, <1>4, <1>12, <1>16
<1>19. n.same = [g.same EXCEPT ![s] = run] /\ g.same \in [Slots -> Nat]
  BY <1>16 DEF Holds, Hashes
<1>20. n \in Hashes
  <2>1. /\ n.head \in [Values -> Slots \cup {NoSlot}] /\ n.prev \in [Slots -> Slots]
        /\ n.hashval \in [Slots -> Values \cup {-1}]
    BY <1>17 DEF Chained
  <2>2. /\ n.head2 \in [Values -> Slots \cup {NoSlot}] /\ n.prev2 \in [Slots -> Slots]
        /\ n.hashval2 \in [Slots -> Values \cup {-1}]
    BY <1>18 DEF Chained
  <2>3. n.same \in [Slots -> Nat]
    BY <1>7, <1>10, <1>19
  <2>4. n = [val |-> n.val, val2 |-> n.val2, hashval |-> n.hashval, hashval2 |-> n.hashval2,
             prev |-> n.prev, prev2 |-> n.prev2, head |-> n.head, head2 |-> n.head2, same |-> n.same]
        /\ n.val = val /\ n.val2 = val2
    BY <1>16
  <2> QED BY <2>1, <2>2, <2>3, <2>4, <1>13 DEF Hashes
<1>21. ASSUME NEW q \in Recent(first, p + 1) PROVE n.same[Slot(q)] = RunOf(a, q, size)
  <2>1. CASE q = p
    BY <2>1, <1>4, <1>7, <1>9, <1>19
  <2>2. CASE q # p
    <3>1. q \in Int /\ q < p /\ p - q < WindowSize /\ q \in Recent(first, p)
      BY <2>2, <1>1, Sizes DEF Recent
    <3>2. Slot(q) # s /\ Slot(q) \in Slots
      BY <3>1, <1>1, <1>4, BackIs, Divided
    <3>3. g.same[Slot(q)] = RunOf(a, q, size)
      BY <3>1 DEF Holds
    <3> QED BY <3>2, <3>3, <1>7, <1>19
  <2> QED BY <2>1, <2>2
<1>22. n.val = val /\ n.val2 = val2
  BY <1>16
<1> QED BY <1>1, <1>2, <1>6, <1>12, <1>15, <1>17, <1>18, <1>20, <1>21, <1>22 DEF Holds

-----------------------------------------------------------------------------
(* The walk.  One turn of it keeps the types.                              *)
Walks ==
    [slot : Slots, dist : Nat, second : BOOLEAN, over : BOOLEAN, length : Nat, best : Nat,
     sublen : [1..MaxMatch -> Nat], probes : SUBSET Nat]

LEMMA IsAWalk ==
    ASSUME NEW s \in Slots, NEW d \in Nat, NEW b1 \in BOOLEAN, NEW b2 \in BOOLEAN, NEW l \in Nat,
           NEW b \in Nat, NEW sub \in [1..MaxMatch -> Nat], NEW pr \in SUBSET Nat
    PROVE  [slot |-> s, dist |-> d, second |-> b1, over |-> b2, length |-> l, best |-> b,
            sublen |-> sub, probes |-> pr] \in Walks
BY DEF Walks

Turn(g, a, p, limit, w) == IF Over(w) THEN w ELSE Visit(g, a, p, limit, w)

LEMMA SkipRange ==
    ASSUME NEW g \in Hashes, NEW a, NEW p \in Nat, NEW dist \in Nat, NEW limit \in Nat
    PROVE  Skip(g, a, p, dist, limit) \in 0..limit
<1>1. p - dist \in Int
  OBVIOUS
<1>2. Slot(p) \in Slots /\ Slot(p - dist) \in Slots
  BY <1>1, Divided
<1>3. g.same[Slot(p)] \in Nat /\ g.same[Slot(p - dist)] \in Nat
  BY <1>2 DEF Hashes
<1> QED BY <1>3 DEF Skip, Smaller

LEMMA MatchRange ==
    ASSUME NEW g \in Hashes, NEW a, NEW p \in Nat, NEW dist \in Nat, NEW limit \in Nat
    PROVE  MatchLength(g, a, p, dist, limit) \in 0..limit
<1>1. PICK skip : skip = Skip(g, a, p, dist, limit)
  OBVIOUS
<1>2. skip \in 0..limit
  BY <1>1, SkipRange
<1> DEFINE S == {l \in skip..limit : l = limit \/ Byte(a, p + l) # Byte(a, p - dist + l)}
<1>3. MatchLength(g, a, p, dist, limit) = Min(S)
  BY <1>1 DEF MatchLength
<1>4. S \in SUBSET Nat /\ limit \in S /\ S \subseteq 0..limit
  BY <1>2
<1>5. Min(S) \in S
  BY <1>4, LeastOf
<1> QED BY <1>3, <1>4, <1>5

(* What a turn does, by the length it finds.                               *)
Probed(g, a, p, limit, w) ==
    IF w.dist > 0 /\ Byte(a, p + w.length) = Byte(a, p - w.dist + w.length)
    THEN MatchLength(g, a, p, w.dist, limit) ELSE 0

Best(w, length) == IF length > w.length THEN length ELSE w.length

GoesSecond(g, p, w, length) == w.second \/ Switches(g, w.slot, p, Best(w, length))

NextSlot(g, p, w, length) ==
    IF GoesSecond(g, p, w, length) THEN g.prev2[w.slot] ELSE g.prev[w.slot]

LEMMA VisitIs ==
    ASSUME NEW g, NEW a, NEW p, NEW limit, NEW w, NEW length, length = Probed(g, a, p, limit, w),
           NEW next, next = NextSlot(g, p, w, length)
    PROVE  Visit(g, a, p, limit, w) =
             [slot |-> next, dist |-> w.dist + Back(w.slot, next),
              second |-> GoesSecond(g, p, w, length),
              over |-> (length > w.length /\ length >= limit) \/ next = w.slot,
              length |-> Best(w, length), best |-> IF length > w.length THEN w.dist ELSE w.best,
              sublen |-> Filled(w.sublen, w.length + 1, length, w.dist),
              probes |-> w.probes \cup {w.dist}]
BY DEF Visit, Probed, Best, GoesSecond, NextSlot

LEMMA VisitTypes ==
    ASSUME NEW g \in Hashes, NEW a, NEW p \in Nat, NEW limit \in Nat, NEW w \in Walks
    PROVE  Visit(g, a, p, limit, w) \in Walks
<1>1. PICK length : length = Probed(g, a, p, limit, w)
  OBVIOUS
<1>2. PICK next : next = NextSlot(g, p, w, length)
  OBVIOUS
<1>3. w.slot \in Slots /\ w.dist \in Nat /\ w.length \in Nat /\ w.best \in Nat
      /\ w.sublen \in [1..MaxMatch -> Nat] /\ w.probes \in SUBSET Nat
  BY DEF Walks
<1>4. length \in Nat
  <2>1. MatchLength(g, a, p, w.dist, limit) \in 0..limit
    BY <1>3, MatchRange
  <2> QED BY <2>1, <1>1 DEF Probed
<1>5. next \in Slots
  BY <1>2, <1>3 DEF NextSlot, Hashes
<1>6. w.dist + Back(w.slot, next) \in Nat
  <2>1. Back(w.slot, next) \in Nat
    BY <1>3, <1>5, BackRange
  <2> QED BY <2>1, <1>3
<1>7. Best(w, length) \in Nat /\ (IF length > w.length THEN w.dist ELSE w.best) \in Nat
  BY <1>3, <1>4 DEF Best
<1>8. Filled(w.sublen, w.length + 1, length, w.dist) \in [1..MaxMatch -> Nat]
  BY <1>3 DEF Filled
<1>9. w.probes \cup {w.dist} \in SUBSET Nat
  BY <1>3
<1>10. GoesSecond(g, p, w, length) \in BOOLEAN
  BY DEF GoesSecond
<1>11. ((length > w.length /\ length >= limit) \/ next = w.slot) \in BOOLEAN
  OBVIOUS
<1> DEFINE over == (length > w.length /\ length >= limit) \/ next = w.slot
           best == IF length > w.length THEN w.dist ELSE w.best
           sublen == Filled(w.sublen, w.length + 1, length, w.dist)
<1>12. Visit(g, a, p, limit, w) =
         [slot |-> next, dist |-> w.dist + Back(w.slot, next),
          second |-> GoesSecond(g, p, w, length), over |-> over,
          length |-> Best(w, length), best |-> best, sublen |-> sublen,
          probes |-> w.probes \cup {w.dist}]
  BY <1>1, <1>2, VisitIs
<1>13. over \in BOOLEAN /\ best \in Nat /\ sublen \in [1..MaxMatch -> Nat]
  BY <1>7, <1>8, <1>11
<1> HIDE DEF over, best, sublen
<1> QED BY <1>5, <1>6, <1>7, <1>9, <1>10, <1>12, <1>13, IsAWalk

(* The walk is a function of its turns.                                    *)
IsWalk(g, a, p, limit, hits, after) ==
    /\ after[0] = First(g)
    /\ \A n \in 1..hits : after[n] = Turn(g, a, p, limit, after[n - 1])
    /\ \A n \in 0..hits : after[n] \in Walks
    /\ Walk(g, a, p, limit, hits) = after[hits]

LEMMA WalkDefined ==
    ASSUME NEW g \in Hashes, NEW a, NEW p \in Nat, NEW limit \in Nat, NEW hits \in Nat,
           First(g) \in Walks
    PROVE  \E after : IsWalk(g, a, p, limit, hits, after)
<1> DEFINE turn(w) == IF Over(w) THEN w ELSE Visit(g, a, p, limit, w)
           body(f) == [n \in 0..hits |-> IF n = 0 THEN First(g) ELSE turn(f[n - 1])]
           after == CHOOSE f : f = body(f)
           step == [n \in 1..hits |-> [w \in Walks |-> turn(w)]]
<1>1. Walk(g, a, p, limit, hits) = after[hits]
  BY DEF Walk
<1>2. \A w : turn(w) = Turn(g, a, p, limit, w)
  BY DEF Turn
<1>3. \A w \in Walks : turn(w) \in Walks
  BY VisitTypes
<1> HIDE DEF turn, after
<1>4. step \in [1..hits -> [Walks -> Walks]]
  BY <1>3
<1>5. \A n \in 1..hits : \A w \in Walks : step[n][w] = turn(w)
  OBVIOUS
<1> HIDE DEF step
<1>6. PICK f : IsRecursion(f, Walks, hits, First(g), step)
  <2>1. HasRecursion(Walks, hits, First(g), step)
    BY <1>4, RecursionDefines
  <2> QED BY <2>1 DEF HasRecursion
<1>7. ASSUME NEW n \in 1..hits PROVE f[n] = turn(f[n - 1])
  <2>1. f[n - 1] \in Walks /\ f[n] = step[n][f[n - 1]]
    BY <1>6 DEF IsRecursion
  <2> QED BY <2>1, <1>5
<1>8. f = body(f)
  BY <1>6, <1>7 DEF IsRecursion
<1>9. after = body(after)
  BY <1>8 DEF after
<1>10. after[0] = First(g) /\ \A n \in 1..hits : after[n] = turn(after[n - 1])
  BY <1>9
<1> HIDE DEF body
<1>11. \A n \in 0..hits : after[n] \in Walks
  <2>1. \A n \in 1..hits : after[n - 1] \in Walks => after[n] \in Walks
    BY <1>3, <1>10
  <2>2. after[0] \in Walks
    BY <1>10
  <2> QED BY <2>1, <2>2, RecursionStaysIn
<1>12. IsWalk(g, a, p, limit, hits, after)
  BY <1>1, <1>2, <1>10, <1>11 DEF IsWalk
<1> QED BY <1>12

(* What holds at first and is kept by every turn holds at the end.         *)
LEMMA WalkKeeps ==
    ASSUME NEW g, NEW a, NEW p, NEW limit, NEW hits \in Nat, NEW after,
           IsWalk(g, a, p, limit, hits, after), NEW S, First(g) \in S,
           \A w \in S : Turn(g, a, p, limit, w) \in S
    PROVE  \A n \in 0..hits : after[n] \in S
<1>1. after[0] \in S /\ \A n \in 1..hits : after[n - 1] \in S => after[n] \in S
  BY DEF IsWalk
<1> QED BY <1>1, RecursionStaysIn

-----------------------------------------------------------------------------
(* A search at p, when p has entered.                                      *)
Searching(g, a, first, size, p, limit) ==
    /\ IsWindow(a, first, size)
    /\ p \in first..(size - 3) /\ Holds(g, a, first, size, p + 1)
    /\ limit \in 3..(size - p) /\ limit <= MaxMatch

Dists(first, p) == {d \in 1..(WindowSize - 1) : d <= p - first}

(* The bytes of a common run need no comparison.                           *)
LEMMA SkipAgrees ==
    ASSUME NEW g, NEW a, NEW first, NEW size, NEW p, NEW limit,
           Searching(g, a, first, size, p, limit), NEW d \in Dists(first, p)
    PROVE  Skip(g, a, p, d, limit) \in 0..limit /\ Agree(a, p, d, Skip(g, a, p, d, limit))
<1>1. /\ first \in Nat /\ size \in Nat /\ p \in Nat /\ first <= p /\ p < size /\ limit \in Nat
      /\ g \in Hashes /\ Holds(g, a, first, size, p + 1)
  BY DEF Searching, IsWindow, Holds
<1>2. d \in Nat /\ d >= 1 /\ d < WindowSize /\ p - d >= first /\ p - d \in Nat /\ WindowSize \in Nat
  BY <1>1, Sizes DEF Dists
<1>3. PICK r0, r1 : r0 = g.same[Slot(p)] /\ r1 = g.same[Slot(p - d)]
  OBVIOUS
<1>4. p \in Recent(first, p + 1) /\ p - d \in Recent(first, p + 1)
  BY <1>1, <1>2, Sizes DEF Recent
<1>5. r0 = RunOf(a, p, size) /\ r1 = RunOf(a, p - d, size)
  BY <1>1, <1>3, <1>4 DEF Holds
<1>6. IsRun(a, p, size, r0) /\ IsRun(a, p - d, size, r1)
  <2>1. IsRun(a, p, size, RunOf(a, p, size))
    BY <1>1, RunOfIs
  <2>2. IsRun(a, p - d, size, RunOf(a, p - d, size))
    BY <1>1, <1>2, RunOfIs
  <2> QED BY <2>1, <2>2, <1>5
<1>7. Skip(g, a, p, d, limit) \in 0..limit
  BY <1>1, <1>2, SkipRange
<1>8. CASE r0 > 2 /\ Byte(a, p) = Byte(a, p - d)
  <2>1. PICK skip : skip = Skip(g, a, p, d, limit)
    OBVIOUS
  <2>2. skip = Smaller(Smaller(r1, r0), limit)
    BY <1>3, <1>8, <2>1 DEF Skip
  <2>3. r0 \in Nat /\ r1 \in Nat /\ skip \in Nat /\ skip <= r0 /\ skip <= r1
    BY <1>1, <1>6, <2>2 DEF Smaller, IsRun
  <2>4. ASSUME NEW l \in 0..(skip - 1) PROVE Byte(a, p + l) = Byte(a, p - d + l)
    <3>1. l \in 0..r0 /\ l \in 0..r1
      BY <2>3
    <3>2. Byte(a, p + l) = Byte(a, p)
      BY <3>1, <1>6 DEF IsRun
    <3>3. Byte(a, p - d + l) = Byte(a, p - d)
      BY <3>1, <1>6 DEF IsRun
    <3> QED BY <3>2, <3>3, <1>8
  <2> QED BY <2>1, <2>4, <1>7 DEF Agree
<1>9. CASE ~(r0 > 2 /\ Byte(a, p) = Byte(a, p - d))
  <2>1. Skip(g, a, p, d, limit) = 0
    BY <1>3, <1>9 DEF Skip
  <2> QED BY <2>1, <1>7 DEF Agree
<1> QED BY <1>8, <1>9

(* So that the length found is what there is, where it could be better.    *)
LEMMA LengthIs ==
    ASSUME NEW g, NEW a, NEW first, NEW size, NEW p, NEW limit,
           Searching(g, a, first, size, p, limit), NEW d \in Dists(first, p)
    PROVE  MatchLength(g, a, p, d, limit) = Smaller(Common(a, p, d, size), limit)
<1>1. /\ size \in Nat /\ p \in Nat /\ limit \in Nat /\ p + limit <= size
  BY DEF Searching, IsWindow
<1>2. PICK skip : skip = Skip(g, a, p, d, limit)
  OBVIOUS
<1>3. skip \in 0..limit /\ Agree(a, p, d, skip)
  BY <1>2, SkipAgrees
<1> QED BY <1>1, <1>2, <1>3, MatchIs

Found(a, size, p, limit, d) == Smaller(Common(a, p, d, size), limit)

LEMMA FoundRange ==
    ASSUME NEW g, NEW a, NEW first, NEW size, NEW p, NEW limit,
           Searching(g, a, first, size, p, limit), NEW d
    PROVE  /\ Found(a, size, p, limit, d) \in 0..limit
           /\ Common(a, p, d, size) \in 0..(size - p) /\ limit \in 3..(size - p)
           /\ Found(a, size, p, limit, d) <= Common(a, p, d, size)
           /\ Common(a, p, d, size) < limit => Found(a, size, p, limit, d) = Common(a, p, d, size)
           /\ Common(a, p, d, size) >= limit => Found(a, size, p, limit, d) = limit
<1>1. size \in Nat /\ p \in Nat /\ limit \in 3..(size - p) /\ p <= size
  BY DEF Searching, IsWindow
<1>2. Common(a, p, d, size) \in 0..(size - p)
  BY <1>1, CommonIs
<1> QED BY <1>1, <1>2 DEF Found, Smaller

LEMMA ProbedIs ==
    ASSUME NEW g, NEW a, NEW first, NEW size, NEW p, NEW limit,
           Searching(g, a, first, size, p, limit), NEW w \in Walks,
           w.dist \in Dists(first, p), w.length < limit
    PROVE  /\ Probed(g, a, p, limit, w) \in 0..limit
           /\ Found(a, size, p, limit, w.dist) > w.length =>
                Probed(g, a, p, limit, w) = Found(a, size, p, limit, w.dist)
           /\ Found(a, size, p, limit, w.dist) <= w.length => Probed(g, a, p, limit, w) <= w.length
<1>1. /\ size \in Nat /\ p \in Nat /\ limit \in Nat /\ p <= size
      /\ w.length \in Nat /\ w.dist > 0 /\ w.dist \in Nat
  BY DEF Searching, IsWindow, Dists, Walks
<1>2. PICK c : c = Found(a, size, p, limit, w.dist)
  OBVIOUS
<1>3. MatchLength(g, a, p, w.dist, limit) = c
  BY <1>2, LengthIs DEF Found
<1>4. c \in 0..limit /\ c <= Common(a, p, w.dist, size) /\ Common(a, p, w.dist, size) \in Nat
  BY <1>2, FoundRange
<1>5. CASE Byte(a, p + w.length) = Byte(a, p - w.dist + w.length)
  <2>1. Probed(g, a, p, limit, w) = c
    BY <1>1, <1>3, <1>5 DEF Probed
  <2> QED BY <2>1, <1>1, <1>2, <1>4
<1>6. CASE Byte(a, p + w.length) # Byte(a, p - w.dist + w.length)
  <2>1. Probed(g, a, p, limit, w) = 0
    BY <1>6 DEF Probed
  <2>2. Agree(a, p, w.dist, Common(a, p, w.dist, size))
    BY <1>1, CommonIs
  <2>3. ~(w.length < Common(a, p, w.dist, size))
    <3> SUFFICES ASSUME w.length < Common(a, p, w.dist, size) PROVE FALSE
      OBVIOUS
    <3>1. w.length \in 0..(Common(a, p, w.dist, size) - 1)
      BY <1>1, <1>4
    <3> QED BY <3>1, <2>2, <1>6 DEF Agree
  <2> QED BY <2>1, <2>3, <1>1, <1>2, <1>4
<1> QED BY <1>5, <1>6

-----------------------------------------------------------------------------
(* One link of a chain, from a position of the window: around, when no     *)
(* other with the value is in reach, or to the one before.                 *)
Linked(V, first, q, next) ==
    \/ next = Slot(q) /\ Alone(V, first, q)
    \/ \E o \in Int : Follows(V, first, q, o) /\ next = Slot(o) /\ next # Slot(q)
                      /\ Back(Slot(q), next) = q - o

LEMMA LinkGoesBack ==
    ASSUME NEW first \in Nat, NEW p \in Nat, NEW V, NEW head, NEW prev, NEW hashval,
           Chained(V, first, p, head, prev, hashval), NEW q \in Recent(first, p)
    PROVE  Linked(V, first, q, prev[Slot(q)]) /\ hashval[Slot(q)] = V[q]
<1>1. hashval[Slot(q)] = V[q] /\ LinksBack(V, first, q, prev[Slot(q)])
  BY DEF Chained
<1>2. q \in Int /\ WindowSize \in Nat
  BY Sizes DEF Recent
<1>3. CASE Alone(V, first, q) /\ prev[Slot(q)] = Slot(q)
  BY <1>1, <1>3 DEF Linked
<1>4. CASE \E o \in Int : Follows(V, first, q, o) /\ prev[Slot(q)] = Slot(o)
  <2>1. PICK o \in Int : Follows(V, first, q, o) /\ prev[Slot(q)] = Slot(o)
    BY <1>4
  <2>2. o < q /\ q - o < WindowSize
    BY <2>1, <1>2 DEF Follows
  <2>3. Slot(q) # Slot(o) /\ Back(Slot(q), Slot(o)) = q - o
    BY <2>2, <1>2, BackIs
  <2> QED BY <2>1, <2>3, <1>1 DEF Linked
<1> QED BY <1>1, <1>3, <1>4 DEF LinksBack

(* Where a walk is, while it goes on: at a position of the window with the *)
(* value of p.                                                             *)
Chain(a, first, size, second) ==
    IF second THEN Keys2(a, first, size) ELSE Keys(a, first, size)

AtPlace(a, first, size, p, w) ==
    /\ w.dist \in Dists(first, p) /\ w.slot = Slot(p - w.dist)
    /\ Chain(a, first, size, w.second)[p - w.dist] = Chain(a, first, size, w.second)[p]

(* Where a step along a chain from q leads.                                *)
Moved(V, first, q, p, n, over) ==
    \/ n.dist >= p - q + WindowSize /\ Alone(V, first, q)
    \/ n.over = over /\ Follows(V, first, q, p - n.dist) /\ n.slot = Slot(p - n.dist)

LEMMA MovedIs ==
    ASSUME NEW V, NEW first \in Nat, NEW p \in Nat, NEW d \in Nat, NEW next \in Slots,
           Linked(V, first, p - d, next), NEW over \in BOOLEAN, NEW n,
           n.slot = next, n.dist = d + Back(Slot(p - d), next),
           next # Slot(p - d) => n.over = over
    PROVE  Moved(V, first, p - d, p, n, over)
<1>1. PICK q : q = p - d
  OBVIOUS
<1>2. q \in Int /\ WindowSize \in Nat /\ Slot(q) \in Slots
  BY <1>1, Sizes, Divided
<1>3. CASE next = Slot(q) /\ Alone(V, first, q)
  <2>1. Back(Slot(q), next) = WindowSize
    BY <1>2, <1>3, BackRange
  <2>2. n.dist = d + WindowSize
    BY <2>1, <1>1, <1>3
  <2>3. n.dist >= p - q + WindowSize
    BY <2>2, <1>1, <1>2
  <2> QED BY <2>2, <2>3, <1>1, <1>3 DEF Moved
<1>4. CASE \E o \in Int : Follows(V, first, q, o) /\ next = Slot(o) /\ next # Slot(q)
                          /\ Back(Slot(q), next) = q - o
  <2>1. PICK o \in Int : Follows(V, first, q, o) /\ next = Slot(o) /\ next # Slot(q)
                         /\ Back(Slot(q), next) = q - o
    BY <1>4
  <2>2. n.dist = d + (q - o)
    BY <2>1, <1>1
  <2>3. o = p - n.dist
    BY <2>2, <1>1, <1>2
  <2>4. n.over = over
    BY <2>1, <1>1
  <2> QED BY <2>1, <2>3, <2>4, <1>1 DEF Moved
<1> QED BY <1>1, <1>3, <1>4 DEF Linked

(* The state after a turn.                                                 *)
Visited(a, first, size, p, limit, w, n) ==
    LET c == Found(a, size, p, limit, w.dist)
    IN  /\ n \in Walks /\ n.dist > w.dist
        /\ n.length = Larger(w.length, c)
        /\ n.best = IF c > w.length THEN w.dist ELSE w.best
        /\ \A k \in 1..MaxMatch :
              n.sublen[k] = IF w.length < k /\ k <= c THEN w.dist ELSE w.sublen[k]
        /\ n.probes = w.probes \cup {w.dist}
        /\ n.second = (w.second \/ (/\ n.length >= RunOf(a, p, size)
                                    /\ Keys2(a, first, size)[p - w.dist] = Keys2(a, first, size)[p]))
        /\ Moved(Chain(a, first, size, n.second), first, p - w.dist, p, n,
                 c > w.length /\ c >= limit)

LEMMA VisitedIs ==
    ASSUME NEW g, NEW a, NEW first, NEW size, NEW p, NEW limit,
           Searching(g, a, first, size, p, limit), NEW w \in Walks,
           AtPlace(a, first, size, p, w), w.length < limit
    PROVE  Visited(a, first, size, p, limit, w, Visit(g, a, p, limit, w))
<1>1. /\ first \in Nat /\ size \in Nat /\ p \in Nat /\ first <= p /\ p < size /\ limit \in Nat
      /\ g \in Hashes /\ Holds(g, a, first, size, p + 1) /\ p + 1 # first
  BY DEF Searching, IsWindow, Holds
<1>2. PICK d : d = w.dist
  OBVIOUS
<1>3. /\ d \in Dists(first, p) /\ d \in Nat /\ d >= 1 /\ d < WindowSize /\ p - d >= first
      /\ p - d \in Nat /\ WindowSize \in Nat /\ w.slot = Slot(p - d)
  BY <1>1, <1>2, Sizes DEF Dists, AtPlace
<1>4. PICK c, length : c = Found(a, size, p, limit, d) /\ length = Probed(g, a, p, limit, w)
  OBVIOUS
<1>5. w.length \in Nat /\ w.second \in BOOLEAN /\ w.sublen \in [1..MaxMatch -> Nat] /\ w.slot \in Slots
  BY DEF Walks
<1>6. /\ c \in 0..limit /\ length \in 0..limit
      /\ c > w.length => length = c
      /\ c <= w.length => length <= w.length
  <2>1. c \in 0..limit
    BY <1>4, FoundRange
  <2> QED BY <2>1, <1>2, <1>3, <1>4, ProbedIs
<1>7. c \in Nat /\ length \in Nat /\ (length > w.length <=> c > w.length)
  BY <1>1, <1>5, <1>6
<1>8. PICK next : next = NextSlot(g, p, w, length)
  OBVIOUS
<1>9. PICK n : n = Visit(g, a, p, limit, w)
  OBVIOUS
<1>10. n \in Walks
  BY <1>1, <1>9, VisitTypes
<1>11. n = [slot |-> next, dist |-> w.dist + Back(w.slot, next),
            second |-> GoesSecond(g, p, w, length),
            over |-> (length > w.length /\ length >= limit) \/ next = w.slot,
            length |-> Best(w, length), best |-> IF length > w.length THEN w.dist ELSE w.best,
            sublen |-> Filled(w.sublen, w.length + 1, length, w.dist),
            probes |-> w.probes \cup {w.dist}]
  BY <1>4, <1>8, <1>9, VisitIs
<1>12. n.length = Larger(w.length, c)
  BY <1>5, <1>6, <1>7, <1>11 DEF Best, Larger
<1>13. n.best = IF c > w.length THEN d ELSE w.best
  BY <1>2, <1>7, <1>11
<1>14. ASSUME NEW k \in 1..MaxMatch
       PROVE  n.sublen[k] = IF w.length < k /\ k <= c THEN d ELSE w.sublen[k]
  <2>1. n.sublen[k] = IF k \in (w.length + 1)..length THEN d ELSE w.sublen[k]
    BY <1>2, <1>11 DEF Filled
  <2>2. k \in Nat
    BY SizesAssumption
  <2>3. k \in (w.length + 1)..length <=> w.length < k /\ k <= c
    BY <2>2, <1>5, <1>6, <1>7
  <2> QED BY <2>1, <2>3
<1>15. n.probes = w.probes \cup {d}
  BY <1>2, <1>11
<1>16. p \in Recent(first, p + 1) /\ p - d \in Recent(first, p + 1)
  BY <1>1, <1>3, Sizes DEF Recent
<1>17. /\ Linked(Keys(a, first, size), first, p - d, g.prev[Slot(p - d)])
       /\ Linked(Keys2(a, first, size), first, p - d, g.prev2[Slot(p - d)])
       /\ g.hashval2[Slot(p - d)] = Keys2(a, first, size)[p - d]
  <2>1. /\ Chained(Keys(a, first, size), first, p + 1, g.head, g.prev, g.hashval)
        /\ Chained(Keys2(a, first, size), first, p + 1, g.head2, g.prev2, g.hashval2)
    BY <1>1 DEF Holds
  <2>2. p + 1 \in Nat
    BY <1>1
  <2> QED BY <2>1, <2>2, <1>1, <1>16, LinkGoesBack
<1>18. /\ g.same[Slot(p)] = RunOf(a, p, size) /\ g.val2 = Keys2(a, first, size)[p]
  <2>1. p + 1 - 1 = p
    BY <1>1
  <2> QED BY <2>1, <1>1, <1>16 DEF Holds
<1>19. n.second = (w.second \/ (/\ n.length >= RunOf(a, p, size)
                                /\ Keys2(a, first, size)[p - d] = Keys2(a, first, size)[p]))
  <2>1. n.second = (w.second \/ Switches(g, w.slot, p, n.length))
    BY <1>11 DEF GoesSecond
  <2>2. Switches(g, w.slot, p, n.length)
          <=> (/\ n.length >= RunOf(a, p, size)
               /\ Keys2(a, first, size)[p - d] = Keys2(a, first, size)[p])
    BY <1>3, <1>17, <1>18 DEF Switches
  <2> QED BY <2>1, <2>2, <1>5
<1>20. Linked(Chain(a, first, size, n.second), first, p - d, next)
  <2>1. next = IF n.second THEN g.prev2[Slot(p - d)] ELSE g.prev[Slot(p - d)]
    BY <1>3, <1>8, <1>11 DEF NextSlot
  <2> QED BY <2>1, <1>17 DEF Chain
<1>21. next \in Slots
  BY <1>10, <1>11 DEF Walks
<1>22. PICK over : over = (c > w.length /\ c >= limit)
  OBVIOUS
<1>23. over \in BOOLEAN /\ over = (length > w.length /\ length >= limit)
  BY <1>6, <1>7, <1>22
<1>24. /\ n.slot = next /\ n.dist = d + Back(Slot(p - d), next)
       /\ (next # Slot(p - d) => n.over = over)
  BY <1>2, <1>3, <1>11, <1>23
<1>25. Moved(Chain(a, first, size, n.second), first, p - d, p, n, over)
  BY <1>1, <1>3, <1>20, <1>21, <1>23, <1>24, MovedIs
<1>26. n.dist > d
  <2>1. Back(Slot(p - d), next) \in Nat /\ Back(Slot(p - d), next) >= 1
    BY <1>3, <1>5, <1>21, BackRange
  <2> QED BY <2>1, <1>3, <1>24
<1> QED BY <1>2, <1>4, <1>9, <1>10, <1>12, <1>13, <1>14, <1>15, <1>19, <1>22, <1>25, <1>26 DEF Visited

-----------------------------------------------------------------------------
(* What holds of a walk.  Distances that were tried share a value with p,  *)
(* and sublen names, for each length up to the best one, a distance behind *)
(* the walk at which that many bytes agree.                                *)
Alike(a, first, size, p) ==
    {d \in Dists(first, p) : \/ Keys(a, first, size)[p - d] = Keys(a, first, size)[p]
                             \/ Keys2(a, first, size)[p - d] = Keys2(a, first, size)[p]}

Real(a, first, size, p, k, d) == d \in Dists(first, p) /\ k <= Common(a, p, d, size)

Walking(a, first, size, p, limit, w) ==
    /\ w \in Walks /\ w.length \in 1..limit
    /\ ~Over(w) => AtPlace(a, first, size, p, w) /\ w.length < limit
    /\ w.probes \subseteq Alike(a, first, size, p)
    /\ w.best # 0 => w.sublen[w.length] = w.best
    /\ \A k \in 2..w.length : Real(a, first, size, p, k, w.sublen[k]) /\ w.sublen[k] < w.dist

LEMMA HeadIsLast ==
    ASSUME NEW V, NEW first \in Int, NEW p \in Int, first <= p, NEW v, v = V[p], NEW slot,
           HeadOf(V, first, p + 1, v, slot)
    PROVE  slot = Slot(p)
<1>1. (p + 1) - 1 = p /\ p \in first..p
  OBVIOUS
<1>2. CASE \A q \in first..p : V[q] # v
  BY <1>1, <1>2
<1>3. CASE \E q \in first..p : V[q] = v /\ slot = Slot(q) /\ \A r \in (q + 1)..p : V[r] # v
  <2>1. PICK q \in first..p : V[q] = v /\ slot = Slot(q) /\ \A r \in (q + 1)..p : V[r] # v
    BY <1>3
  <2>2. ~(p \in (q + 1)..p)
    BY <2>1
  <2>3. q = p
    BY <2>2
  <2> QED BY <2>1, <2>3
<1> QED BY <1>1, <1>2, <1>3 DEF HeadOf

LEMMA FirstWalks ==
    ASSUME NEW g, NEW a, NEW first, NEW size, NEW p, NEW limit,
           Searching(g, a, first, size, p, limit)
    PROVE  /\ Walking(a, first, size, p, limit, First(g))
           /\ Moved(Keys(a, first, size), first, p, p, First(g), FALSE)
<1>1. /\ first \in Nat /\ size \in Nat /\ p \in Nat /\ first <= p /\ p < size /\ limit \in Nat
      /\ limit >= 3 /\ g \in Hashes /\ Holds(g, a, first, size, p + 1) /\ p + 1 # first
  BY DEF Searching, IsWindow, Holds
<1>2. PICK K : K = Keys(a, first, size)
  OBVIOUS
<1>3. g.val = K[p] /\ g.val \in Values /\ Chained(K, first, p + 1, g.head, g.prev, g.hashval)
  <2>1. p + 1 - 1 = p
    BY <1>1
  <2> QED BY <2>1, <1>1, <1>2 DEF Holds, Hashes
<1>4. g.head[g.val] = Slot(p)
  <2>1. HeadOf(K, first, p + 1, g.val, g.head[g.val])
    BY <1>3 DEF Chained
  <2>2. PICK v, slot : v = g.val /\ slot = g.head[g.val]
    OBVIOUS
  <2>3. HeadOf(K, first, p + 1, v, slot) /\ v = K[p] /\ first \in Int /\ p \in Int /\ first <= p
    BY <2>1, <2>2, <1>1, <1>3
  <2>4. slot = Slot(p)
    BY <2>3, HeadIsLast
  <2> QED BY <2>2, <2>4
<1>5. p \in Recent(first, p + 1)
  BY <1>1, Sizes DEF Recent
<1>6. PICK w : w = First(g)
  OBVIOUS
<1>7. w = [slot |-> g.prev[Slot(p)], dist |-> Back(Slot(p), g.prev[Slot(p)]), second |-> FALSE,
           over |-> FALSE, length |-> 1, best |-> 0,
           sublen |-> [k \in 1..MaxMatch |-> 0], probes |-> {}]
  BY <1>4, <1>6 DEF First, NoMatch
<1>8. Slot(p) \in Slots /\ g.prev[Slot(p)] \in Slots
  BY <1>1, Divided DEF Hashes
<1>9. Back(Slot(p), g.prev[Slot(p)]) \in Nat
  BY <1>8, BackRange
<1>10. w \in Walks
  <2>1. [k \in 1..MaxMatch |-> 0] \in [1..MaxMatch -> Nat]
    OBVIOUS
  <2> QED BY <2>1, <1>7, <1>8, <1>9, IsAWalk
<1>11. Linked(K, first, p, g.prev[Slot(p)])
  <2>1. p + 1 \in Nat
    BY <1>1
  <2> QED BY <2>1, <1>1, <1>3, <1>5, LinkGoesBack
<1>12. Moved(K, first, p, p, w, FALSE)
  <2>1. p - 0 = p /\ w.dist = 0 + Back(Slot(p), g.prev[Slot(p)])
    BY <1>1, <1>7, <1>9
  <2>2. Moved(K, first, p - 0, p, w, FALSE)
    BY <2>1, <1>1, <1>7, <1>8, <1>11, MovedIs
  <2> QED BY <2>1, <2>2
<1>13. ~Over(w) => AtPlace(a, first, size, p, w)
  <2> SUFFICES ASSUME ~Over(w) PROVE AtPlace(a, first, size, p, w)
    OBVIOUS
  <2>1. w.second = FALSE /\ w.dist \in Nat /\ w.dist < WindowSize /\ WindowSize \in Nat
    BY <1>7, <1>9, Sizes DEF Over
  <2>2. ~(w.dist >= p - p + WindowSize)
    BY <2>1, <1>1
  <2>3. Follows(K, first, p, p - w.dist) /\ w.slot = Slot(p - w.dist)
    BY <2>2, <1>12 DEF Moved
  <2>4. p - w.dist \in first..(p - 1) /\ K[p - w.dist] = K[p]
    BY <2>3 DEF Follows
  <2>5. w.dist \in Dists(first, p)
    BY <2>1, <2>4, <1>1 DEF Dists
  <2> QED BY <2>1, <2>3, <2>4, <2>5, <1>2 DEF AtPlace, Chain
<1>14. w.length = 1 /\ w.best = 0 /\ w.probes = {}
  BY <1>7
<1>15. w.length \in 1..limit /\ w.length < limit /\ 2..w.length = {}
  BY <1>1, <1>14
<1>16. Walking(a, first, size, p, limit, w)
  BY <1>10, <1>13, <1>14, <1>15 DEF Walking
<1> QED BY <1>2, <1>6, <1>12, <1>16

(* Where a walk that is not over stands after a turn.                      *)
LEMMA PlaceAfter ==
    ASSUME NEW a, NEW first \in Nat, NEW size, NEW p \in Nat, NEW limit, NEW w \in Walks, NEW n,
           AtPlace(a, first, size, p, w), Visited(a, first, size, p, limit, w, n), ~Over(n)
    PROVE  /\ AtPlace(a, first, size, p, n)
           /\ Follows(Chain(a, first, size, n.second), first, p - w.dist, p - n.dist)
           /\ ~(/\ Found(a, size, p, limit, w.dist) > w.length
                /\ Found(a, size, p, limit, w.dist) >= limit)
<1>1. PICK V, c : V = Chain(a, first, size, n.second) /\ c = Found(a, size, p, limit, w.dist)
  OBVIOUS
<1>2. /\ w.dist \in Nat /\ WindowSize \in Nat /\ n \in Walks /\ n.dist \in Nat
      /\ n.dist < WindowSize /\ ~n.over
  BY Sizes DEF AtPlace, Dists, Walks, Over, Visited
<1>3. ~(n.dist >= p - (p - w.dist) + WindowSize)
  BY <1>2
<1>4. /\ n.over = (c > w.length /\ c >= limit) /\ Follows(V, first, p - w.dist, p - n.dist)
      /\ n.slot = Slot(p - n.dist)
  <2>1. Moved(V, first, p - w.dist, p, n, c > w.length /\ c >= limit)
    BY <1>1 DEF Visited
  <2> QED BY <2>1, <1>3 DEF Moved
<1>5. p - n.dist \in first..(p - w.dist - 1) /\ V[p - n.dist] = V[p - w.dist]
  BY <1>4 DEF Follows
<1>6. V[p - w.dist] = V[p]
  <2>1. CASE w.second
    <3>1. n.second
      BY <2>1 DEF Visited
    <3> QED BY <2>1, <3>1, <1>1 DEF AtPlace, Chain
  <2>2. CASE n.second /\ ~w.second
    <3>1. Keys2(a, first, size)[p - w.dist] = Keys2(a, first, size)[p]
      BY <2>2 DEF Visited
    <3> QED BY <2>2, <3>1, <1>1 DEF Chain
  <2>3. CASE ~n.second /\ ~w.second
    BY <2>3, <1>1 DEF AtPlace, Chain
  <2> QED BY <2>1, <2>2, <2>3
<1>7. n.dist \in Dists(first, p)
  <2>1. n.dist >= 1 /\ n.dist <= p - first
    BY <1>2, <1>5 DEF AtPlace, Dists
  <2> QED BY <2>1, <1>2 DEF Dists
<1>8. ~(c > w.length /\ c >= limit)
  BY <1>2, <1>4
<1> QED BY <1>1, <1>4, <1>5, <1>6, <1>7, <1>8 DEF AtPlace

LEMMA WalksOn ==
    ASSUME NEW g, NEW a, NEW first, NEW size, NEW p, NEW limit,
           Searching(g, a, first, size, p, limit), NEW w,
           Walking(a, first, size, p, limit, w), ~Over(w), NEW n,
           Visited(a, first, size, p, limit, w, n)
    PROVE  Walking(a, first, size, p, limit, n)
<1>1. /\ first \in Nat /\ size \in Nat /\ p \in Nat /\ limit \in Nat /\ limit >= 3 /\ limit <= MaxMatch
      /\ MaxMatch \in Nat
  BY SizesAssumption DEF Searching, IsWindow
<1>2. w \in Walks /\ AtPlace(a, first, size, p, w) /\ w.length \in 1..limit /\ w.length < limit
  BY DEF Walking
<1>3. PICK d, c : d = w.dist /\ c = Found(a, size, p, limit, d)
  OBVIOUS
<1>4. /\ c \in 0..limit /\ c <= Common(a, p, d, size) /\ Common(a, p, d, size) \in Nat
  BY <1>3, FoundRange
<1>5. d \in Dists(first, p) /\ d \in Nat /\ d > 0 /\ w.length \in Nat /\ w.second \in BOOLEAN
  BY <1>2, <1>3 DEF AtPlace, Dists, Walks
<1>6. /\ n \in Walks /\ n.dist > d /\ n.length = Larger(w.length, c)
      /\ n.best = IF c > w.length THEN d ELSE w.best
      /\ n.probes = w.probes \cup {d}
      /\ \A k \in 1..MaxMatch : n.sublen[k] = IF w.length < k /\ k <= c THEN d ELSE w.sublen[k]
  BY <1>3 DEF Visited
<1>7. n.length \in 1..limit /\ w.length <= n.length /\ c <= n.length
      /\ (n.length = w.length \/ n.length = c) /\ (c > w.length => n.length = c)
  BY <1>1, <1>2, <1>4, <1>5, <1>6 DEF Larger
<1>8. ASSUME ~Over(n) PROVE AtPlace(a, first, size, p, n) /\ n.length < limit
  <2>5. AtPlace(a, first, size, p, n) /\ ~(c > w.length /\ c >= limit)
    BY <1>1, <1>2, <1>3, <1>8, PlaceAfter
  <2>8. n.length < limit
    BY <2>5, <1>1, <1>2, <1>4, <1>5, <1>7
  <2> QED BY <2>5, <2>8
<1>9. n.probes \subseteq Alike(a, first, size, p)
  <2>1. d \in Alike(a, first, size, p)
    BY <1>2, <1>3, <1>5 DEF AtPlace, Chain, Alike
  <2> QED BY <2>1, <1>6 DEF Walking
<1>10. n.best # 0 => n.sublen[n.length] = n.best
  <2>1. n.length \in 1..MaxMatch /\ w.length \in 1..MaxMatch
    BY <1>1, <1>2, <1>7
  <2>2. CASE c > w.length
    BY <2>1, <2>2, <1>5, <1>6, <1>7
  <2>3. CASE ~(c > w.length)
    <3>1. n.length = w.length /\ n.best = w.best /\ n.sublen[w.length] = w.sublen[w.length]
      BY <2>1, <2>3, <1>4, <1>5, <1>6, <1>7
    <3> QED BY <3>1 DEF Walking
  <2> QED BY <2>2, <2>3
<1>11. ASSUME NEW k \in 2..n.length
       PROVE  Real(a, first, size, p, k, n.sublen[k]) /\ n.sublen[k] < n.dist
  <2>1. k \in 1..MaxMatch /\ k \in Nat
    BY <1>1, <1>7
  <2>2. CASE w.length < k
    <3>1. k <= c
      BY <2>1, <2>2, <1>4, <1>5, <1>7
    <3>2. n.sublen[k] = d
      BY <2>1, <2>2, <3>1, <1>6
    <3>3. k <= Common(a, p, d, size)
      BY <2>1, <3>1, <1>4
    <3> QED BY <3>2, <3>3, <1>5, <1>6 DEF Real
  <2>3. CASE ~(w.length < k)
    <3>1. n.sublen[k] = w.sublen[k] /\ k \in 2..w.length
      BY <2>1, <2>3, <1>5, <1>6
    <3>2. Real(a, first, size, p, k, w.sublen[k]) /\ w.sublen[k] < d
      BY <3>1, <1>3 DEF Walking
    <3>3. w.sublen[k] \in Nat /\ n.dist \in Nat
      BY <3>2, <1>6 DEF Real, Dists, Walks
    <3> QED BY <3>1, <3>2, <3>3, <1>5, <1>6
  <2> QED BY <2>2, <2>3
<1> QED BY <1>6, <1>7, <1>8, <1>9, <1>10, <1>11 DEF Walking

LEMMA TurnWalks ==
    ASSUME NEW g, NEW a, NEW first, NEW size, NEW p, NEW limit,
           Searching(g, a, first, size, p, limit), NEW w, Walking(a, first, size, p, limit, w)
    PROVE  Walking(a, first, size, p, limit, Turn(g, a, p, limit, w))
<1>1. CASE Over(w)
  BY <1>1 DEF Turn
<1>2. CASE ~Over(w)
  <2>1. w \in Walks /\ AtPlace(a, first, size, p, w) /\ w.length < limit
    BY <1>2 DEF Walking
  <2>2. Visited(a, first, size, p, limit, w, Visit(g, a, p, limit, w))
    BY <2>1, VisitedIs
  <2> QED BY <1>2, <2>2, WalksOn DEF Turn
<1> QED BY <1>1, <1>2

(* A search that may find something is a walk.                             *)
LEMMA Searched1 ==
    ASSUME NEW g, NEW a, NEW first, NEW size, NEW p, NEW limit, NEW hits \in Nat,
           Searching(g, a, first, size, p, limit)
    PROVE  \E after : /\ IsWalk(g, a, p, limit, hits, after)
                      /\ \A n \in 0..hits : Walking(a, first, size, p, limit, after[n])
<1>1. g \in Hashes /\ p \in Nat /\ limit \in Nat
  BY DEF Searching, IsWindow, Holds
<1>2. Walking(a, first, size, p, limit, First(g))
  BY FirstWalks
<1>3. First(g) \in Walks
  BY <1>2 DEF Walking
<1>4. PICK after : IsWalk(g, a, p, limit, hits, after)
  BY <1>1, <1>3, WalkDefined
<1> DEFINE S == {w \in Walks : Walking(a, first, size, p, limit, w)}
<1>5. \A w \in S : Turn(g, a, p, limit, w) \in S
  <2>1. \A w \in S : Walking(a, first, size, p, limit, Turn(g, a, p, limit, w))
    BY TurnWalks
  <2> QED BY <2>1 DEF Walking
<1>6. \A n \in 0..hits : after[n] \in S
  BY <1>2, <1>3, <1>4, <1>5, WalkKeeps
<1> QED BY <1>4, <1>6

-----------------------------------------------------------------------------
(* Two searches of which one may stop earlier go together until it does.   *)
Together(limit, w1, w2) ==
    \/ w1 = w2 /\ w1.length < limit
    \/ Over(w1) /\ w1.length = limit /\ limit <= w2.length /\ w1.best = w2.sublen[limit]

LEMMA TogetherVisit ==
    ASSUME NEW g, NEW a, NEW first, NEW size, NEW p, NEW limit, NEW full,
           Searching(g, a, first, size, p, limit), Searching(g, a, first, size, p, full),
           limit <= full, NEW w \in Walks, AtPlace(a, first, size, p, w), w.length < limit
    PROVE  Together(limit, Visit(g, a, p, limit, w), Visit(g, a, p, full, w))
<1>1. /\ limit \in Nat /\ full \in Nat /\ limit \in 1..MaxMatch /\ w.dist \in Dists(first, p)
      /\ w.length \in Nat /\ w.dist > 0
  BY SizesAssumption DEF Searching, IsWindow, AtPlace, Walks, Dists
<1>2. PICK d, c1, c2, c : /\ d = w.dist /\ c1 = Found(a, size, p, limit, d)
                          /\ c2 = Found(a, size, p, full, d) /\ c = Common(a, p, d, size)
  OBVIOUS
<1>3. /\ c \in Nat /\ c1 \in Nat /\ c2 \in Nat
      /\ c < limit => c1 = c /\ c2 = c
      /\ c >= limit => c1 = limit /\ c2 >= limit
  <2>1. /\ c1 \in 0..limit /\ c \in 0..(size - p)
        /\ c < limit => c1 = c
        /\ c >= limit => c1 = limit
    BY <1>2, FoundRange
  <2>2. /\ c2 \in 0..full
        /\ c < full => c2 = c
        /\ c >= full => c2 = full
    BY <1>2, FoundRange
  <2> QED BY <2>1, <2>2, <1>1
<1>4. CASE c < limit
  <2>1. /\ MatchLength(g, a, p, d, limit) = c /\ MatchLength(g, a, p, d, full) = c
    BY <1>1, <1>2, <1>3, <1>4, LengthIs DEF Found
  <2>2. Probed(g, a, p, limit, w) = Probed(g, a, p, full, w)
    BY <2>1, <1>2 DEF Probed
  <2>3. PICK length : length = Probed(g, a, p, limit, w)
    OBVIOUS
  <2>4. length \in {0, c}
    BY <2>1, <2>3, <1>2 DEF Probed
  <2>5. length \in Nat /\ ~(length >= limit) /\ ~(length >= full)
    BY <2>4, <1>1, <1>3, <1>4
  <2>6. PICK next : next = NextSlot(g, p, w, length)
    OBVIOUS
  <2>7. Visit(g, a, p, limit, w) =
             [slot |-> next, dist |-> w.dist + Back(w.slot, next),
              second |-> GoesSecond(g, p, w, length),
              over |-> (length > w.length /\ length >= limit) \/ next = w.slot,
              length |-> Best(w, length), best |-> IF length > w.length THEN w.dist ELSE w.best,
              sublen |-> Filled(w.sublen, w.length + 1, length, w.dist),
              probes |-> w.probes \cup {w.dist}]
    BY <2>3, <2>6, VisitIs
  <2>8. Visit(g, a, p, full, w) =
             [slot |-> next, dist |-> w.dist + Back(w.slot, next),
              second |-> GoesSecond(g, p, w, length),
              over |-> (length > w.length /\ length >= full) \/ next = w.slot,
              length |-> Best(w, length), best |-> IF length > w.length THEN w.dist ELSE w.best,
              sublen |-> Filled(w.sublen, w.length + 1, length, w.dist),
              probes |-> w.probes \cup {w.dist}]
    BY <2>2, <2>3, <2>6, VisitIs
  <2>9. (length > w.length /\ length >= limit) = (length > w.length /\ length >= full)
    BY <2>5
  <2>10. Visit(g, a, p, limit, w) = Visit(g, a, p, full, w)
    BY <2>7, <2>8, <2>9
  <2>11. Visit(g, a, p, limit, w).length = Best(w, length)
    BY <2>7
  <2>12. Best(w, length) < limit
    BY <2>5, <1>1 DEF Best
  <2> QED BY <2>10, <2>11, <2>12 DEF Together
<1>5. CASE c >= limit
  <2>1. PICK n1, n2 : n1 = Visit(g, a, p, limit, w) /\ n2 = Visit(g, a, p, full, w)
    OBVIOUS
  <2>2. Visited(a, first, size, p, limit, w, n1) /\ Visited(a, first, size, p, full, w, n2)
    <3>1. w.length < full
      BY <1>1
    <3> QED BY <2>1, <3>1, VisitedIs
  <2>3. c1 = limit /\ c2 >= limit /\ c1 > w.length /\ c2 > w.length
    BY <1>1, <1>3, <1>5
  <2>4. n1.length = limit /\ n1.best = d
    <3>1. n1.length = Larger(w.length, c1) /\ n1.best = IF c1 > w.length THEN d ELSE w.best
      BY <2>2, <1>2 DEF Visited
    <3> QED BY <3>1, <2>3, <1>1 DEF Larger
  <2>5. n2.length >= limit /\ n2.sublen[limit] = d
    <3>1. /\ n2.length = Larger(w.length, c2)
          /\ n2.sublen[limit] = IF w.length < limit /\ limit <= c2 THEN d ELSE w.sublen[limit]
      BY <2>2, <1>1, <1>2 DEF Visited
    <3> QED BY <3>1, <2>3, <1>1, <1>3 DEF Larger
  <2>6. Over(n1)
    <3> SUFFICES ASSUME ~Over(n1) PROVE FALSE
      OBVIOUS
    <3>1. first \in Nat /\ p \in Nat
      BY DEF Searching, IsWindow
    <3>2. ~(c1 > w.length /\ c1 >= limit)
      BY <3>1, <2>2, <1>2, PlaceAfter
    <3> QED BY <3>2, <2>3, <1>1
  <2> QED BY <2>1, <2>4, <2>5, <2>6, <1>1 DEF Together
<1> QED BY <1>1, <1>3, <1>4, <1>5

LEMMA TogetherTurn ==
    ASSUME NEW g, NEW a, NEW first, NEW size, NEW p, NEW limit, NEW full,
           Searching(g, a, first, size, p, limit), Searching(g, a, first, size, p, full),
           limit <= full, NEW w1, Walking(a, first, size, p, limit, w1),
           NEW w2, Walking(a, first, size, p, full, w2), Together(limit, w1, w2)
    PROVE  Together(limit, Turn(g, a, p, limit, w1), Turn(g, a, p, full, w2))
<1>1. CASE w1 = w2 /\ w1.length < limit
  <2>1. CASE Over(w1)
    BY <2>1, <1>1 DEF Turn
  <2>2. CASE ~Over(w1)
    <3>1. w1 \in Walks /\ AtPlace(a, first, size, p, w1)
      BY <2>2 DEF Walking
    <3>2. Together(limit, Visit(g, a, p, limit, w1), Visit(g, a, p, full, w1))
      BY <3>1, <1>1, TogetherVisit
    <3> QED BY <3>2, <2>2, <1>1 DEF Turn
  <2> QED BY <2>1, <2>2
<1>2. CASE Over(w1) /\ w1.length = limit /\ limit <= w2.length /\ w1.best = w2.sublen[limit]
  <2>1. CASE Over(w2)
    BY <2>1, <1>2 DEF Turn
  <2>2. CASE ~Over(w2)
    <3>1. PICK n : n = Visit(g, a, p, full, w2)
      OBVIOUS
    <3>2. w2 \in Walks /\ AtPlace(a, first, size, p, w2) /\ w2.length < full
      BY <2>2 DEF Walking
    <3>3. Visited(a, first, size, p, full, w2, n)
      BY <3>1, <3>2, VisitedIs
    <3>4. PICK c : c = Found(a, size, p, full, w2.dist)
      OBVIOUS
    <3>5. c \in Nat /\ w2.length \in Nat /\ limit \in Nat /\ limit \in 1..MaxMatch
      <4>1. c \in 0..full
        BY <3>4, FoundRange
      <4>2. full \in Nat
        BY DEF Searching, IsWindow
      <4> QED BY <4>1, <4>2, <3>2, SizesAssumption DEF Walks, Searching, IsWindow
    <3>6. n.length = Larger(w2.length, c)
          /\ n.sublen[limit] = IF w2.length < limit /\ limit <= c THEN w2.dist ELSE w2.sublen[limit]
      BY <3>3, <3>4, <3>5 DEF Visited
    <3>7. n.length >= limit /\ n.sublen[limit] = w2.sublen[limit]
      BY <3>5, <3>6, <1>2 DEF Larger
    <3>8. Turn(g, a, p, limit, w1) = w1 /\ Turn(g, a, p, full, w2) = n
      BY <3>1, <2>2, <1>2 DEF Turn
    <3>9. n.length \in Nat
      BY <3>5, <3>6 DEF Larger
    <3> QED BY <3>5, <3>7, <3>8, <3>9, <1>2 DEF Together
  <2> QED BY <2>1, <2>2
<1> QED BY <1>1, <1>2 DEF Together

(* The one that stops earlier ends with the distance the other has for the *)
(* length it was asked for.                                                *)
LEMMA LimitsAgree ==
    ASSUME NEW g, NEW a, NEW first, NEW size, NEW p, NEW limit, NEW full, NEW hits \in Nat,
           Searching(g, a, first, size, p, limit), Searching(g, a, first, size, p, full),
           limit <= full
    PROVE  Together(limit, Walk(g, a, p, limit, hits), Walk(g, a, p, full, hits))
<1>1. PICK u : IsWalk(g, a, p, limit, hits, u)
               /\ \A n \in 0..hits : Walking(a, first, size, p, limit, u[n])
  BY Searched1
<1>2. PICK v : IsWalk(g, a, p, full, hits, v)
               /\ \A n \in 0..hits : Walking(a, first, size, p, full, v[n])
  BY Searched1
<1> DEFINE S == {n \in 0..hits : Together(limit, u[n], v[n])}
<1>3. 0 \in S
  <2>1. u[0] = First(g) /\ v[0] = First(g)
    BY <1>1, <1>2 DEF IsWalk
  <2>2. First(g).length = 1 /\ 1 < limit
    BY DEF First, Searching, IsWindow
  <2> QED BY <2>1, <2>2 DEF Together
<1>4. ASSUME NEW k \in 0..(hits - 1), k \in S PROVE k + 1 \in S
  <2>1. k + 1 \in 1..hits /\ k \in 0..hits /\ (k + 1) - 1 = k /\ k + 1 \in 0..hits
    OBVIOUS
  <2>2. /\ u[k + 1] = Turn(g, a, p, limit, u[k])
        /\ v[k + 1] = Turn(g, a, p, full, v[k])
    <3>1. PICK m : m = k + 1
      OBVIOUS
    <3>2. m \in 1..hits /\ m - 1 = k
      BY <2>1, <3>1
    <3>3. u[m] = Turn(g, a, p, limit, u[m - 1]) /\ v[m] = Turn(g, a, p, full, v[m - 1])
      BY <3>2, <1>1, <1>2 DEF IsWalk
    <3> QED BY <3>1, <3>2, <3>3
  <2>3. Together(limit, u[k], v[k])
    BY <1>4
  <2>4. Walking(a, first, size, p, limit, u[k]) /\ Walking(a, first, size, p, full, v[k])
    BY <2>1, <1>1, <1>2
  <2>5. Together(limit, u[k + 1], v[k + 1])
    BY <2>2, <2>3, <2>4, TogetherTurn
  <2> QED BY <2>1, <2>5
<1>5. 0..hits \subseteq S
  <2> HIDE DEF S
  <2> QED BY <1>3, <1>4, SetInductionUpTo
<1>6. Together(limit, u[hits], v[hits])
  BY <1>5
<1> QED BY <1>1, <1>2, <1>6 DEF IsWalk

-----------------------------------------------------------------------------
(* Values and bytes.  In a search the values are those of three bytes.     *)
LEMMA KeysAreHashes ==
    ASSUME NEW g, NEW a, NEW first, NEW size, NEW p, NEW limit,
           Searching(g, a, first, size, p, limit), NEW q \in first..p
    PROVE  /\ Keys(a, first, size)[q] = HashOf(a, q)
           /\ Keys2(a, first, size)[q] = SecondOf(a, q, size)
           /\ HashOf(a, q) \in Values
<1>1. /\ first \in Nat /\ size \in Nat /\ p \in Nat /\ p + 3 <= size /\ q \in Nat /\ q <= p
      /\ IsWindow(a, first, size) /\ first <= q /\ q < size
  BY DEF Searching, IsWindow
<1>2. size # first + 1 /\ q + 1 < size /\ q + 2 < size /\ q \in first..(size - 1)
  BY <1>1
<1>3. Padded(a, size, q) = Byte(a, q) /\ Padded(a, size, q + 1) = Byte(a, q + 1)
      /\ Padded(a, size, q + 2) = Byte(a, q + 2)
  BY <1>1, <1>2 DEF Padded
<1>4. Key(a, first, size, q) = HashOf(a, q)
  BY <1>2, <1>3 DEF Key, HashOf, Hashed, Trigram
<1>5. Key(a, first, size, q) \in Values
  BY <1>1, <1>2, KeyIs
<1> QED BY <1>2, <1>4, <1>5 DEF Keys, Keys2, SecondOf

(* The hash tells the three bytes of positions apart.                      *)
Distinct(a) ==
    \A q, r \in 0..(Len(a) - 3) :
        Trigram(a, q) # Trigram(a, r) => HashOf(a, q) # HashOf(a, r)

LEMMA SameKey ==
    ASSUME NEW g, NEW a, NEW first, NEW size, NEW p, NEW limit,
           Searching(g, a, first, size, p, limit), NEW d \in Dists(first, p)
    PROVE  /\ Common(a, p, d, size) >= 3 => Keys(a, first, size)[p - d] = Keys(a, first, size)[p]
           /\ Distinct(a) /\ Keys(a, first, size)[p - d] = Keys(a, first, size)[p]
                => \A l \in 0..2 : Byte(a, p + l) = Byte(a, p - d + l)
<1>1. /\ first \in Nat /\ size \in Nat /\ p \in Nat /\ p + 3 <= size /\ first <= p /\ p <= size
      /\ size <= Len(a) /\ Len(a) \in Nat
  BY DEF Searching, IsWindow
<1>2. d \in Nat /\ p - d \in first..p /\ p \in first..p /\ p - d \in Nat
  BY <1>1, Sizes DEF Dists
<1>3. /\ Keys(a, first, size)[p - d] = HashOf(a, p - d)
      /\ Keys(a, first, size)[p] = HashOf(a, p)
  BY <1>2, KeysAreHashes
<1>4. ASSUME Common(a, p, d, size) >= 3 PROVE HashOf(a, p - d) = HashOf(a, p)
  <2>1. Agree(a, p, d, Common(a, p, d, size)) /\ Common(a, p, d, size) \in Nat
    BY <1>1, CommonIs
  <2>2. \A l \in 0..2 : Byte(a, p + l) = Byte(a, p - d + l)
    BY <2>1, <1>4 DEF Agree
  <2>3. Byte(a, p + 0) = Byte(a, p - d + 0) /\ Byte(a, p + 1) = Byte(a, p - d + 1)
        /\ Byte(a, p + 2) = Byte(a, p - d + 2)
    BY <2>2
  <2>4. p + 0 = p /\ p - d + 0 = p - d
    BY <1>1, <1>2
  <2> QED BY <2>3, <2>4 DEF HashOf, Trigram
<1>5. ASSUME Distinct(a), HashOf(a, p - d) = HashOf(a, p), NEW l \in 0..2
      PROVE  Byte(a, p + l) = Byte(a, p - d + l)
  <2>1. p \in 0..(Len(a) - 3) /\ p - d \in 0..(Len(a) - 3)
    BY <1>1, <1>2
  <2>2. Trigram(a, p - d) = Trigram(a, p)
    BY <2>1, <1>5 DEF Distinct
  <2>3. Byte(a, p) = Byte(a, p - d) /\ Byte(a, p + 1) = Byte(a, p - d + 1)
        /\ Byte(a, p + 2) = Byte(a, p - d + 2)
    BY <2>2 DEF Trigram
  <2>4. p + 0 = p /\ p - d + 0 = p - d /\ (l = 0 \/ l = 1 \/ l = 2)
    BY <1>1, <1>2
  <2> QED BY <2>3, <2>4
<1> QED BY <1>3, <1>4, <1>5

(* Numbers that are the same modulo N are the same, or N or more apart.    *)
LEMMA Congruent ==
    ASSUME NEW N \in Nat, N >= 1, NEW x \in Int, NEW y \in Int, x % N = y % N
    PROVE  x = y \/ x - y >= N \/ y - x >= N
<1>1. PICK i, j : i = x \div N /\ j = y \div N
  OBVIOUS
<1>2. i \in Int /\ j \in Int /\ x % N \in Int
  BY <1>1
<1>3. x = N * i + (x % N) /\ y = N * j + (x % N)
  BY <1>1
<1>4. x - y = N * (i - j)
  BY <1>2, <1>3
<1>5. PICK k \in Int : k = i - j
  BY <1>2
<1>6. k >= 1 => N * k >= N
  BY <1>5
<1>7. k <= -1 => N * k <= -N
  BY <1>5
<1>8. k = 0 => N * k = 0
  OBVIOUS
<1>9. PICK m : m = N * k
  OBVIOUS
<1>10. m \in Int /\ m = x - y
  BY <1>4, <1>5, <1>9
<1> QED BY <1>5, <1>6, <1>7, <1>8, <1>9, <1>10

(* More bytes than the run and the one behind it agree only where a run of *)
(* that length starts.                                                     *)
LEMMA RunsAgree ==
    ASSUME NEW g, NEW a, NEW first, NEW size, NEW p, NEW limit,
           Searching(g, a, first, size, p, limit), NEW d \in Dists(first, p),
           RunOf(a, p, size) < SameMax, Common(a, p, d, size) >= RunOf(a, p, size) + 2
    PROVE  RunOf(a, p - d, size) = RunOf(a, p, size)
<1>1. /\ first \in Nat /\ size \in Nat /\ p \in Nat /\ p < size /\ p <= size /\ first <= p
      /\ d \in Nat /\ p - d \in Nat /\ d >= 1
  BY Sizes DEF Searching, IsWindow, Dists
<1>2. PICK s, c : s = RunOf(a, p, size) /\ c = Common(a, p, d, size)
  OBVIOUS
<1>3. IsRun(a, p, size, s)
  BY <1>1, <1>2, RunOfIs
<1>4. c \in 0..(size - p) /\ Agree(a, p, d, c)
  BY <1>1, <1>2, CommonIs
<1>5. s \in Nat /\ s < SameMax /\ c >= s + 2 /\ SameMax \in Nat
  BY <1>2, <1>3, SizesAssumption DEF IsRun
<1>6. \A l \in 0..(s + 1) : Byte(a, p + l) = Byte(a, p - d + l)
  <2>1. \A l \in 0..(s + 1) : l \in 0..(c - 1)
    BY <1>4, <1>5
  <2> QED BY <2>1, <1>4 DEF Agree
<1>7. Byte(a, p) = Byte(a, p - d)
  <2>1. 0 \in 0..(s + 1) /\ p + 0 = p /\ p - d + 0 = p - d
    BY <1>1, <1>5
  <2> QED BY <2>1, <1>6
<1>8. \A l \in 0..s : Byte(a, p - d + l) = Byte(a, p - d)
  <2> SUFFICES ASSUME NEW l \in 0..s PROVE Byte(a, p - d + l) = Byte(a, p - d)
    OBVIOUS
  <2>1. l \in 0..(s + 1)
    BY <1>5
  <2>2. Byte(a, p + l) = Byte(a, p)
    BY <1>3 DEF IsRun
  <2> QED BY <2>1, <2>2, <1>6, <1>7
<1>9. Byte(a, p - d + s + 1) # Byte(a, p - d)
  <2>1. p + s + 1 < size
    BY <1>1, <1>4, <1>5
  <2>2. Byte(a, p + s + 1) # Byte(a, p)
    BY <2>1, <1>3, <1>5 DEF IsRun
  <2>3. p + (s + 1) = p + s + 1 /\ p - d + (s + 1) = p - d + s + 1 /\ s + 1 \in 0..(s + 1)
    BY <1>1, <1>5
  <2>4. Byte(a, p + (s + 1)) = Byte(a, p - d + (s + 1))
    BY <2>3, <1>6
  <2> QED BY <2>2, <2>3, <2>4, <1>7
<1>10. s <= size - (p - d) - 1 /\ s <= SameMax
  BY <1>1, <1>4, <1>5
<1>11. IsRun(a, p - d, size, s)
  BY <1>5, <1>8, <1>9, <1>10 DEF IsRun
<1>12. IsRun(a, p - d, size, RunOf(a, p - d, size))
  BY <1>1, RunOfIs
<1> QED BY <1>1, <1>2, <1>11, <1>12, OneRun

(* Positions with both values in common have runs of one length, or a      *)
(* multiple of SameMask + 1 apart.                                         *)
LEMMA RunsCongruent ==
    ASSUME NEW r \in Nat, NEW s \in Nat, NEW v \in Values, Second(r, v) = Second(s, v)
    PROVE  r = s \/ r - s >= SameMask + 1 \/ s - r >= SameMask + 1
<1>1. SameMask \in Nat /\ SameMask <= HashMask /\ HashMask \in Nat /\ MinMatch = 3
  BY SizesAssumption
<1>2. PICK x, y, N : x = r - 3 /\ y = s - 3 /\ N = SameMask + 1
  OBVIOUS
<1>3. x \in Int /\ y \in Int /\ N \in Nat /\ N >= 1 /\ N - 1 <= HashMask
  BY <1>1, <1>2
<1>4. x % N \in 0..(N - 1) /\ y % N \in 0..(N - 1)
  BY <1>3
<1>5. x % N \in Values /\ y % N \in Values
  BY <1>1, <1>3, <1>4 DEF Values
<1>6. BitXor(x % N, v) = BitXor(y % N, v)
  BY <1>1, <1>2 DEF Second
<1>7. x % N = y % N
  <2>1. PICK i, j : i = x % N /\ j = y % N
    OBVIOUS
  <2> QED BY <2>1, <1>5, <1>6, HashAssumption
<1>8. x = y \/ x - y >= N \/ y - x >= N
  BY <1>3, <1>7, Congruent
<1> QED BY <1>1, <1>2, <1>8

(* The walk changes to the second chain with a match longer than the run,  *)
(* if it does not end there: of the same run the first byte behind agrees, *)
(* and a run shorter by SameMask + 1 is none.                              *)
LEMMA SwitchCovers ==
    ASSUME NEW g, NEW a, NEW first, NEW size, NEW p, NEW limit,
           Searching(g, a, first, size, p, limit), NEW d \in Dists(first, p), Distinct(a),
           Keys(a, first, size)[p - d] = Keys(a, first, size)[p],
           Keys2(a, first, size)[p - d] = Keys2(a, first, size)[p],
           NEW m \in Nat, RunOf(a, p, size) <= m, m < limit, Found(a, size, p, limit, d) <= m
    PROVE  RunOf(a, p, size) < m
<1>1. /\ first \in Nat /\ size \in Nat /\ p \in Nat /\ p < size /\ p <= size /\ first <= p
      /\ d \in Nat /\ p - d \in Nat /\ d >= 1 /\ p - d \in first..p /\ p \in first..p
      /\ p + 3 <= size /\ p - d < size /\ limit \in Nat /\ limit <= size - p /\ limit <= MaxMatch
  BY Sizes DEF Searching, IsWindow, Dists
<1>2. PICK s, r, c : s = RunOf(a, p, size) /\ r = RunOf(a, p - d, size) /\ c = Common(a, p, d, size)
  OBVIOUS
<1>3. IsRun(a, p, size, s) /\ IsRun(a, p - d, size, r)
  <2>1. IsRun(a, p, size, RunOf(a, p, size))
    BY <1>1, RunOfIs
  <2>2. IsRun(a, p - d, size, RunOf(a, p - d, size))
    BY <1>1, RunOfIs
  <2> QED BY <2>1, <2>2, <1>2
<1>4. s \in Nat /\ r \in Nat /\ s <= size - p - 1 /\ r <= SameMax /\ s <= m
  BY <1>2, <1>3 DEF IsRun
<1>5. \A l \in 0..2 : Byte(a, p + l) = Byte(a, p - d + l)
  BY SameKey
<1>6. Byte(a, p) = Byte(a, p - d)
  <2>1. 0 \in 0..2 /\ p + 0 = p /\ p - d + 0 = p - d
    BY <1>1
  <2> QED BY <2>1, <1>5
<1>7. c \in Nat /\ c <= m /\ c < limit
  <2>1. /\ c \in 0..(size - p)
        /\ c < limit => Found(a, size, p, limit, d) = c
        /\ c >= limit => Found(a, size, p, limit, d) = limit
    BY <1>2, FoundRange
  <2> QED BY <2>1, <1>1
<1>8. s <= r => s + 1 <= c
  <2> SUFFICES ASSUME s <= r PROVE s + 1 <= c
    OBVIOUS
  <2>1. ASSUME NEW l \in 0..s PROVE Byte(a, p + l) = Byte(a, p - d + l)
    <3>1. l \in 0..r
      BY <1>4
    <3> QED BY <3>1, <1>3, <1>6 DEF IsRun
  <2>2. (s + 1) - 1 = s /\ s + 1 \in Nat /\ s + 1 <= size - p
    BY <1>1, <1>4
  <2>3. Agree(a, p, d, s + 1)
    BY <2>1, <2>2 DEF Agree
  <2>4. \A k \in Nat : k <= size - p /\ Agree(a, p, d, k) => k <= Common(a, p, d, size)
    BY <1>1, CommonIs
  <2> QED BY <2>2, <2>3, <2>4, <1>2
<1>9. r = s \/ r - s >= SameMask + 1 \/ s - r >= SameMask + 1
  <2>1. PICK v : v = HashOf(a, p)
    OBVIOUS
  <2>2. v \in Values /\ Keys2(a, first, size)[p] = Second(s, v) /\ Keys(a, first, size)[p] = v
    BY <2>1, <1>1, <1>2, KeysAreHashes DEF SecondOf
  <2>3. Keys2(a, first, size)[p - d] = Second(r, HashOf(a, p - d))
        /\ Keys(a, first, size)[p - d] = HashOf(a, p - d)
    BY <1>1, <1>2, KeysAreHashes DEF SecondOf
  <2>4. Second(r, v) = Second(s, v)
    BY <2>2, <2>3
  <2> QED BY <2>2, <2>4, <1>4, RunsCongruent
<1>10. SameMask \in Nat /\ MaxMatch \in Nat /\ MaxMatch <= SameMask + 3 /\ MaxMatch > 3
       /\ MaxMatch < SameMax /\ SameMax \in Nat
  BY SizesAssumption
<1>11. CASE s <= r
  BY <1>2, <1>4, <1>7, <1>8, <1>11
<1>12. CASE ~(s <= r)
  <2>1. s - r >= SameMask + 1
    BY <1>4, <1>9, <1>10, <1>12
  <2>2. s >= 2 /\ r <= 1
    BY <2>1, <1>1, <1>4, <1>10
  <2>3. \A l \in 0..2 : Byte(a, p + l) = Byte(a, p)
    <3>1. \A l \in 0..2 : l \in 0..s
      BY <2>2, <1>4
    <3> QED BY <3>1, <1>3 DEF IsRun
  <2>4. Byte(a, p - d + (r + 1)) = Byte(a, p - d)
    <3>1. r + 1 \in 0..2
      BY <2>2, <1>4
    <3>2. Byte(a, p + (r + 1)) = Byte(a, p - d + (r + 1)) /\ Byte(a, p + (r + 1)) = Byte(a, p)
      BY <3>1, <2>3, <1>5
    <3> QED BY <3>2, <1>6
  <2>5. r < SameMax /\ p - d + r + 1 < size /\ p - d + (r + 1) = p - d + r + 1
    BY <2>2, <1>1, <1>4, <1>10
  <2>6. Byte(a, p - d + r + 1) # Byte(a, p - d)
    BY <2>5, <1>3 DEF IsRun
  <2> QED BY <2>4, <2>5, <2>6
<1> QED BY <1>11, <1>12

-----------------------------------------------------------------------------
(* What a walk behind d has made of it: the lengths found cover the bytes  *)
(* that agree there, each with a distance that is no longer.               *)
Covered(a, size, p, limit, d, w) ==
    \A k \in 3..Found(a, size, p, limit, d) : k <= w.length /\ w.sublen[k] <= d

Complete(a, first, size, p, limit, w) ==
    /\ \A d \in Dists(first, p) : d < w.dist \/ Over(w) => Covered(a, size, p, limit, d, w)
    /\ w.second /\ w.length < limit => RunOf(a, p, size) < w.length

(* The first chain leaves out no position with three bytes of p.           *)
LEMMA NotOnFirst ==
    ASSUME NEW g, NEW a, NEW first, NEW size, NEW p, NEW limit,
           Searching(g, a, first, size, p, limit), NEW d \in Dists(first, p),
           Keys(a, first, size)[p - d] # Keys(a, first, size)[p]
    PROVE  Found(a, size, p, limit, d) < 3
<1>1. ~(Common(a, p, d, size) >= 3)
  BY SameKey
<1>2. /\ Found(a, size, p, limit, d) \in 0..limit /\ Common(a, p, d, size) \in 0..(size - p)
      /\ Found(a, size, p, limit, d) <= Common(a, p, d, size)
  BY FoundRange
<1>3. size \in Nat /\ p \in Nat /\ limit \in Nat
  BY DEF Searching, IsWindow
<1> QED BY <1>1, <1>2, <1>3

(* The second one leaves out no position with more than the run and the    *)
(* byte behind it.                                                         *)
LEMMA NotOnSecond ==
    ASSUME NEW g, NEW a, NEW first, NEW size, NEW p, NEW limit,
           Searching(g, a, first, size, p, limit), NEW d \in Dists(first, p),
           Keys2(a, first, size)[p - d] # Keys2(a, first, size)[p],
           NEW m \in Nat, RunOf(a, p, size) < m, m < limit
    PROVE  Found(a, size, p, limit, d) <= m \/ Found(a, size, p, limit, d) < 3
<1>1. PICK s, f, c : s = RunOf(a, p, size) /\ f = Found(a, size, p, limit, d) /\ c = Common(a, p, d, size)
  OBVIOUS
<1>2. /\ first \in Nat /\ size \in Nat /\ p \in Nat /\ p < size /\ limit \in Nat /\ limit <= MaxMatch
      /\ p \in first..p /\ p - d \in first..p
  BY Sizes DEF Searching, IsWindow, Dists
<1>3. f \in 0..limit /\ c \in 0..(size - p) /\ f <= c
  BY <1>1, FoundRange
<1>4. s \in Nat
  BY <1>1, <1>2, RunOfIs DEF IsRun
<1>5. ASSUME f >= 3, f > m PROVE FALSE
  <2>1. c >= s + 2 /\ c >= 3 /\ s < SameMax
    BY <1>1, <1>2, <1>3, <1>4, <1>5, SizesAssumption
  <2>2. RunOf(a, p - d, size) = s
    BY <2>1, <1>1, RunsAgree
  <2>3. Keys(a, first, size)[p - d] = Keys(a, first, size)[p]
    BY <2>1, <1>1, SameKey
  <2>4. HashOf(a, p - d) = HashOf(a, p)
    BY <2>3, <1>2, KeysAreHashes
  <2>5. /\ Keys2(a, first, size)[p] = SecondOf(a, p, size)
        /\ Keys2(a, first, size)[p - d] = SecondOf(a, p - d, size)
    BY <1>2, KeysAreHashes
  <2> QED BY <2>2, <2>4, <2>5, <1>1 DEF SecondOf
<1> QED BY <1>1, <1>2, <1>3, <1>5

LEMMA FirstComplete ==
    ASSUME NEW g, NEW a, NEW first, NEW size, NEW p, NEW limit,
           Searching(g, a, first, size, p, limit)
    PROVE  Complete(a, first, size, p, limit, First(g))
<1>1. PICK w : w = First(g)
  OBVIOUS
<1>2. first \in Nat /\ p \in Nat /\ WindowSize \in Nat
  BY Sizes DEF Searching, IsWindow
<1>3. w.second = FALSE /\ w.over = FALSE /\ w \in Walks
  BY <1>1, FirstWalks DEF First, Walking
<1>4. Moved(Keys(a, first, size), first, p, p, w, FALSE)
  BY <1>1, FirstWalks
<1>5. w.dist \in Nat
  BY <1>3 DEF Walks
<1>6. ASSUME NEW d \in Dists(first, p), d < w.dist \/ Over(w)
      PROVE  Covered(a, size, p, limit, d, w)
  <2>1. d \in Nat /\ d >= 1 /\ d < WindowSize /\ d <= p - first
    BY <1>2 DEF Dists
  <2>2. d < w.dist
    BY <2>1, <1>2, <1>3, <1>5, <1>6 DEF Over
  <2>3. p - d \in first..(p - 1)
    BY <2>1, <1>2
  <2>4. Keys(a, first, size)[p - d] # Keys(a, first, size)[p]
    <3>1. CASE Alone(Keys(a, first, size), first, p)
      <4>1. p - (p - d) < WindowSize
        BY <2>1, <1>2
      <4> QED BY <4>1, <3>1, <2>3 DEF Alone
    <3>2. CASE Follows(Keys(a, first, size), first, p, p - w.dist)
      <4>1. p - d \in (p - w.dist + 1)..(p - 1)
        BY <2>1, <2>2, <1>2, <1>5
      <4> QED BY <4>1, <3>2 DEF Follows
    <3> QED BY <3>1, <3>2, <1>4 DEF Moved
  <2>5. Found(a, size, p, limit, d) < 3
    BY <2>4, NotOnFirst
  <2>6. Found(a, size, p, limit, d) \in 0..limit
    BY FoundRange
  <2>7. limit \in Nat
    BY DEF Searching, IsWindow
  <2>8. 3..Found(a, size, p, limit, d) = {}
    BY <2>5, <2>6, <2>7
  <2> QED BY <2>8 DEF Covered
<1> QED BY <1>1, <1>3, <1>6 DEF Complete

LEMMA CompleteOn ==
    ASSUME NEW g, NEW a, NEW first, NEW size, NEW p, NEW limit,
           Searching(g, a, first, size, p, limit), Distinct(a), NEW w,
           Walking(a, first, size, p, limit, w), ~Over(w),
           Complete(a, first, size, p, limit, w), NEW n,
           Visited(a, first, size, p, limit, w, n)
    PROVE  Complete(a, first, size, p, limit, n)
<1>1. /\ first \in Nat /\ size \in Nat /\ p \in Nat /\ p < size /\ limit \in Nat /\ limit >= 3
      /\ limit <= MaxMatch /\ MaxMatch \in Nat /\ WindowSize \in Nat
  BY SizesAssumption, Sizes DEF Searching, IsWindow
<1>2. w \in Walks /\ AtPlace(a, first, size, p, w) /\ w.length \in 1..limit /\ w.length < limit
  BY DEF Walking
<1>3. PICK e, c, m, s : /\ e = w.dist /\ c = Found(a, size, p, limit, e)
                        /\ m = n.length /\ s = RunOf(a, p, size)
  OBVIOUS
<1>4. c \in 0..limit /\ c \in Nat
  <2>1. c \in 0..limit
    BY <1>3, FoundRange
  <2> QED BY <2>1, <1>1
<1>5. e \in Dists(first, p) /\ e \in Nat /\ e > 0 /\ w.length \in Nat
  BY <1>2, <1>3 DEF AtPlace, Dists, Walks
<1>6. /\ n \in Walks /\ n.dist > e /\ m = Larger(w.length, c)
      /\ \A k \in 1..MaxMatch : n.sublen[k] = IF w.length < k /\ k <= c THEN e ELSE w.sublen[k]
  BY <1>3 DEF Visited
<1>7. m \in 1..limit /\ m \in Nat /\ w.length <= m /\ c <= m /\ (m = w.length \/ m = c)
      /\ n.dist \in Nat
  BY <1>1, <1>2, <1>4, <1>5, <1>6 DEF Larger, Walks
<1>8. s \in Nat
  BY <1>1, <1>3, RunOfIs DEF IsRun
<1>9. ASSUME n.second, m < limit PROVE s < m
  <2>1. CASE w.second
    <3>1. s < w.length
      BY <2>1, <1>2, <1>3 DEF Complete
    <3> QED BY <3>1, <1>5, <1>7, <1>8
  <2>2. CASE ~w.second
    <3>1. /\ m >= s /\ Keys2(a, first, size)[p - e] = Keys2(a, first, size)[p]
      BY <2>2, <1>3, <1>9 DEF Visited
    <3>2. Keys(a, first, size)[p - e] = Keys(a, first, size)[p]
      BY <2>2, <1>2, <1>3 DEF AtPlace, Chain
    <3>3. RunOf(a, p, size) <= m /\ Found(a, size, p, limit, e) <= m
      BY <3>1, <1>3, <1>7, <1>8
    <3>4. RunOf(a, p, size) < m
      BY <3>1, <3>2, <3>3, <1>5, <1>7, <1>9, SwitchCovers
    <3> QED BY <3>4, <1>3
  <2> QED BY <2>1, <2>2
<1>10. ASSUME NEW k \in 3..m PROVE n.sublen[k] <= e /\ k \in Nat /\ k \in 1..MaxMatch
  <2>1. k \in Nat /\ k \in 1..MaxMatch
    BY <1>1, <1>7
  <2>2. CASE w.length < k
    <3>1. k <= c
      BY <2>1, <2>2, <1>4, <1>5, <1>7
    <3> QED BY <2>1, <2>2, <3>1, <1>5, <1>6
  <2>3. CASE ~(w.length < k)
    <3>1. k \in 2..w.length /\ n.sublen[k] = w.sublen[k]
      BY <2>1, <2>3, <1>5, <1>6
    <3>2. w.sublen[k] < e /\ w.sublen[k] \in Nat
      BY <3>1, <1>3 DEF Walking, Real, Dists
    <3> QED BY <2>1, <3>1, <3>2, <1>5
  <2> QED BY <2>2, <2>3
<1>11. PICK V : V = Chain(a, first, size, n.second)
  OBVIOUS
<1>12. V[p - e] = V[p]
  <2>1. CASE w.second
    <3>1. n.second
      BY <2>1 DEF Visited
    <3> QED BY <2>1, <3>1, <1>2, <1>3, <1>11 DEF AtPlace, Chain
  <2>2. CASE n.second /\ ~w.second
    <3>1. Keys2(a, first, size)[p - e] = Keys2(a, first, size)[p]
      BY <2>2, <1>3 DEF Visited
    <3> QED BY <2>2, <3>1, <1>11 DEF Chain
  <2>3. CASE ~n.second /\ ~w.second
    BY <2>3, <1>2, <1>3, <1>11 DEF AtPlace, Chain
  <2> QED BY <2>1, <2>2, <2>3
<1>13. ASSUME NEW d \in Dists(first, p), e < d, d < n.dist \/ Over(n), m < limit
       PROVE  V[p - d] # V[p]
  <2>1. d \in Nat /\ d < WindowSize /\ d <= p - first
    BY <1>1, <1>13 DEF Dists
  <2>2. p - d \in first..(p - e - 1)
    BY <2>1, <1>1, <1>5, <1>13
  <2>3. Moved(V, first, p - e, p, n, c > w.length /\ c >= limit)
    BY <1>3, <1>11 DEF Visited
  <2>4. CASE Alone(V, first, p - e)
    <3>1. (p - e) - (p - d) < WindowSize
      BY <2>1, <1>1, <1>5
    <3> QED BY <3>1, <2>2, <2>4, <1>12 DEF Alone
  <2>5. CASE n.over = (c > w.length /\ c >= limit) /\ Follows(V, first, p - e, p - n.dist)
    <3>4. ~(c >= limit)
      BY <1>1, <1>4, <1>7, <1>13
    <3>1. ~n.over
      BY <2>5, <3>4
    <3>2. d < n.dist
      BY <3>1, <2>1, <1>1, <1>7, <1>13 DEF Over
    <3>3. p - d \in (p - n.dist + 1)..(p - e - 1)
      BY <3>2, <2>1, <2>2, <1>1, <1>5, <1>7
    <3> QED BY <3>3, <2>5, <1>12 DEF Follows
  <2> QED BY <2>3, <2>4, <2>5 DEF Moved
<1>14. ASSUME NEW d \in Dists(first, p), d < n.dist \/ Over(n),
              NEW k \in 3..Found(a, size, p, limit, d)
       PROVE  k <= m /\ n.sublen[k] <= d
  <2>1. d \in Nat /\ k \in Nat /\ k >= 3 /\ k <= Found(a, size, p, limit, d)
        /\ Found(a, size, p, limit, d) \in 0..limit /\ k <= limit
    <3>1. Found(a, size, p, limit, d) \in 0..limit
      BY FoundRange
    <3> QED BY <3>1, <1>1 DEF Dists
  <2>2. CASE d < e
    <3>1. k <= w.length /\ w.sublen[k] <= d
      BY <2>2, <1>3 DEF Complete, Covered
    <3>2. k \in 1..MaxMatch /\ ~(w.length < k)
      BY <3>1, <2>1, <1>1, <1>5
    <3> QED BY <3>1, <3>2, <2>1, <1>5, <1>6, <1>7
  <2>3. CASE d = e
    <3>1. k \in 3..m
      BY <2>1, <2>3, <1>3, <1>4, <1>7
    <3> QED BY <3>1, <2>1, <2>3, <1>10
  <2>4. CASE e < d
    <3>1. k <= m
      <4> SUFFICES ASSUME m < k PROVE FALSE
        BY <2>1, <1>7
      <4>1. m < limit
        BY <2>1, <1>1, <1>7
      <4>2. V[p - d] # V[p]
        BY <4>1, <2>4, <1>13, <1>14
      <4>3. CASE n.second
        <5>1. Keys2(a, first, size)[p - d] # Keys2(a, first, size)[p]
          BY <4>2, <4>3, <1>11 DEF Chain
        <5>2. RunOf(a, p, size) < m
          BY <4>1, <4>3, <1>3, <1>9
        <5>3. Found(a, size, p, limit, d) <= m \/ Found(a, size, p, limit, d) < 3
          BY <5>1, <5>2, <4>1, <1>7, NotOnSecond
        <5> QED BY <5>3, <2>1, <1>1, <1>7
      <4>4. CASE ~n.second
        <5>1. Keys(a, first, size)[p - d] # Keys(a, first, size)[p]
          BY <4>2, <4>4, <1>11 DEF Chain
        <5>2. Found(a, size, p, limit, d) < 3
          BY <5>1, NotOnFirst
        <5> QED BY <5>2, <2>1, <1>1
      <4> QED BY <4>3, <4>4
    <3>2. k \in 3..m
      BY <3>1, <2>1, <1>7
    <3>3. n.sublen[k] <= e /\ k \in 1..MaxMatch
      BY <3>2, <1>10
    <3>4. n.sublen[k] \in Nat
      BY <3>3, <1>6 DEF Walks
    <3> QED BY <3>1, <3>3, <3>4, <2>1, <2>4, <1>5
  <2> QED BY <2>1, <2>2, <2>3, <2>4, <1>5
<1>15. \A d \in Dists(first, p) : d < n.dist \/ Over(n) => Covered(a, size, p, limit, d, n)
  BY <1>3, <1>14 DEF Covered
<1> QED BY <1>3, <1>9, <1>15 DEF Complete

(* With as many turns as the window has positions the walk is over.        *)
Exhausted(a, first, size, p, limit, w) ==
    /\ Walking(a, first, size, p, limit, w)
    /\ \A d \in Dists(first, p) : Covered(a, size, p, limit, d, w)

LEMMA WalkEnds ==
    ASSUME NEW g, NEW a, NEW first, NEW size, NEW p, NEW limit, NEW hits \in Nat,
           Searching(g, a, first, size, p, limit), Distinct(a), hits >= WindowSize
    PROVE  Exhausted(a, first, size, p, limit, Walk(g, a, p, limit, hits))
<1>1. PICK u : IsWalk(g, a, p, limit, hits, u)
               /\ \A n \in 0..hits : Walking(a, first, size, p, limit, u[n])
  BY Searched1
<1> DEFINE Ahead(n, w) == Complete(a, first, size, p, limit, w) /\ (Over(w) \/ w.dist >= n)
           S == {n \in 0..hits : Ahead(n, u[n])}
<1>2. 0 \in S
  <2>1. u[0] = First(g) /\ 0 \in 0..hits
    BY <1>1 DEF IsWalk
  <2>2. Complete(a, first, size, p, limit, First(g)) /\ First(g) \in Walks
    BY FirstComplete, FirstWalks DEF Walking
  <2>3. First(g).dist >= 0
    BY <2>2 DEF Walks
  <2> QED BY <2>1, <2>2, <2>3
<1>3. ASSUME NEW k \in 0..(hits - 1), k \in S PROVE k + 1 \in S
  <2>1. PICK m, v, w : m = k + 1 /\ v = u[k] /\ w = u[m]
    OBVIOUS
  <2>2. m \in 1..hits /\ m - 1 = k /\ m \in 0..hits /\ k \in 0..hits
    BY <2>1
  <2>3. w = Turn(g, a, p, limit, v)
    <3>1. u[m] = Turn(g, a, p, limit, u[m - 1])
      BY <2>2, <1>1 DEF IsWalk
    <3> QED BY <3>1, <2>1, <2>2
  <2>4. Walking(a, first, size, p, limit, v) /\ Ahead(k, v)
    BY <2>1, <2>2, <1>1, <1>3
  <2>5. Ahead(m, w)
    <3>1. CASE Over(v)
      BY <3>1, <2>3, <2>4 DEF Turn
    <3>2. CASE ~Over(v)
      <4>1. v \in Walks /\ AtPlace(a, first, size, p, v) /\ v.length < limit
        BY <3>2, <2>4 DEF Walking
      <4>2. w = Visit(g, a, p, limit, v)
        BY <2>3, <3>2 DEF Turn
      <4>3. Visited(a, first, size, p, limit, v, w)
        BY <4>1, <4>2, VisitedIs
      <4>4. Complete(a, first, size, p, limit, w)
        BY <4>3, <3>2, <2>4, CompleteOn
      <4>5. w.dist > v.dist /\ w.dist \in Nat /\ v.dist \in Nat
        BY <4>1, <4>3 DEF Visited, Walks
      <4> QED BY <4>4, <4>5, <3>2, <2>1, <2>4
    <3> QED BY <3>1, <3>2
  <2> QED BY <2>1, <2>2, <2>5
<1>4. 0..hits \subseteq S
  <2> HIDE DEF S
  <2> QED BY <1>2, <1>3, SetInductionUpTo
<1>5. hits \in 0..hits
  OBVIOUS
<1>6. Ahead(hits, u[hits]) /\ Walking(a, first, size, p, limit, u[hits])
  BY <1>1, <1>4, <1>5
<1>7. Over(u[hits])
  <2>1. u[hits].dist \in Nat /\ WindowSize \in Nat
    BY <1>6, Sizes DEF Walking, Walks
  <2> QED BY <2>1, <1>6 DEF Over
<1> QED BY <1>1, <1>6, <1>7 DEF IsWalk, Complete, Exhausted

-----------------------------------------------------------------------------
(* The specification.  After the hash stands for the positions from the    *)
(* start of the window on, and what was found last is what a search with   *)
(* this hash finds.                                                        *)
From == WindowStart(Instart)

TypeOK ==
    /\ in \in Inputs /\ maxChainHits \in ChainHits /\ parse \in 1..3
    /\ pos \in From..Inend

Answered ==
    \/ found = NotFound
    \/ /\ Asked \in Instart..(Inend - 1) /\ found.limit \in 3..MaxMatch
       /\ found.match = FindLongestMatch(h, in.array, Asked, Inend, found.limit, maxChainHits)

Invariant ==
    /\ TypeOK
    /\ Holds(h, in.array, From, Inend, pos)
    /\ Answered

LEMMA Blocks ==
    ASSUME NEW i \in Inputs, NEW n \in 1..3
    PROVE  /\ IsWindow(i.array, WindowStart(Start(i, n)), End(i, n))
           /\ Start(i, n) \in Nat /\ End(i, n) \in Nat /\ Start(i, n) < End(i, n)
           /\ WindowStart(Start(i, n)) \in Nat /\ WindowStart(Start(i, n)) <= Start(i, n)
<1>1. i.array \in Seq(Values) /\ i.cut \in 1..(Len(i.array) - 1)
  BY SizesAssumption
<1>2. Len(i.array) \in Nat
  BY <1>1
<1>3. Start(i, n) \in Nat /\ End(i, n) \in Nat /\ Start(i, n) < End(i, n) /\ End(i, n) <= Len(i.array)
  BY <1>1, <1>2 DEF Start, End
<1>4. WindowStart(Start(i, n)) \in Nat /\ WindowStart(Start(i, n)) <= Start(i, n)
  BY <1>3, Sizes DEF WindowStart, Larger
<1> QED BY <1>1, <1>3, <1>4 DEF IsWindow

LEMMA NewMemory == Allocated \in Hashes
<1>1. 0 \in Values /\ 0 \in Slots
  BY SizesAssumption, Sizes DEF Values, Slots
<1> QED BY <1>1 DEF Allocated, Hashes

LEMMA InvariantInit == Init => Invariant
<1> SUFFICES ASSUME Init PROVE Invariant
  OBVIOUS
<1>1. in \in Inputs /\ maxChainHits \in ChainHits /\ parse = 1 /\ pos = 0 /\ found = NotFound
      /\ h = Prepared(Allocated, in, 1) /\ 1 \in 1..3
  BY DEF Init
<1>2. /\ IsWindow(in.array, WindowStart(Start(in, 1)), End(in, 1)) /\ End(in, 1) \in Nat
  BY <1>1, Blocks
<1>3. WindowStart(Start(in, 1)) = 0
  BY Sizes DEF Start, WindowStart, Larger
<1>4. From = WindowStart(Start(in, 1)) /\ Inend = End(in, 1)
  BY <1>1 DEF From, Instart, Inend
<1>5. Holds(h, in.array, From, Inend, From)
  BY <1>1, <1>2, <1>4, NewMemory, PreparedHolds DEF Prepared
<1>6. pos = From /\ pos \in From..Inend
  BY <1>1, <1>2, <1>3, <1>4
<1> QED BY <1>1, <1>5, <1>6 DEF Invariant, TypeOK, Answered

(* A position enters, whoever reads its bytes.                             *)
LEMMA PositionEnters ==
    ASSUME Invariant, pos < Inend, UNCHANGED <<in, maxChainHits, parse>>, pos' = pos + 1,
           h' = Update(h, in.array, pos, Inend)
    PROVE  /\ TypeOK' /\ Holds(h', in.array, From, Inend, pos + 1)
           /\ From' = From /\ Inend' = Inend /\ Instart' = Instart
<1>1. TypeOK /\ Holds(h, in.array, From, Inend, pos)
  BY DEF Invariant
<1>2. /\ IsWindow(in.array, From, Inend) /\ From \in Nat /\ Inend \in Nat
  BY <1>1, Blocks DEF TypeOK, From, Instart, Inend
<1>3. pos \in From..(Inend - 1) /\ pos + 1 \in From..Inend
  BY <1>1, <1>2 DEF TypeOK
<1>4. Holds(Update(h, in.array, pos, Inend), in.array, From, Inend, pos + 1)
  BY <1>1, <1>2, <1>3, UpdateHolds
<1>5. From' = From /\ Inend' = Inend /\ Instart' = Instart
  BY DEF From, Inend, Instart
<1> QED BY <1>1, <1>3, <1>4, <1>5 DEF TypeOK

LEMMA InvariantNext == Invariant /\ [Next]_vars => Invariant'
<1> SUFFICES ASSUME Invariant, [Next]_vars PROVE Invariant'
  OBVIOUS
<1>1. /\ IsWindow(in.array, From, Inend) /\ Instart \in Nat /\ Inend \in Nat /\ Instart < Inend
      /\ From \in Nat /\ From <= Instart /\ pos \in From..Inend /\ pos \in Nat
  <2>1. in \in Inputs /\ parse \in 1..3 /\ pos \in From..Inend
    BY DEF Invariant, TypeOK
  <2>2. /\ IsWindow(in.array, From, Inend) /\ Instart \in Nat /\ Inend \in Nat /\ Instart < Inend
        /\ From \in Nat /\ From <= Instart
    BY <2>1, Blocks DEF From, Instart, Inend
  <2> QED BY <2>1, <2>2
<1>2. CASE Enter
  <2>1. /\ pos < Inend /\ UNCHANGED <<in, maxChainHits, parse>> /\ pos' = pos + 1
        /\ h' = Update(h, in.array, pos, Inend) /\ found' = found /\ pos < Instart
    BY <1>1, <1>2 DEF Enter
  <2>2. /\ TypeOK' /\ Holds(h', in.array, From, Inend, pos + 1) /\ From' = From /\ Inend' = Inend
    BY <2>1, PositionEnters
  <2>3. found = NotFound
    <3>1. ~(Asked \in Instart..(Inend - 1))
      BY <2>1, <1>1 DEF Asked
    <3> QED BY <3>1 DEF Invariant, Answered
  <2>4. found' = NotFound'
    BY <2>1, <2>3 DEF NotFound, NoMatch
  <2>5. Holds(h, in.array, From, Inend, pos)'
    BY <2>1, <2>2
  <2> QED BY <2>2, <2>4, <2>5 DEF Invariant, Answered
<1>3. ASSUME NEW limit \in MinMatch..MaxMatch, Step(limit) PROVE Invariant'
  <2>1. /\ pos < Inend /\ UNCHANGED <<in, maxChainHits, parse>> /\ pos' = pos + 1
        /\ h' = Update(h, in.array, pos, Inend) /\ pos \in Instart..(Inend - 1)
        /\ found' = [limit |-> limit,
                     match |-> FindLongestMatch(h', in.array, pos, Inend, limit, maxChainHits)]
    BY <1>1, <1>3 DEF Step
  <2>2. /\ TypeOK' /\ Holds(h', in.array, From, Inend, pos + 1)
        /\ From' = From /\ Inend' = Inend /\ Instart' = Instart
    BY <2>1, PositionEnters
  <2>3. Asked' = pos /\ limit \in 3..MaxMatch
    BY <2>1, <1>1, SizesAssumption DEF Asked
  <2>4. found'.limit = limit
        /\ found'.match = FindLongestMatch(h', in.array, pos, Inend, limit, maxChainHits)
    BY <2>1
  <2>5. Answered'
    BY <2>1, <2>2, <2>3, <2>4 DEF Answered
  <2>6. Holds(h, in.array, From, Inend, pos)'
    BY <2>1, <2>2
  <2> QED BY <2>2, <2>5, <2>6 DEF Invariant
<1>4. CASE NextParse
  <2>1. PICK n : n = parse + 1
    OBVIOUS
  <2>2. /\ n \in 1..3 /\ parse' = n /\ in' = in /\ maxChainHits' = maxChainHits
        /\ h' = Prepared(h, in, n) /\ pos' = WindowStart(Start(in, n)) /\ found' = NotFound
    BY <1>4, <2>1 DEF NextParse, Invariant, TypeOK
  <2>3. in \in Inputs /\ h \in Hashes
    BY DEF Invariant, TypeOK, Holds
  <2>4. PICK first, size : first = WindowStart(Start(in, n)) /\ size = End(in, n)
    OBVIOUS
  <2>5. IsWindow(in.array, first, size) /\ first \in Nat /\ size \in Nat /\ first <= size
    <3>1. /\ IsWindow(in.array, WindowStart(Start(in, n)), End(in, n))
          /\ WindowStart(Start(in, n)) \in Nat
      BY <2>2, <2>3, Blocks
    <3> QED BY <3>1, <2>4 DEF IsWindow
  <2>6. From' = first /\ Inend' = size
    BY <2>2, <2>4 DEF From, Instart, Inend
  <2>7. Holds(Warmup(Reset(h), in.array, first, size), in.array, first, size, first)
    BY <2>3, <2>5, PreparedHolds
  <2>8. h' = Warmup(Reset(h), in.array, first, size) /\ pos' = first
    BY <2>2, <2>4 DEF Prepared
  <2>9. Holds(h, in.array, From, Inend, pos)'
    BY <2>2, <2>6, <2>7, <2>8
  <2>10. found' = NotFound'
    BY <2>2 DEF NotFound, NoMatch
  <2>11. TypeOK'
    BY <2>2, <2>3, <2>5, <2>6, <2>8 DEF TypeOK, Invariant
  <2> QED BY <2>9, <2>10, <2>11 DEF Invariant, Answered
<1>5. CASE UNCHANGED vars
  BY <1>5 DEF vars, Invariant, TypeOK, Answered, From, Instart, Inend, Asked, NotFound, NoMatch
<1> QED BY <1>2, <1>3, <1>4, <1>5 DEF Next, Done

(* The hash stands for its window after every step, for any input.         *)
THEOREM ChainsAreKept == Spec => []Invariant
<1> QED BY InvariantInit, InvariantNext, PTL DEF Spec

-----------------------------------------------------------------------------
(* The last search: none, one near the end of the block, or a walk.        *)
Idle == found.match = NoMatch /\ found.limit \in Nat

Turns(limit) == Walk(h, in.array, Asked, limit, maxChainHits)

Returned(w) == [length |-> w.length, dist |-> w.best, sublen |-> w.sublen, probes |-> w.probes]

Limit(asked) == Smaller(asked, Inend - Asked)

Active ==
    /\ Searching(h, in.array, From, Inend, Asked, Limit(found.limit))
    /\ Searching(h, in.array, From, Inend, Asked, Limit(MaxMatch))
    /\ found.limit \in 3..MaxMatch
    /\ found.match = Returned(Turns(Limit(found.limit)))
    /\ FindLongestMatch(h, in.array, Asked, Inend, MaxMatch, maxChainHits)
         = Returned(Turns(Limit(MaxMatch)))

LEMMA IdleOrActive == Invariant => Idle \/ Active
<1> SUFFICES ASSUME Invariant PROVE Idle \/ Active
  OBVIOUS
<1>1. in \in Inputs /\ parse \in 1..3 /\ Holds(h, in.array, From, Inend, pos) /\ pos \in From..Inend
  BY DEF Invariant, TypeOK
<1>2. /\ IsWindow(in.array, From, Inend) /\ From \in Nat /\ Inend \in Nat /\ Instart \in Nat
      /\ From <= Instart
  BY <1>1, Blocks DEF From, Instart, Inend
<1>3. MaxMatch \in Nat /\ MaxMatch > 3 /\ MinMatch = 3
  BY SizesAssumption
<1>4. CASE found = NotFound
  BY <1>3, <1>4 DEF NotFound, Idle
<1>5. CASE /\ Asked \in Instart..(Inend - 1) /\ found.limit \in 3..MaxMatch
           /\ found.match = FindLongestMatch(h, in.array, Asked, Inend, found.limit, maxChainHits)
  <2>1. PICK p, limit, full : p = Asked /\ limit = Limit(found.limit) /\ full = Limit(MaxMatch)
    OBVIOUS
  <2>2. p \in Nat /\ p + 1 = pos /\ From <= p /\ found.limit \in Nat
    BY <2>1, <1>1, <1>2, <1>5 DEF Asked
  <2>3. CASE Inend - p < 3
    <3>1. found.match = NoMatch
      BY <2>1, <2>3, <1>3, <1>5 DEF FindLongestMatch
    <3> QED BY <3>1, <2>2 DEF Idle
  <2>4. CASE ~(Inend - p < 3)
    <3>1. p \in From..(Inend - 3) /\ limit \in 3..(Inend - p) /\ full \in 3..(Inend - p)
          /\ limit <= MaxMatch /\ full <= MaxMatch
      BY <2>1, <2>2, <2>4, <1>2, <1>3, <1>5 DEF Limit, Smaller
    <3>2. Holds(h, in.array, From, Inend, p + 1)
      BY <2>2, <1>1
    <3>3. /\ Searching(h, in.array, From, Inend, p, limit)
          /\ Searching(h, in.array, From, Inend, p, full)
      BY <3>1, <3>2, <1>2 DEF Searching
    <3>4. found.match = Returned(Turns(limit))
      BY <2>1, <2>4, <1>3, <1>5 DEF FindLongestMatch, Returned, Turns, Limit
    <3>5. FindLongestMatch(h, in.array, Asked, Inend, MaxMatch, maxChainHits) = Returned(Turns(full))
      BY <2>1, <2>4, <1>3 DEF FindLongestMatch, Returned, Turns, Limit
    <3> QED BY <3>3, <3>4, <3>5, <2>1, <1>5 DEF Active
  <2> QED BY <2>3, <2>4
<1> QED BY <1>4, <1>5 DEF Invariant, Answered

LEMMA NothingFound ==
    ASSUME Idle
    PROVE  /\ found.match.length = 0 /\ found.match.dist = 0 /\ found.match.probes = {}
           /\ ~Searched
BY DEF Idle, NoMatch, Searched

(* A walk, and what is known of it.                                        *)
LEMMA WalkFound ==
    ASSUME Invariant, Active
    PROVE  \E w : /\ found.match = Returned(w) /\ w = Turns(Limit(found.limit))
                  /\ Walking(in.array, From, Inend, Asked, Limit(found.limit), w)
<1>1. PICK p, limit, hits : p = Asked /\ limit = Limit(found.limit) /\ hits = maxChainHits
  OBVIOUS
<1>2. hits \in Nat
  BY <1>1, SizesAssumption DEF Invariant, TypeOK
<1>3. Searching(h, in.array, From, Inend, p, limit)
  BY <1>1 DEF Active
<1>4. PICK u : /\ IsWalk(h, in.array, p, limit, hits, u)
               /\ \A n \in 0..hits : Walking(in.array, From, Inend, p, limit, u[n])
  BY <1>2, <1>3, Searched1
<1>5. hits \in 0..hits
  BY <1>2
<1>6. Turns(limit) = u[hits] /\ Walking(in.array, From, Inend, p, limit, u[hits])
  BY <1>1, <1>4, <1>5 DEF Turns, IsWalk
<1> QED BY <1>1, <1>6 DEF Active

LEMMA ReachIs ==
    ASSUME Active
    PROVE  Reach(Asked) = Dists(From, Asked) /\ Asked \in Nat /\ From \in Nat /\ From <= Asked
           /\ Inend \in Nat /\ Asked + 3 <= Inend /\ Limit(found.limit) \in Nat
<1>1. /\ Asked \in Nat /\ From \in Nat /\ From <= Asked /\ Inend \in Nat /\ Asked + 3 <= Inend
      /\ Limit(found.limit) \in Nat
  BY DEF Active, Searching, IsWindow
<1>2. Reach(Asked) = 1..Smaller(WindowSize - 1, Asked - From)
  BY DEF Reach, From
<1>3. 1..Smaller(WindowSize - 1, Asked - From) = {d \in 1..(WindowSize - 1) : d <= Asked - From}
  <2>1. PICK x, y : x = WindowSize - 1 /\ y = Asked - From
    OBVIOUS
  <2>2. x \in Int /\ y \in Int
    BY <2>1, <1>1, Sizes
  <2>3. 1..Smaller(x, y) = {d \in 1..x : d <= y}
    BY <2>2 DEF Smaller
  <2> QED BY <2>1, <2>3
<1> QED BY <1>1, <1>2, <1>3 DEF Dists

LEMMA ProbesFromInvariant == Invariant => ProbesAreAlike
<1> SUFFICES ASSUME Invariant PROVE ProbesAreAlike
  OBVIOUS
<1>1. CASE Idle
  BY <1>1, NothingFound DEF ProbesAreAlike
<1>2. CASE Active
  <2>1. PICK w : /\ found.match = Returned(w)
                 /\ Walking(in.array, From, Inend, Asked, Limit(found.limit), w)
    BY <1>2, WalkFound
  <2>2. PICK p, limit : p = Asked /\ limit = Limit(found.limit)
    OBVIOUS
  <2>3. Searching(h, in.array, From, Inend, p, limit)
    BY <2>2, <1>2 DEF Active
  <2>4. Reach(p) = Dists(From, p) /\ p \in Nat /\ From \in Nat /\ From <= p
    BY <2>2, <1>2, ReachIs
  <2>5. ASSUME NEW d \in w.probes
        PROVE  /\ d \in Reach(p)
               /\ \/ HashOf(in.array, p - d) = HashOf(in.array, p)
                  \/ SecondOf(in.array, p - d, Inend) = SecondOf(in.array, p, Inend)
    <3>1. /\ d \in Dists(From, p)
          /\ \/ Keys(in.array, From, Inend)[p - d] = Keys(in.array, From, Inend)[p]
             \/ Keys2(in.array, From, Inend)[p - d] = Keys2(in.array, From, Inend)[p]
      BY <2>1, <2>2 DEF Walking, Alike
    <3>2. p - d \in From..p /\ p \in From..p
      BY <3>1, <2>4, Sizes DEF Dists
    <3>3. /\ Keys(in.array, From, Inend)[p] = HashOf(in.array, p)
          /\ Keys2(in.array, From, Inend)[p] = SecondOf(in.array, p, Inend)
      BY <2>3, <3>2, KeysAreHashes
    <3>4. /\ Keys(in.array, From, Inend)[p - d] = HashOf(in.array, p - d)
          /\ Keys2(in.array, From, Inend)[p - d] = SecondOf(in.array, p - d, Inend)
      BY <2>3, <3>2, KeysAreHashes
    <3> QED BY <3>1, <3>3, <3>4, <2>4
  <2>6. found.match.probes = w.probes
    BY <2>1 DEF Returned
  <2> QED BY <2>2, <2>5, <2>6 DEF ProbesAreAlike
<1> QED BY <1>1, <1>2, IdleOrActive

LEMMA MatchesFromInvariant == Invariant => MatchesAreReal
<1> SUFFICES ASSUME Invariant PROVE MatchesAreReal
  OBVIOUS
<1>1. CASE Idle
  <2>1. found.limit \in Nat /\ found.match.length = 0 /\ found.match.dist = 0
    BY <1>1, NothingFound DEF Idle
  <2>2. 2..0 = {} /\ 0 <= found.limit
    BY <2>1
  <2> QED BY <2>1, <2>2 DEF MatchesAreReal
<1>2. CASE Active
  <2>1. PICK w : /\ found.match = Returned(w)
                 /\ Walking(in.array, From, Inend, Asked, Limit(found.limit), w)
    BY <1>2, WalkFound
  <2>2. /\ found.match.length = w.length /\ found.match.dist = w.best
        /\ found.match.sublen = w.sublen
    BY <2>1 DEF Returned
  <2>3. Reach(Asked) = Dists(From, Asked) /\ Asked \in Nat /\ Inend \in Nat
    BY <1>2, ReachIs
  <2>4. w.length <= found.limit
    <3>1. w.length \in 1..Limit(found.limit) /\ found.limit \in Nat
      BY <2>1, <1>2, SizesAssumption DEF Walking, Active
    <3> QED BY <3>1, <2>3 DEF Limit, Smaller
  <2>5. w.best # 0 => w.sublen[w.length] = w.best
    BY <2>1 DEF Walking
  <2>6. \A k \in 2..w.length : /\ w.sublen[k] \in Dists(From, Asked)
                               /\ k <= Common(in.array, Asked, w.sublen[k], Inend)
    BY <2>1 DEF Walking, Real
  <2> QED BY <2>2, <2>3, <2>4, <2>5, <2>6 DEF MatchesAreReal
<1> QED BY <1>1, <1>2, IdleOrActive

LEMMA LimitedFromInvariant == Invariant => LimitedAgrees
<1> SUFFICES ASSUME Invariant, Searched PROVE LimitedAgrees
  BY DEF LimitedAgrees
<1>1. Active
  BY NothingFound, IdleOrActive
<1>2. PICK p, limit, full, hits : /\ p = Asked /\ limit = Limit(found.limit)
                                  /\ full = Limit(MaxMatch) /\ hits = maxChainHits
  OBVIOUS
<1>3. /\ p \in Nat /\ Inend \in Nat /\ found.limit \in 3..MaxMatch /\ MaxMatch \in Nat
      /\ hits \in Nat
  BY <1>1, <1>2, ReachIs, SizesAssumption DEF Active, Invariant, TypeOK
<1>4. limit <= full /\ limit \in Nat /\ full <= Inend - p /\ full \in Int
      /\ (found.limit <= Inend - p => limit = found.limit)
  BY <1>1, <1>2, <1>3, ReachIs DEF Limit, Smaller
<1>5. /\ Searching(h, in.array, From, Inend, p, limit)
      /\ Searching(h, in.array, From, Inend, p, full)
  BY <1>1, <1>2 DEF Active
<1>6. PICK v, w : v = Turns(limit) /\ w = Turns(full)
  OBVIOUS
<1>7. Together(limit, v, w)
  BY <1>2, <1>3, <1>4, <1>5, <1>6, LimitsAgree DEF Turns
<1>8. Walking(in.array, From, Inend, p, full, w)
  <2>1. PICK u : /\ IsWalk(h, in.array, p, full, hits, u)
                 /\ \A n \in 0..hits : Walking(in.array, From, Inend, p, full, u[n])
    BY <1>3, <1>5, Searched1
  <2>2. hits \in 0..hits
    BY <1>3
  <2>3. w = u[hits]
    BY <2>1, <1>2, <1>6 DEF Turns, IsWalk
  <2> QED BY <2>1, <2>2, <2>3
<1>9. /\ found.match.length = v.length /\ found.match.dist = v.best
      /\ FindLongestMatch(h, in.array, Asked, Inend, MaxMatch, maxChainHits) = Returned(w)
  BY <1>1, <1>2, <1>6 DEF Active, Returned
<1>10. ASSUME w.length >= found.limit
       PROVE  v.length = found.limit /\ v.best = w.sublen[found.limit]
  <2>1. w.length \in 1..full /\ w.length \in Nat
    BY <1>4, <1>8 DEF Walking
  <2>2. limit = found.limit
    BY <2>1, <1>3, <1>4, <1>10
  <2>3. ~(v = w /\ v.length < limit)
    BY <2>1, <2>2, <1>3, <1>10
  <2> QED BY <2>2, <2>3, <1>7 DEF Together
<1> QED BY <1>9, <1>10 DEF LimitedAgrees, Returned

LEMMA ApartIs ==
    ASSUME NEW i \in Inputs, Apart[i]
    PROVE  Distinct(i.array)
<1> DEFINE at == {Trigram(i.array, p) : p \in 0..(Len(i.array) - MinMatch)}
<1>1. \A s, t \in at : s # t => Hashed(s) # Hashed(t)
  BY DEF Apart
<1>2. MinMatch = 3
  BY SizesAssumption
<1>3. ASSUME NEW q \in 0..(Len(i.array) - 3), NEW r \in 0..(Len(i.array) - 3),
             Trigram(i.array, q) # Trigram(i.array, r)
      PROVE  HashOf(i.array, q) # HashOf(i.array, r)
  <2>1. Trigram(i.array, q) \in at /\ Trigram(i.array, r) \in at
    BY <1>2
  <2> HIDE DEF at
  <2> QED BY <2>1, <1>1, <1>3 DEF HashOf
<1> QED BY <1>3 DEF Distinct

LEMMA NearestFromInvariant == Invariant => FindsNearest
<1> SUFFICES ASSUME Invariant, Searched, maxChainHits >= WindowSize, Apart[in],
                    NEW k \in MinMatch..Smaller(found.limit, Inend - Asked)
             PROVE  LET ds == {d \in Reach(Asked) : Common(in.array, Asked, d, Inend) >= k}
                    IN  IF ds = {} THEN found.match.length < k
                        ELSE found.match.length >= k /\ found.match.sublen[k] = Min(ds)
  BY DEF FindsNearest
<1>1. Active
  BY NothingFound, IdleOrActive
<1>2. PICK p, limit, hits : p = Asked /\ limit = Limit(found.limit) /\ hits = maxChainHits
  OBVIOUS
<1>3. Distinct(in.array) /\ hits \in Nat /\ hits >= WindowSize
  BY <1>2, ApartIs, SizesAssumption DEF Invariant, TypeOK
<1>4. Searching(h, in.array, From, Inend, p, limit)
  BY <1>1, <1>2 DEF Active
<1>15. PICK w : w = Walk(h, in.array, p, limit, hits)
  OBVIOUS
<1>5. /\ Walking(in.array, From, Inend, p, limit, w)
      /\ \A d \in Dists(From, p) : Covered(in.array, Inend, p, limit, d, w)
  BY <1>3, <1>4, <1>15, WalkEnds DEF Exhausted
<1>6. found.match.length = w.length /\ found.match.sublen = w.sublen
  BY <1>1, <1>2, <1>15 DEF Active, Turns, Returned
<1>7. Reach(p) = Dists(From, p) /\ p \in Nat /\ Inend \in Nat /\ limit \in Nat
  BY <1>1, <1>2, ReachIs
<1>8. k \in 3..limit /\ k \in Nat /\ k >= 3 /\ k <= limit
  BY <1>2, <1>7, SizesAssumption DEF Limit
<1> DEFINE ds == {d \in Reach(p) : Common(in.array, p, d, Inend) >= k}
<1>9. ASSUME NEW d \in ds PROVE k <= w.length /\ w.sublen[k] <= d
  <2>1. d \in Dists(From, p) /\ Common(in.array, p, d, Inend) >= k
    BY <1>7
  <2>2. /\ Found(in.array, Inend, p, limit, d) \in 0..limit
        /\ Common(in.array, p, d, Inend) \in 0..(Inend - p)
        /\ Common(in.array, p, d, Inend) < limit
             => Found(in.array, Inend, p, limit, d) = Common(in.array, p, d, Inend)
        /\ Common(in.array, p, d, Inend) >= limit => Found(in.array, Inend, p, limit, d) = limit
    BY <1>4, FoundRange
  <2>3. k \in 3..Found(in.array, Inend, p, limit, d)
    BY <2>1, <2>2, <1>7, <1>8
  <2> QED BY <2>1, <2>3, <1>5 DEF Covered
<1>10. ASSUME k <= w.length PROVE w.sublen[k] \in ds
  <2>1. k \in 2..w.length
    BY <1>5, <1>8, <1>10 DEF Walking
  <2>2. w.sublen[k] \in Dists(From, p) /\ k <= Common(in.array, p, w.sublen[k], Inend)
    BY <2>1, <1>5 DEF Walking, Real
  <2>3. Common(in.array, p, w.sublen[k], Inend) \in 0..(Inend - p)
    BY <1>4, FoundRange
  <2> QED BY <2>2, <2>3, <1>7, <1>8
<1>11. ds \in SUBSET Nat
  BY <1>7 DEF Dists
<1>12. w.length \in Nat
  BY <1>5 DEF Walking, Walks
<1> HIDE DEF ds
<1>13. CASE ds = {}
  <2>1. w.length < k
    BY <1>8, <1>10, <1>12, <1>13
  <2> QED BY <2>1, <1>2, <1>6, <1>13 DEF ds
<1>14. CASE ds # {}
  <2>1. k <= w.length
    BY <1>9, <1>14
  <2>2. w.sublen[k] \in ds /\ Min(ds) \in ds /\ \A d \in ds : Min(ds) <= d
    BY <2>1, <1>10, <1>11, <1>14, LeastOf
  <2>3. w.sublen[k] <= Min(ds) /\ Min(ds) <= w.sublen[k]
    BY <2>2, <1>9
  <2>6. w.sublen[k] \in Nat /\ Min(ds) \in Nat
    BY <2>2, <1>11
  <2>4. w.sublen[k] = Min(ds)
    <3>1. PICK x, y : x = w.sublen[k] /\ y = Min(ds)
      OBVIOUS
    <3>2. x \in Nat /\ y \in Nat /\ x <= y /\ y <= x
      BY <3>1, <2>3, <2>6
    <3> QED BY <3>1, <3>2
  <2>5. w.length >= k
    BY <2>1, <1>8, <1>12
  <2> QED BY <2>4, <2>5, <1>2, <1>6, <1>14 DEF ds
<1> QED BY <1>13, <1>14

(* A search visits only positions of the window with a value in common,    *)
(* each at its distance (findLongestMatch).                                *)
THEOREM ProbesStayAlike == Spec => []ProbesAreAlike
<1> QED BY ChainsAreKept, ProbesFromInvariant, PTL

(* Every length it returns is there at the distance it names.              *)
THEOREM MatchesStayReal == Spec => []MatchesAreReal
<1> QED BY ChainsAreKept, MatchesFromInvariant, PTL

(* A search for fewer bytes finds what the full one has for them, which    *)
(* the second pass of the optimal parser relies on (followPath).           *)
THEOREM LimitedSearchAgrees == Spec => []LimitedAgrees
<1> QED BY ChainsAreKept, LimitedFromInvariant, PTL

(* With time enough and a hash that tells bytes apart it finds the longest *)
(* match, and for each length the nearest.                                 *)
THEOREM NearestIsFound == Spec => []FindsNearest
<1> QED BY ChainsAreKept, NearestFromInvariant, PTL

=============================================================================
