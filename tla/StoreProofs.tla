---------------------------- MODULE StoreProofs ----------------------------
(***************************************************************************)
(* Proofs about the token store and about the splitter that divides it.    *)
(*                                                                         *)
(* The store, for alphabets and chunks of any size and stores of any       *)
(* length: the histogram taken from the chunked counts is that of          *)
(* counting, and the bytes of a range are those of its tokens.  The two    *)
(* alphabets differ only in the symbol of a token, so the chunks are       *)
(* proved about once, over the sequence of symbols.                        *)
(*                                                                         *)
(* The splitter, for stores and costs of any size: its points stay in      *)
(* order and within the store, and no block that could be split is left.   *)
(***************************************************************************)
EXTENDS LZ77Store, BlockSplitter, InductionFacts, FiniteSetTheorems, SequenceTheorems

(* How often v is among elements a + 1 .. b of q.                          *)
Count(q, a, b, v) == Cardinality({n \in a..(b - 1) : q[n + 1] = v})

(* A count is a number.                                                    *)
LEMMA CountType ==
    ASSUME NEW q, NEW a \in Nat, NEW b \in Nat, NEW v
    PROVE  Count(q, a, b, v) \in Nat
<1>1. IsFiniteSet(a..(b - 1))
  BY FS_Interval
<1>2. IsFiniteSet({n \in a..(b - 1) : q[n + 1] = v})
  BY <1>1, FS_Subset
<1> QED BY <1>2, FS_CardinalityType DEF Count

(* Nothing is in an empty range.                                           *)
LEMMA CountNone ==
    ASSUME NEW q, NEW a \in Nat, NEW v
    PROVE  Count(q, a, a, v) = 0
<1>1. {n \in a..(a - 1) : q[n + 1] = v} = {}
  OBVIOUS
<1> QED BY <1>1, FS_EmptySet DEF Count

(* The count of a range is that of two ranges it is cut into.              *)
LEMMA CountSplit ==
    ASSUME NEW q, NEW a \in Nat, NEW b \in Nat, NEW c \in Nat, a <= b, b <= c, NEW v
    PROVE  Count(q, a, c, v) = Count(q, a, b, v) + Count(q, b, c, v)
<1> DEFINE S == {n \in a..(b - 1) : q[n + 1] = v}
           T == {n \in b..(c - 1) : q[n + 1] = v}
           U == {n \in a..(c - 1) : q[n + 1] = v}
<1>1. IsFiniteSet(S) /\ IsFiniteSet(T)
  <2>1. IsFiniteSet(a..(b - 1)) /\ IsFiniteSet(b..(c - 1))
    BY FS_Interval
  <2>2. IsFiniteSet(S)
    BY <2>1, FS_Subset
  <2>3. IsFiniteSet(T)
    BY <2>1, FS_Subset
  <2> QED BY <2>2, <2>3
<1>2. Cardinality(S) \in Nat /\ Cardinality(T) \in Nat
  BY <1>1, FS_CardinalityType
<1>3. U = S \cup T
  <2>1. \A n : n \in a..(c - 1) <=> n \in a..(b - 1) \/ n \in b..(c - 1)
    OBVIOUS
  <2> QED BY <2>1
<1>4. S \cap T = {}
  <2>1. \A n : ~(n \in a..(b - 1) /\ n \in b..(c - 1))
    OBVIOUS
  <2> QED BY <2>1
<1> HIDE DEF S, T, U
<1>5. Cardinality(U) = Cardinality(S) + Cardinality(T) - Cardinality(S \cap T)
  BY <1>1, <1>3, FS_Union
<1>6. Cardinality(S \cap T) = 0
  BY <1>4, FS_EmptySet
<1>7. Cardinality(U) = Cardinality(S) + Cardinality(T)
  BY <1>2, <1>5, <1>6
<1> QED BY <1>7 DEF Count, S, T, U

(* One element counts once or not at all.                                  *)
LEMMA CountOne ==
    ASSUME NEW q, NEW a \in Nat, NEW v
    PROVE  Count(q, a, a + 1, v) = IF q[a + 1] = v THEN 1 ELSE 0
<1> DEFINE S == {n \in a..((a + 1) - 1) : q[n + 1] = v}
<1>1. \A n : n \in a..((a + 1) - 1) <=> n = a
  OBVIOUS
<1>2. CASE q[a + 1] = v
  <2>1. S = {a}
    BY <1>1, <1>2
  <2> HIDE DEF S
  <2>2. Cardinality(S) = 1
    BY <2>1, FS_Singleton
  <2> QED BY <1>2, <2>2 DEF Count, S
<1>3. CASE q[a + 1] # v
  <2>1. S = {}
    BY <1>1, <1>3
  <2> HIDE DEF S
  <2>2. Cardinality(S) = 0
    BY <2>1, FS_EmptySet
  <2> QED BY <1>3, <2>2 DEF Count, S
<1> QED BY <1>2, <1>3

(* Sequences that agree on a range have the same count in it.              *)
LEMMA CountSame ==
    ASSUME NEW q, NEW r, NEW a \in Nat, NEW b \in Nat, NEW v,
           \A n \in a..(b - 1) : q[n + 1] = r[n + 1]
    PROVE  Count(q, a, b, v) = Count(r, a, b, v)
<1>1. {n \in a..(b - 1) : q[n + 1] = v} = {n \in a..(b - 1) : r[n + 1] = v}
  OBVIOUS
<1> QED BY <1>1 DEF Count

-----------------------------------------------------------------------------
(* A sequence with e behind it, and with e for its element i.              *)
Longer(t, s, e, V) ==
    /\ t \in Seq(V) /\ Len(t) = Len(s) + 1 /\ t[Len(s) + 1] = e
    /\ \A i \in 1..Len(s) : t[i] = s[i]

Replaced(t, s, i, e, V) ==
    /\ t \in Seq(V) /\ Len(t) = Len(s) /\ t[i] = e
    /\ \A j \in 1..Len(s) : j # i => t[j] = s[j]

LEMMA AppendIsLonger ==
    ASSUME NEW V, NEW s \in Seq(V), NEW e \in V
    PROVE  Longer(Append(s, e), s, e, V)
  BY DEF Longer

LEMMA ExceptReplaces ==
    ASSUME NEW V, NEW s \in Seq(V), NEW i \in 1..Len(s), NEW e \in V
    PROVE  Replaced([s EXCEPT ![i] = e], s, i, e, V)
  BY DEF Replaced

-----------------------------------------------------------------------------
(* The chunks of one alphabet. *)

(* m chunks are begun by size elements.                                    *)
Begun(m, size, chunk) ==
    IF size = 0 THEN m = 0 ELSE m > 0 /\ (m - 1) * chunk < size /\ size <= m * chunk

(* Each chunk's counts are those up to its end, or up to now.              *)
Chunked(counts, q, size, chunk, symbols) ==
    /\ counts \in Seq([symbols -> Int])
    /\ Begun(Len(counts), size, chunk)
    /\ \A c \in 0..(Len(counts) - 1) : \A s \in symbols :
          counts[c + 1][s] = Count(q, 0, Smaller(c * chunk + chunk, size), s)

(* The chunk of an element.                                                *)
LEMMA ChunkOf ==
    ASSUME NEW n \in Nat, NEW d \in Nat, d # 0
    PROVE  /\ n \div d \in Nat
           /\ (n \div d) * d <= n /\ n < (n \div d) * d + d
           /\ n % d = 0 <=> n = (n \div d) * d
  OBVIOUS

(* Chunks lie one behind the other.                                        *)
LEMMA Multiples ==
    ASSUME NEW a \in Nat, NEW b \in Nat, NEW d \in Nat, d # 0
    PROVE  /\ a * d \in Nat /\ (a + 1) * d = a * d + d
           /\ a < b => a * d + d <= b * d
           /\ a * d < b * d => a < b
  OBVIOUS

(* The next element has its chunk begun.                                   *)
LEMMA BegunNext ==
    ASSUME NEW size \in Nat, NEW chunk \in Nat, chunk # 0, NEW k, k = size \div chunk
    PROVE  Begun(k + 1, size + 1, chunk)
<1>1. k \in Nat /\ k * chunk \in Nat /\ k * chunk <= size /\ size < k * chunk + chunk
  BY ChunkOf, Multiples
<1>2. (k + 1) * chunk = k * chunk + chunk /\ (k + 1) - 1 = k
  BY <1>1, Multiples
<1> QED BY <1>1, <1>2 DEF Begun

(* Which chunk the next element falls into.                                *)
LEMMA BegunChunks ==
    ASSUME NEW m \in Nat, NEW size \in Nat, NEW chunk \in Nat, chunk # 0, Begun(m, size, chunk),
           NEW k, k = size \div chunk
    PROVE  m = IF size % chunk = 0 THEN k ELSE k + 1
<1>1. /\ k \in Nat /\ k * chunk \in Nat /\ k * chunk <= size /\ size < k * chunk + chunk
      /\ size % chunk = 0 <=> size = k * chunk
  BY ChunkOf, Multiples
<1>2. (k + 1) * chunk = k * chunk + chunk /\ (k + 1) - 1 = k
  BY <1>1, Multiples
<1>4. CASE size = 0
  <2>1. m = 0 /\ size % chunk = 0
    BY <1>4 DEF Begun
  <2>2. k = 0
    <3>1. k = 0 \/ 0 * chunk + chunk <= k * chunk
      BY <1>1, Multiples
    <3> QED BY <3>1, <1>1, <1>4
  <2> QED BY <2>1, <2>2
<1>5. CASE size # 0
  <2>1. /\ m - 1 \in Nat /\ (m - 1) * chunk < size /\ size <= m * chunk
        /\ (m - 1) * chunk \in Nat /\ m * chunk \in Nat
    <3>1. m > 0 /\ (m - 1) * chunk < size /\ size <= m * chunk
      BY <1>5 DEF Begun
    <3>2. m - 1 \in Nat
      BY <3>1
    <3> QED BY <3>1, <3>2, Multiples
  <2>2. (m - 1) * chunk < (k + 1) * chunk
    BY <1>1, <1>2, <2>1
  <2>3. m - 1 < k + 1
    BY <1>1, <2>1, <2>2, Multiples
  <2>4. CASE size % chunk = 0
    <3>1. (m - 1) * chunk < k * chunk
      BY <1>1, <2>1, <2>4
    <3>2. m - 1 < k
      BY <1>1, <2>1, <3>1, Multiples
    <3>3. ~(m < k)
      <4>1. m < k => m * chunk + chunk <= k * chunk
        BY <1>1, Multiples
      <4> QED BY <1>1, <2>1, <2>4, <4>1
    <3>4. m = k
      BY <1>1, <3>2, <3>3
    <3> QED BY <3>4, <2>4
  <2>5. CASE size % chunk # 0
    <3>1. ~(m < k + 1)
      <4>1. m <= k => m = k \/ m * chunk + chunk <= k * chunk
        BY <1>1, Multiples
      <4>2. k * chunk < size
        BY <1>1, <2>5
      <4> QED BY <1>1, <2>1, <4>1, <4>2
    <3>2. m = k + 1
      BY <1>1, <2>3, <3>1
    <3> QED BY <3>2, <2>5
  <2> QED BY <2>4, <2>5
<1> QED BY <1>4, <1>5

(* The chunk k counts all elements, and those before it are as they were.  *)
Started(base, counts, q, size, symbols, k) ==
    /\ base \in Seq([symbols -> Int])
    /\ Len(base) = k + 1
    /\ \A c \in 0..(k - 1) : base[c + 1] = counts[c + 1]
    /\ \A s \in symbols : base[k + 1][s] = Count(q, 0, size, s)

(* With ensureHistogramChunk the next element has a chunk, which is that   *)
(* of the count of all elements before it.                                 *)
LEMMA ChunkStart ==
    ASSUME NEW counts, NEW q, NEW size \in Nat, NEW chunk \in Nat, chunk # 0, NEW symbols,
           Chunked(counts, q, size, chunk, symbols),
           NEW base, base = EnsureChunk(counts, size, chunk, symbols),
           NEW k, k = size \div chunk
    PROVE  Started(base, counts, q, size, symbols, k)
<1>2. /\ k \in Nat /\ k * chunk \in Nat /\ k * chunk <= size /\ size < k * chunk + chunk
      /\ size % chunk = 0 <=> size = k * chunk
  BY ChunkOf, Multiples
<1>3. counts \in Seq([symbols -> Int]) /\ Begun(Len(counts), size, chunk)
  BY DEF Chunked
<1>4. Len(counts) = IF size % chunk = 0 THEN k ELSE k + 1
  BY <1>3, BegunChunks
<1>5. CASE size % chunk # 0
  <2>1. base = counts /\ Len(counts) = k + 1
    BY <1>4, <1>5 DEF EnsureChunk
  <2>2. ASSUME NEW s \in symbols PROVE counts[k + 1][s] = Count(q, 0, size, s)
    <3>1. k \in 0..(Len(counts) - 1) /\ Smaller(k * chunk + chunk, size) = size
      BY <1>2, <2>1 DEF Smaller
    <3>2. counts[k + 1][s] = Count(q, 0, Smaller(k * chunk + chunk, size), s)
      BY <3>1 DEF Chunked
    <3> QED BY <3>1, <3>2
  <2> QED BY <1>3, <2>1, <2>2 DEF Started
<1>6. CASE size % chunk = 0
  <2>1. Len(counts) = k /\ size = k * chunk
    BY <1>2, <1>4, <1>6
  <2>2. PICK first : first = IF size = 0 THEN Zero(symbols) ELSE counts[k]
    OBVIOUS
  <2>3. base = Append(counts, first)
    BY <1>6, <2>2 DEF EnsureChunk
  <2>4. first \in [symbols -> Int] /\ \A s \in symbols : first[s] = Count(q, 0, size, s)
    <3>1. CASE size = 0
      <4>1. first = Zero(symbols)
        BY <2>2, <3>1
      <4>2. \A s \in symbols : Count(q, 0, size, s) = 0
        BY <3>1, CountNone
      <4> QED BY <4>1, <4>2 DEF Zero
    <3>2. CASE size # 0
      <4>1. first = counts[k] /\ k # 0
        BY <1>2, <2>1, <2>2, <3>2
      <4>2. k \in 1..Len(counts)
        BY <1>2, <2>1, <4>1
      <4>3. first \in [symbols -> Int]
        BY <1>3, <4>1, <4>2
      <4>4. k - 1 \in 0..(Len(counts) - 1) /\ (k - 1) + 1 = k
        BY <4>2
      <4>5. (k - 1) * chunk + chunk = size
        <5>1. k - 1 \in Nat
          BY <4>4
        <5>2. ((k - 1) + 1) * chunk = (k - 1) * chunk + chunk
          BY <5>1, Multiples
        <5> QED BY <2>1, <4>4, <5>2
      <4>6. Smaller((k - 1) * chunk + chunk, size) = size
        BY <4>5 DEF Smaller
      <4>7. ASSUME NEW s \in symbols PROVE counts[k][s] = Count(q, 0, size, s)
        <5>1. counts[(k - 1) + 1][s] = Count(q, 0, Smaller((k - 1) * chunk + chunk, size), s)
          BY <4>4 DEF Chunked
        <5> QED BY <4>4, <4>6, <5>1
      <4> QED BY <4>1, <4>3, <4>7
    <3> QED BY <3>1, <3>2
  <2>5. /\ base \in Seq([symbols -> Int]) /\ Len(base) = k + 1 /\ base[k + 1] = first
        /\ \A i \in 1..k : base[i] = counts[i]
    <3>1. PICK V : V = [symbols -> Int]
      OBVIOUS
    <3>2. counts \in Seq(V) /\ first \in V
      BY <1>3, <2>4, <3>1
    <3>3. Longer(base, counts, first, V)
      BY <2>3, <3>2, AppendIsLonger
    <3> QED BY <2>1, <3>1, <3>3 DEF Longer
  <2>6. \A c \in 0..(k - 1) : base[c + 1] = counts[c + 1]
    BY <1>2, <2>5
  <2> QED BY <2>4, <2>5, <2>6 DEF Started
<1> QED BY <1>5, <1>6

(* Adding one to the count of the symbol stored keeps the chunks; a symbol *)
(* that is none, the distance of a literal, is not counted.                *)
LEMMA ChunkStep ==
    ASSUME NEW counts, NEW q, NEW r, NEW size \in Nat, NEW chunk \in Nat, chunk # 0, NEW symbols,
           Chunked(counts, q, size, chunk, symbols),
           \A n \in 0..(size - 1) : r[n + 1] = q[n + 1],
           NEW base, base = EnsureChunk(counts, size, chunk, symbols),
           NEW new,
           new = IF r[size + 1] \in symbols
                 THEN [base EXCEPT ![size \div chunk + 1][r[size + 1]] = @ + 1] ELSE base
    PROVE  Chunked(new, r, size + 1, chunk, symbols)
<1>1. PICK k : k = size \div chunk
  OBVIOUS
<1>2. PICK v : v = r[size + 1]
  OBVIOUS
<1>3. /\ k \in Nat /\ k * chunk \in Nat /\ k * chunk <= size /\ size < k * chunk + chunk
  BY <1>1, ChunkOf, Multiples
<1>4. /\ base \in Seq([symbols -> Int]) /\ Len(base) = k + 1
      /\ \A c \in 0..(k - 1) : base[c + 1] = counts[c + 1]
      /\ \A s \in symbols : base[k + 1][s] = Count(q, 0, size, s)
  <2>1. Started(base, counts, q, size, symbols, k)
    BY <1>1, ChunkStart
  <2> QED BY <2>1 DEF Started
<1>5. counts \in Seq([symbols -> Int]) /\ Begun(Len(counts), size, chunk)
  BY DEF Chunked
<1>6. new = IF v \in symbols THEN [base EXCEPT ![k + 1][v] = @ + 1] ELSE base
  BY <1>1, <1>2
<1>7. k + 1 \in 1..Len(base) /\ base[k + 1] \in [symbols -> Int]
  <2>1. k + 1 \in 1..Len(base)
    BY <1>3, <1>4
  <2> QED BY <1>4, <2>1
<1>8. /\ new \in Seq([symbols -> Int]) /\ Len(new) = k + 1
      /\ \A i \in 1..k : new[i] = base[i]
      /\ v \in symbols => new[k + 1] = [base[k + 1] EXCEPT ![v] = @ + 1]
  <2>1. CASE v \in symbols
    <3>1. PICK w : w = [base[k + 1] EXCEPT ![v] = @ + 1]
      OBVIOUS
    <3>2. PICK V : V = [symbols -> Int]
      OBVIOUS
    <3>3. w \in V /\ base \in Seq(V)
      BY <1>4, <1>7, <2>1, <3>1, <3>2
    <3>4. new = [base EXCEPT ![k + 1] = w]
      BY <1>6, <2>1, <3>1
    <3>5. Replaced(new, base, k + 1, w, V)
      <4>1. PICK i : i = k + 1
        OBVIOUS
      <4>2. i \in 1..Len(base)
        BY <1>7, <4>1
      <4>3. Replaced([base EXCEPT ![i] = w], base, i, w, V)
        BY <3>3, <4>2, ExceptReplaces
      <4> QED BY <3>4, <4>1, <4>3
    <3>6. \A i \in 1..k : new[i] = base[i]
      <4>1. \A j \in 1..Len(base) : j # k + 1 => new[j] = base[j]
        BY <3>5 DEF Replaced
      <4>2. \A i \in 1..k : i \in 1..Len(base) /\ i # k + 1
        BY SMTT(30), <1>3, <1>4
      <4> QED BY <4>1, <4>2
    <3> QED BY <1>4, <3>1, <3>2, <3>5, <3>6 DEF Replaced
  <2>2. CASE v \notin symbols
    BY <1>4, <1>6, <2>2
  <2> QED BY <2>1, <2>2
<1>9. ASSUME NEW s \in symbols
      PROVE  new[k + 1][s] = base[k + 1][s] + (IF v = s THEN 1 ELSE 0)
  <2>1. base[k + 1][s] \in Int
    BY <1>7
  <2>2. CASE v \in symbols
    BY <1>7, <1>8, <2>1, <2>2
  <2>3. CASE v \notin symbols
    BY <1>6, <2>1, <2>3
  <2> QED BY <2>2, <2>3
<1>10. Begun(k + 1, size + 1, chunk)
  BY <1>1, BegunNext
<1>11. ASSUME NEW c \in 0..(k - 1), NEW s \in symbols
       PROVE  new[c + 1][s] = Count(r, 0, Smaller(c * chunk + chunk, size + 1), s)
  <2>1. PICK e : e = c * chunk + chunk
    OBVIOUS
  <2>2. e \in Nat /\ e <= size
    <3>1. c \in Nat /\ c < k /\ c * chunk \in Nat
      BY <1>3, Multiples
    <3>2. c * chunk + chunk <= k * chunk
      BY <1>3, <3>1, Multiples
    <3> QED BY <1>3, <2>1, <3>1, <3>2
  <2>3. Smaller(e, size) = e /\ Smaller(e, size + 1) = e
    BY <2>2 DEF Smaller
  <2>4. c \in 0..(Len(counts) - 1)
    <3>1. PICK m : m = Len(counts)
      OBVIOUS
    <3>2. m \in Nat /\ Begun(m, size, chunk)
      BY <1>5, <3>1
    <3>3. m = IF size % chunk = 0 THEN k ELSE k + 1
      BY <1>1, <3>2, BegunChunks
    <3> QED BY <1>3, <3>1, <3>3
  <2>5. counts[c + 1][s] = Count(q, 0, e, s)
    BY <2>1, <2>3, <2>4 DEF Chunked
  <2>6. Count(q, 0, e, s) = Count(r, 0, e, s)
    <3>1. \A n \in 0..(e - 1) : q[n + 1] = r[n + 1]
      BY <2>2
    <3> QED BY SMTT(30), <2>2, <3>1, CountSame
  <2>7. new[c + 1] = counts[c + 1]
    <3>1. c + 1 \in 1..k
      BY <1>3
    <3> QED BY <1>4, <1>8, <3>1
  <2> QED BY <2>1, <2>3, <2>5, <2>6, <2>7
<1>12. ASSUME NEW s \in symbols
       PROVE  new[k + 1][s] = Count(r, 0, Smaller(k * chunk + chunk, size + 1), s)
  <2>1. Smaller(k * chunk + chunk, size + 1) = size + 1
    BY <1>3 DEF Smaller
  <2>2. Count(q, 0, size, s) = Count(r, 0, size, s)
    BY CountSame
  <2>3. Count(r, 0, size + 1, s) = Count(r, 0, size, s) + Count(r, size, size + 1, s)
    BY CountSplit
  <2>4. Count(r, size, size + 1, s) = IF v = s THEN 1 ELSE 0
    BY <1>2, CountOne
  <2> QED BY <1>4, <1>9, <2>1, <2>2, <2>3, <2>4
<1>13. ASSUME NEW c \in 0..(Len(new) - 1), NEW s \in symbols
       PROVE  new[c + 1][s] = Count(r, 0, Smaller(c * chunk + chunk, size + 1), s)
  <2>1. c \in 0..(k - 1) \/ c = k
    BY <1>3, <1>8
  <2> QED BY <1>11, <1>12, <2>1
<1> QED BY <1>8, <1>10, <1>13 DEF Chunked

(* The count of the chunk less that of its elements behind n is that of    *)
(* the elements up to n.                                                   *)
Answers(counts, q, chunk, n, end, s) ==
    counts[n \div chunk + 1][s] - Count(q, n + 1, end, s) = Count(q, 0, n + 1, s)

LEMMA ChunkQuery ==
    ASSUME NEW counts, NEW q, NEW size \in Nat, NEW chunk \in Nat, chunk # 0, NEW symbols,
           Chunked(counts, q, size, chunk, symbols), NEW n \in 0..(size - 1),
           NEW s \in symbols, NEW end, end = Smaller(chunk * (n \div chunk) + chunk, size)
    PROVE  Answers(counts, q, chunk, n, end, s)
<1>1. PICK k : k = n \div chunk
  OBVIOUS
<1>2. k \in Nat /\ k * chunk \in Nat /\ k * chunk <= n /\ n < k * chunk + chunk
  BY <1>1, ChunkOf, Multiples
<1>3. PICK e : e = Smaller(k * chunk + chunk, size)
  OBVIOUS
<1>4. e \in Nat /\ n + 1 <= e
  BY <1>2, <1>3 DEF Smaller
<1>5. counts \in Seq([symbols -> Int]) /\ Begun(Len(counts), size, chunk)
  BY DEF Chunked
<1>6. k \in 0..(Len(counts) - 1)
  <2>1. PICK m : m = Len(counts)
    OBVIOUS
  <2>2. m \in Nat /\ m > 0 /\ size <= m * chunk /\ m * chunk \in Nat
    BY <1>5, <2>1, Multiples DEF Begun
  <2>3. k * chunk < m * chunk
    BY <1>2, <2>2
  <2>4. k < m
    BY <1>2, <2>2, <2>3, Multiples
  <2> QED BY <1>2, <2>1, <2>2, <2>4
<1>7. counts[k + 1][s] = Count(q, 0, e, s)
  BY <1>3, <1>6 DEF Chunked
<1>8. Count(q, 0, e, s) = Count(q, 0, n + 1, s) + Count(q, n + 1, e, s)
  BY <1>4, CountSplit
<1>9. Count(q, 0, n + 1, s) \in Nat /\ Count(q, n + 1, e, s) \in Nat
  BY <1>4, CountType
<1>10. chunk * k = k * chunk
  BY <1>2
<1>11. counts[k + 1][s] - Count(q, n + 1, e, s) = Count(q, 0, n + 1, s)
  BY <1>7, <1>8, <1>9
<1> QED BY <1>1, <1>3, <1>10, <1>11 DEF Answers

-----------------------------------------------------------------------------
(* The store. *)

(* The symbols of the tokens; the distance of a literal has none.          *)
LLOf(ts) == [n \in 1..Len(ts) |-> LLSymbol(ts[n])]
DOf(ts) == [n \in 1..Len(ts) |-> IF ts[n].dist = 0 THEN -1 ELSE DistSymbol(ts[n].dist)]

TokenType == [litlen: Nat, dist: Nat, pos: Nat]

(* Each token begins where the one before it ends.                         *)
Adjacent(ts) == \A n \in 1..(Len(ts) - 1) : ts[n + 1].pos = ts[n].pos + Bytes(ts[n])

Good(s) ==
    /\ Adjacent(s.tokens)
    /\ Chunked(s.llCounts, LLOf(s.tokens), Len(s.tokens), NumLL, LLSymbols)
    /\ Chunked(s.dCounts, DOf(s.tokens), Len(s.tokens), NumD, DSymbols)

Stores == [tokens: Seq(TokenType), llCounts: Seq([LLSymbols -> Int]),
           dCounts: Seq([DSymbols -> Int])]

GoodStores == {s \in Stores : Good(s)}

Invariant == Store \in GoodStores

(* The symbols of a literal or a match are of the alphabets.               *)
LEMMA KindSymbols ==
    ASSUME NEW kind \in Kinds
    PROVE  /\ kind.litlen \in Nat /\ kind.dist \in Nat
           /\ LLSymbol(kind) \in LLSymbols
           /\ kind.dist # 0 => DistSymbol(kind.dist) \in DSymbols
<1>1. CASE kind \in [litlen: Literals, dist: {0}]
  <2>1. kind.litlen \in Literals /\ kind.dist = 0
    BY <1>1
  <2>2. kind.litlen \in 0..(NumLL - 1)
    BY <2>1, StoreAssumption
  <2> QED BY <2>1, <2>2 DEF LLSymbol, LLSymbols
<1>2. CASE kind \in [litlen: Lengths, dist: Dists]
  <2>1. kind.litlen \in Lengths /\ kind.dist \in Dists
    BY <1>2
  <2>2. kind.litlen \in Nat /\ kind.dist \in Nat /\ kind.dist # 0
    BY <2>1, StoreAssumption
  <2>3. LengthSymbol(kind.litlen) \in LLSymbols /\ DistSymbol(kind.dist) \in DSymbols
    BY <2>1, StoreAssumption DEF LLSymbols, DSymbols
  <2> QED BY <2>2, <2>3 DEF LLSymbol
<1> QED BY <1>1, <1>2 DEF Kinds

LEMMA BytesType ==
    ASSUME NEW t, t.litlen \in Nat
    PROVE  Bytes(t) \in Nat
  BY DEF Bytes

(* A token more begins where the last one ends.                            *)
LEMMA NextIsAdjacent ==
    ASSUME NEW ts \in Seq(TokenType), Adjacent(ts), NEW t \in TokenType, t.pos = NextPos(ts)
    PROVE  Adjacent(Append(ts, t))
<1>1. PICK us : us = Append(ts, t)
  OBVIOUS
<1>2. Longer(us, ts, t, TokenType)
  BY <1>1, AppendIsLonger
<1>3. Len(ts) \in Nat
  OBVIOUS
<1>4. ASSUME NEW n \in 1..(Len(us) - 1) PROVE us[n + 1].pos = us[n].pos + Bytes(us[n])
  <2>1. n \in 1..Len(ts) /\ us[n] = ts[n]
    <3>1. Len(us) = Len(ts) + 1
      BY <1>2 DEF Longer
    <3>2. n \in 1..Len(ts)
      BY <1>3, <3>1
    <3> QED BY <1>2, <3>2 DEF Longer
  <2>2. CASE n = Len(ts)
    <3>1. us[n + 1] = t
      BY <1>2, <2>2 DEF Longer
    <3>2. ts # <<>>
      BY <1>3, <2>1, <2>2
    <3>3. NextPos(ts) = ts[n].pos + Bytes(ts[n])
      BY <2>2, <3>2 DEF NextPos
    <3> QED BY <2>1, <3>1, <3>3
  <2>3. CASE n # Len(ts)
    <3>1. n + 1 \in 1..Len(ts) /\ n \in 1..(Len(ts) - 1)
      BY <1>3, <2>1, <2>3
    <3>2. us[n + 1] = ts[n + 1]
      BY <1>2, <3>1 DEF Longer
    <3>3. ts[n + 1].pos = ts[n].pos + Bytes(ts[n])
      BY <3>1 DEF Adjacent
    <3> QED BY <2>1, <3>2, <3>3
  <2> QED BY <2>2, <2>3
<1> QED BY <1>1, <1>4 DEF Adjacent

(* A token more, in the sequence of symbols of either alphabet.            *)
LEMMA SymbolsNext ==
    ASSUME NEW ts \in Seq(TokenType), NEW t \in TokenType, NEW us, us = Append(ts, t)
    PROVE  /\ LLOf(us)[Len(ts) + 1] = LLSymbol(t)
           /\ DOf(us)[Len(ts) + 1] = IF t.dist = 0 THEN -1 ELSE DistSymbol(t.dist)
           /\ \A n \in 0..(Len(ts) - 1) : LLOf(us)[n + 1] = LLOf(ts)[n + 1]
           /\ \A n \in 0..(Len(ts) - 1) : DOf(us)[n + 1] = DOf(ts)[n + 1]
<1>1. Len(ts) \in Nat
  OBVIOUS
<1>2. Longer(us, ts, t, TokenType)
  BY AppendIsLonger
<1>3. Len(us) = Len(ts) + 1 /\ us[Len(ts) + 1] = t
  BY <1>2 DEF Longer
<1>4. Len(ts) + 1 \in 1..Len(us)
  BY <1>1, <1>3
<1>5. \A n \in 0..(Len(ts) - 1) :
         /\ n + 1 \in 1..Len(ts) /\ n + 1 \in 1..Len(us) /\ us[n + 1] = ts[n + 1]
  <2>1. \A n \in 0..(Len(ts) - 1) : n + 1 \in 1..Len(ts) /\ n + 1 \in 1..Len(us)
    BY <1>1, <1>3
  <2>2. \A i \in 1..Len(ts) : us[i] = ts[i]
    BY <1>2 DEF Longer
  <2> QED BY <2>1, <2>2
<1>6. LLOf(us)[Len(ts) + 1] = LLSymbol(t)
  BY <1>3, <1>4 DEF LLOf
<1>7. DOf(us)[Len(ts) + 1] = IF t.dist = 0 THEN -1 ELSE DistSymbol(t.dist)
  BY <1>3, <1>4 DEF DOf
<1>8. \A n \in 0..(Len(ts) - 1) : LLOf(us)[n + 1] = LLOf(ts)[n + 1]
  BY <1>5 DEF LLOf
<1>9. \A n \in 0..(Len(ts) - 1) : DOf(us)[n + 1] = DOf(ts)[n + 1]
  BY <1>5 DEF DOf
<1> QED BY <1>6, <1>7, <1>8, <1>9

(* storeLitLenDist keeps the store good (lz77Store.storeLitLenDist).       *)
LEMMA GoodNext ==
    ASSUME NEW s \in GoodStores, NEW kind \in Kinds
    PROVE  StoreNext(s, kind) \in GoodStores
<1>1. PICK ts : ts = s.tokens
  OBVIOUS
<1>2. PICK t : t = [litlen |-> kind.litlen, dist |-> kind.dist, pos |-> NextPos(ts)]
  OBVIOUS
<1>3. PICK us : us = Append(ts, t)
  OBVIOUS
<1>4. PICK ll : ll = EnsureChunk(s.llCounts, Len(ts), NumLL, LLSymbols)
  OBVIOUS
<1>5. PICK d : d = EnsureChunk(s.dCounts, Len(ts), NumD, DSymbols)
  OBVIOUS
<1>6. PICK nl : nl = [ll EXCEPT ![Len(ts) \div NumLL + 1][LLSymbol(t)] = @ + 1]
  OBVIOUS
<1>7. PICK nd : nd = IF t.dist = 0 THEN d
                     ELSE [d EXCEPT ![Len(ts) \div NumD + 1][DistSymbol(t.dist)] = @ + 1]
  OBVIOUS
<1>8. StoreNext(s, kind) = [tokens |-> us, llCounts |-> nl, dCounts |-> nd]
  BY <1>1, <1>2, <1>3, <1>4, <1>5, <1>6, <1>7 DEF StoreNext, StoreLitLenDist
<1>9. /\ s \in Stores /\ ts \in Seq(TokenType) /\ Adjacent(ts) /\ Len(ts) \in Nat
      /\ Chunked(s.llCounts, LLOf(ts), Len(ts), NumLL, LLSymbols)
      /\ Chunked(s.dCounts, DOf(ts), Len(ts), NumD, DSymbols)
  <2>1. s \in Stores /\ ts \in Seq(TokenType)
    BY <1>1 DEF GoodStores, Stores
  <2>2. Len(ts) \in Nat
    BY <2>1
  <2> QED BY <1>1, <2>1, <2>2 DEF GoodStores, Good
<1>10. NextPos(ts) \in Nat
  <2>1. CASE ts = <<>>
    BY <2>1 DEF NextPos
  <2>2. CASE ts # <<>>
    <3>1. PICK u \in TokenType : u = ts[Len(ts)]
      <4>1. Len(ts) \in 1..Len(ts)
        BY <1>9, <2>2
      <4> QED BY <1>9, <4>1
    <3>2. u.pos \in Nat /\ Bytes(u) \in Nat
      BY BytesType DEF TokenType
    <3>3. NextPos(ts) = u.pos + Bytes(u)
      BY <2>2, <3>1 DEF NextPos
    <3> QED BY <3>2, <3>3
  <2> QED BY <2>1, <2>2
<1>11. t \in TokenType /\ t.pos = NextPos(ts) /\ t.dist = kind.dist
  BY <1>2, <1>10, KindSymbols DEF TokenType
<1>12. LLSymbol(t) = LLSymbol(kind)
  BY <1>2 DEF LLSymbol
<1>13. us \in Seq(TokenType) /\ Len(us) = Len(ts) + 1
  <2>1. Longer(us, ts, t, TokenType)
    BY <1>3, <1>9, <1>11, AppendIsLonger
  <2> QED BY <2>1 DEF Longer
<1>14. Adjacent(us)
  BY <1>3, <1>9, <1>11, NextIsAdjacent
<1>15. NumLL \in Nat /\ NumLL # 0 /\ NumD \in Nat /\ NumD # 0
  BY StoreAssumption
<1>16. Chunked(nl, LLOf(us), Len(ts) + 1, NumLL, LLSymbols)
  <2>1. PICK r : r = LLOf(us)
    OBVIOUS
  <2>2. r[Len(ts) + 1] = LLSymbol(t) /\ LLSymbol(t) \in LLSymbols
    BY <1>3, <1>9, <1>11, <1>12, <2>1, SymbolsNext, KindSymbols
  <2>3. \A n \in 0..(Len(ts) - 1) : r[n + 1] = LLOf(ts)[n + 1]
    BY <1>3, <1>9, <1>11, <2>1, SymbolsNext
  <2>4. nl = IF r[Len(ts) + 1] \in LLSymbols
             THEN [ll EXCEPT ![Len(ts) \div NumLL + 1][r[Len(ts) + 1]] = @ + 1] ELSE ll
    BY <1>6, <2>2
  <2>5. Chunked(nl, r, Len(ts) + 1, NumLL, LLSymbols)
    BY <1>4, <1>9, <1>15, <2>3, <2>4, ChunkStep
  <2> QED BY <2>1, <2>5
<1>17. Chunked(nd, DOf(us), Len(ts) + 1, NumD, DSymbols)
  <2>1. PICK r : r = DOf(us)
    OBVIOUS
  <2>2. r[Len(ts) + 1] = IF t.dist = 0 THEN -1 ELSE DistSymbol(t.dist)
    BY <1>3, <1>9, <1>11, <2>1, SymbolsNext
  <2>3. \A n \in 0..(Len(ts) - 1) : r[n + 1] = DOf(ts)[n + 1]
    BY <1>3, <1>9, <1>11, <2>1, SymbolsNext
  <2>4. nd = IF r[Len(ts) + 1] \in DSymbols
             THEN [d EXCEPT ![Len(ts) \div NumD + 1][r[Len(ts) + 1]] = @ + 1] ELSE d
    <3>1. CASE t.dist = 0
      <4>1. r[Len(ts) + 1] \notin DSymbols
        BY <2>2, <3>1, <1>15 DEF DSymbols
      <4> QED BY <1>7, <3>1, <4>1
    <3>2. CASE t.dist # 0
      <4>1. r[Len(ts) + 1] = DistSymbol(t.dist) /\ DistSymbol(t.dist) \in DSymbols
        BY <2>2, <3>2, <1>11, KindSymbols
      <4> QED BY <1>7, <3>2, <4>1
    <3> QED BY <3>1, <3>2
  <2>5. Chunked(nd, r, Len(ts) + 1, NumD, DSymbols)
    BY <1>5, <1>9, <1>15, <2>3, <2>4, ChunkStep
  <2> QED BY <2>1, <2>5
<1>18. nl \in Seq([LLSymbols -> Int]) /\ nd \in Seq([DSymbols -> Int])
  BY <1>16, <1>17 DEF Chunked
<1>19. PICK new : new = [tokens |-> us, llCounts |-> nl, dCounts |-> nd]
  OBVIOUS
<1>20. new.tokens = us /\ new.llCounts = nl /\ new.dCounts = nd /\ new \in Stores
  BY <1>13, <1>18, <1>19 DEF Stores
<1>21. Good(new)
  BY <1>13, <1>14, <1>16, <1>17, <1>20 DEF Good
<1> QED BY <1>8, <1>19, <1>20, <1>21 DEF GoodStores

(* The empty store is good (newLZ77Store, reset).                          *)
LEMMA GoodEmpty ==
    ASSUME NEW s, s = [tokens |-> <<>>, llCounts |-> <<>>, dCounts |-> <<>>]
    PROVE  s \in GoodStores
<1>1. s \in Stores
  BY DEF Stores
<1>2. \A q, chunk, symbols : Chunked(<<>>, q, 0, chunk, symbols)
  BY DEF Chunked, Begun
<1>3. Adjacent(<<>>)
  BY DEF Adjacent
<1> QED BY <1>1, <1>2, <1>3 DEF GoodStores, Good

(* So is what appendStore stores one token after the other.                *)
LEMMA AppendGood ==
    ASSUME Store \in GoodStores, NEW kinds \in Seq(Kinds), AppendStore(kinds)
    PROVE  \E s \in GoodStores : Becomes(s)
<1> DEFINE n == Len(kinds)
           step == [k \in 1..n |-> [s \in GoodStores |-> StoreNext(s, kinds[k])]]
           body(f) == [k \in 0..n |-> IF k = 0 THEN Store ELSE StoreNext(f[k - 1], kinds[k])]
           g == CHOOSE f : f = body(f)
<1>0. n \in Nat
  OBVIOUS
<1>1. Becomes(g[n])
  BY DEF AppendStore
<1>2. \A k \in 1..n : kinds[k] \in Kinds
  OBVIOUS
<1> HIDE DEF n, g
<1>3. \A k \in 1..n : \A s \in GoodStores : StoreNext(s, kinds[k]) \in GoodStores
  BY <1>2, GoodNext
<1>4. step \in [1..n -> [GoodStores -> GoodStores]]
  BY <1>3
<1>5. \A k \in 1..n : \A s \in GoodStores : step[k][s] = StoreNext(s, kinds[k])
  OBVIOUS
<1> HIDE DEF step
<1>6. PICK f : IsRecursion(f, GoodStores, n, Store, step)
  <2>1. HasRecursion(GoodStores, n, Store, step)
    BY <1>0, <1>4, RecursionDefines
  <2> QED BY <2>1 DEF HasRecursion
<1>7. \A k \in 1..n : f[k] = StoreNext(f[k - 1], kinds[k])
  <2> SUFFICES ASSUME NEW k \in 1..n PROVE f[k] = StoreNext(f[k - 1], kinds[k])
    OBVIOUS
  <2>1. k - 1 \in 0..n
    BY <1>0
  <2>2. f[k - 1] \in GoodStores /\ f[k] = step[k][f[k - 1]]
    BY <1>6, <2>1 DEF IsRecursion
  <2> QED BY <2>2, <1>5
<1>8. f = body(f)
  BY <1>6, <1>7, <1>0 DEF IsRecursion
<1>9. g = body(g)
  BY <1>8 DEF g
<1>10. g[0] = Store /\ \A k \in 1..n : g[k] = StoreNext(g[k - 1], kinds[k])
  BY <1>9, <1>0
<1>11. \A k \in 1..n : g[k - 1] \in GoodStores => g[k] \in GoodStores
  BY <1>3, <1>10
<1>12. \A k \in 0..n : g[k] \in GoodStores
  BY <1>0, <1>10, <1>11, RecursionStaysIn
<1>13. g[n] \in GoodStores
  BY <1>0, <1>12
<1> QED BY <1>1, <1>13

(* The store that a step leaves is the one it becomes.                     *)
LEMMA BecomesStore ==
    ASSUME NEW s \in GoodStores, Becomes(s)
    PROVE  Invariant'
<1>1. s = [tokens |-> s.tokens, llCounts |-> s.llCounts, dCounts |-> s.dCounts]
  BY DEF GoodStores, Stores
<1>2. Store' = s
  BY <1>1 DEF Store, Becomes
<1>3. Invariant' <=> Store' \in GoodStores
  BY DEF Invariant, GoodStores, Stores, Good, Adjacent, Chunked, Begun, Count, LLOf, DOf,
         TokenType, LLSymbols, DSymbols, LLSymbol, Bytes, Smaller
<1> QED BY <1>2, <1>3

(* The chunks count the symbols up to their ends and the tokens are        *)
(* adjacent, whatever is stored, appended or reset (lz77Store).            *)
THEOREM StoreStaysGood == Spec => []Invariant
<1>1. Init => Invariant
  <2>1. Init => Store = [tokens |-> <<>>, llCounts |-> <<>>, dCounts |-> <<>>]
    BY DEF Init, Store
  <2> QED BY <2>1, GoodEmpty DEF Invariant
<1>2. Invariant /\ [Next]_vars => Invariant'
  <2> SUFFICES ASSUME Invariant, [Next]_vars PROVE Invariant'
    OBVIOUS
  <2>1. Store \in GoodStores
    BY DEF Invariant
  <2>2. ASSUME NEW kind \in Kinds, Push(kind) PROVE Invariant'
    <3>1. Becomes(StoreNext(Store, kind))
      BY <2>2 DEF Push
    <3>2. StoreNext(Store, kind) \in GoodStores
      BY <2>1, GoodNext
    <3> QED BY <3>1, <3>2, BecomesStore
  <2>3. ASSUME NEW n \in 2..MaxAppended, NEW kinds \in [1..n -> Kinds], AppendStore(kinds)
        PROVE  Invariant'
    <3>1. kinds \in Seq(Kinds)
      OBVIOUS
    <3>2. PICK s \in GoodStores : Becomes(s)
      BY <2>1, <2>3, <3>1, AppendGood
    <3> QED BY <3>2, BecomesStore
  <2>4. CASE Reset
    <3>1. PICK s : s = [tokens |-> <<>>, llCounts |-> <<>>, dCounts |-> <<>>]
      OBVIOUS
    <3>2. s \in GoodStores
      BY <3>1, GoodEmpty
    <3>3. Becomes(s)
      BY <2>4, <3>1 DEF Reset, Becomes
    <3> QED BY <3>2, <3>3, BecomesStore
  <2>5. CASE UNCHANGED vars
    <3>1. Becomes(Store)
      BY <2>5 DEF vars, Becomes, Store
    <3> QED BY <2>1, <3>1, BecomesStore
  <2> QED BY <2>2, <2>3, <2>4, <2>5 DEF Next
<1> QED BY <1>1, <1>2, PTL DEF Spec

-----------------------------------------------------------------------------
(* Histograms. *)

(* Counting the tokens is counting their symbols.                          *)
LEMMA CountsAlike ==
    ASSUME Invariant, NEW a \in Nat, NEW b \in Nat, b <= Len(tokens)
    PROVE  /\ \A s \in LLSymbols : CountLL(a, b, s) = Count(LLOf(tokens), a, b, s)
           /\ \A s \in DSymbols : CountD(a, b, s) = Count(DOf(tokens), a, b, s)
<1>1. \A n \in a..(b - 1) : n + 1 \in 1..Len(tokens)
  <2>1. Len(tokens) \in Nat
    BY DEF Invariant, GoodStores, Stores, Store
  <2> QED BY <2>1
<1>2. ASSUME NEW s \in LLSymbols PROVE CountLL(a, b, s) = Count(LLOf(tokens), a, b, s)
  <2>1. {n \in a..(b - 1) : LLSymbol(tokens[n + 1]) = s}
           = {n \in a..(b - 1) : LLOf(tokens)[n + 1] = s}
    BY <1>1 DEF LLOf
  <2> QED BY <2>1 DEF CountLL, Count
<1>3. ASSUME NEW s \in DSymbols PROVE CountD(a, b, s) = Count(DOf(tokens), a, b, s)
  <2>1. s # -1
    BY StoreAssumption DEF DSymbols
  <2>2. \A n \in a..(b - 1) :
           (tokens[n + 1].dist # 0 /\ DistSymbol(tokens[n + 1].dist) = s)
              <=> DOf(tokens)[n + 1] = s
    BY <1>1, <2>1 DEF DOf
  <2>3. {n \in a..(b - 1) : tokens[n + 1].dist # 0 /\ DistSymbol(tokens[n + 1].dist) = s}
           = {n \in a..(b - 1) : DOf(tokens)[n + 1] = s}
    BY <2>2
  <2> QED BY <2>3 DEF CountD, Count
<1> QED BY <1>2, <1>3

(* The histogram up to a token counts all of them (histogramAt).           *)
LEMMA HistogramUpTo ==
    ASSUME Invariant, NEW n \in 0..(Len(tokens) - 1)
    PROVE  HistogramAt(n) = Counted(0, n + 1)
<1>1. /\ Len(tokens) \in Nat
      /\ Chunked(llCounts, LLOf(tokens), Len(tokens), NumLL, LLSymbols)
      /\ Chunked(dCounts, DOf(tokens), Len(tokens), NumD, DSymbols)
  BY DEF Invariant, GoodStores, Stores, Store, Good
<1>2. NumLL \in Nat /\ NumLL # 0 /\ NumD \in Nat /\ NumD # 0
  BY StoreAssumption
<1>3. n \in Nat /\ n + 1 \in Nat /\ n + 1 <= Len(tokens)
  BY <1>1
<1>4. ASSUME NEW chunk \in Nat, chunk # 0
      PROVE  /\ Smaller(chunk * (n \div chunk) + chunk, Len(tokens)) \in Nat
             /\ Smaller(chunk * (n \div chunk) + chunk, Len(tokens)) <= Len(tokens)
  <2>1. PICK k : k = n \div chunk
    OBVIOUS
  <2>2. k \in Nat /\ k * chunk \in Nat
    BY <1>3, <1>4, <2>1, ChunkOf, Multiples
  <2>3. chunk * k + chunk \in Nat
    BY <1>4, <2>2
  <2>4. PICK e : e = chunk * k + chunk
    OBVIOUS
  <2>5. Smaller(e, Len(tokens)) \in Nat /\ Smaller(e, Len(tokens)) <= Len(tokens)
    BY <1>1, <2>3, <2>4 DEF Smaller
  <2> QED BY <2>1, <2>4, <2>5
<1>5. ASSUME NEW s \in LLSymbols
      PROVE  llCounts[n \div NumLL + 1][s]
                - CountLL(n + 1, Smaller(NumLL * (n \div NumLL) + NumLL, Len(tokens)), s)
             = CountLL(0, n + 1, s)
  <2>1. PICK e : e = Smaller(NumLL * (n \div NumLL) + NumLL, Len(tokens))
    OBVIOUS
  <2>2. e \in Nat /\ e <= Len(tokens)
    BY <1>2, <1>4, <2>1
  <2>3. Answers(llCounts, LLOf(tokens), NumLL, n, e, s)
    <3>1. Chunked(llCounts, LLOf(tokens), Len(tokens), NumLL, LLSymbols)
      BY <1>1
    <3> QED BY <1>1, <1>2, <2>1, <3>1, ChunkQuery
  <2>4. CountLL(n + 1, e, s) = Count(LLOf(tokens), n + 1, e, s)
    BY <1>3, <2>2, CountsAlike
  <2>5. CountLL(0, n + 1, s) = Count(LLOf(tokens), 0, n + 1, s)
    BY <1>3, CountsAlike
  <2> QED BY <2>1, <2>3, <2>4, <2>5 DEF Answers
<1>6. ASSUME NEW s \in DSymbols
      PROVE  dCounts[n \div NumD + 1][s]
                - CountD(n + 1, Smaller(NumD * (n \div NumD) + NumD, Len(tokens)), s)
             = CountD(0, n + 1, s)
  <2>1. PICK e : e = Smaller(NumD * (n \div NumD) + NumD, Len(tokens))
    OBVIOUS
  <2>2. e \in Nat /\ e <= Len(tokens)
    BY <1>2, <1>4, <2>1
  <2>3. Answers(dCounts, DOf(tokens), NumD, n, e, s)
    <3>1. Chunked(dCounts, DOf(tokens), Len(tokens), NumD, DSymbols)
      BY <1>1
    <3> QED BY <1>1, <1>2, <2>1, <3>1, ChunkQuery
  <2>4. CountD(n + 1, e, s) = Count(DOf(tokens), n + 1, e, s)
    BY <1>3, <2>2, CountsAlike
  <2>5. CountD(0, n + 1, s) = Count(DOf(tokens), 0, n + 1, s)
    BY <1>3, CountsAlike
  <2> QED BY <2>1, <2>3, <2>4, <2>5 DEF Answers
<1> QED BY <1>5, <1>6 DEF HistogramAt, Counted

(* The tokens of a range are those up to its end less those before it.     *)
LEMMA CountedRange ==
    ASSUME Invariant, NEW a \in Nat, NEW b \in Nat, a <= b, b <= Len(tokens)
    PROVE  /\ \A s \in LLSymbols : CountLL(0, b, s) - CountLL(0, a, s) = CountLL(a, b, s)
           /\ \A s \in DSymbols : CountD(0, b, s) - CountD(0, a, s) = CountD(a, b, s)
<1>1. ASSUME NEW q, NEW s PROVE Count(q, 0, b, s) - Count(q, 0, a, s) = Count(q, a, b, s)
  <2>1. Count(q, 0, a, s) \in Nat /\ Count(q, a, b, s) \in Nat
    <3>1. 0 \in Nat
      OBVIOUS
    <3> QED BY <3>1, CountType
  <2>2. Count(q, 0, b, s) = Count(q, 0, a, s) + Count(q, a, b, s)
    BY CountSplit
  <2> QED BY <2>1, <2>2
<1>2. Len(tokens) \in Nat /\ a <= Len(tokens)
  BY DEF Invariant, GoodStores, Stores, Store
<1>3. ASSUME NEW s \in LLSymbols
      PROVE  CountLL(0, b, s) - CountLL(0, a, s) = CountLL(a, b, s)
  BY <1>1, <1>2, CountsAlike
<1>4. ASSUME NEW s \in DSymbols
      PROVE  CountD(0, b, s) - CountD(0, a, s) = CountD(a, b, s)
  BY <1>1, <1>2, CountsAlike
<1> QED BY <1>3, <1>4

(* The histogram of a range is the count of its tokens, for alphabets and  *)
(* chunks of any size and whatever was stored, appended or reset before    *)
(* (lz77Store.histogram, histogramAt, ensureHistogramChunk).               *)
THEOREM ExactHistograms == Spec => []HistogramExact
<1>1. Invariant => HistogramExact
  <2> SUFFICES ASSUME Invariant, NEW from \in 0..Len(tokens), NEW to \in 0..Len(tokens),
                      from <= to
               PROVE  Histogram(from, to) = Counted(from, to)
    BY DEF HistogramExact
  <2>0. Len(tokens) \in Nat /\ NumLL \in Nat
    BY StoreAssumption DEF Invariant, GoodStores, Stores, Store
  <2>1. CASE from + 3 * NumLL > to
    BY <2>1 DEF Histogram
  <2>2. CASE ~(from + 3 * NumLL > to) /\ from = 0
    <3>1. to - 1 \in 0..(Len(tokens) - 1) /\ (to - 1) + 1 = to
      <4>1. NumLL # 0
        BY StoreAssumption
      <4> QED BY <2>0, <2>2, <4>1
    <3>2. HistogramAt(to - 1) = Counted(0, to)
      BY <3>1, HistogramUpTo
    <3> QED BY <2>2, <3>2 DEF Histogram
  <2>3. CASE ~(from + 3 * NumLL > to) /\ from # 0
    <3>1. /\ to - 1 \in 0..(Len(tokens) - 1) /\ (to - 1) + 1 = to
          /\ from - 1 \in 0..(Len(tokens) - 1) /\ (from - 1) + 1 = from
      BY <2>0, <2>3
    <3>2. HistogramAt(to - 1) = Counted(0, to)
      BY <3>1, HistogramUpTo
    <3>3. HistogramAt(from - 1) = Counted(0, from)
      BY <3>1, HistogramUpTo
    <3>4. /\ \A s \in LLSymbols :
                CountLL(0, to, s) - CountLL(0, from, s) = CountLL(from, to, s)
          /\ \A s \in DSymbols :
                CountD(0, to, s) - CountD(0, from, s) = CountD(from, to, s)
      BY <2>0, CountedRange
    <3>5. Histogram(from, to) =
             [ll |-> [s \in LLSymbols |-> CountLL(0, to, s) - CountLL(0, from, s)],
              d |-> [s \in DSymbols |-> CountD(0, to, s) - CountD(0, from, s)]]
      BY <2>3, <3>2, <3>3 DEF Histogram, Counted
    <3> QED BY <3>4, <3>5 DEF Counted
  <2> QED BY <2>1, <2>2, <2>3
<1> QED BY <1>1, StoreStaysGood, PTL

-----------------------------------------------------------------------------
(* Bytes. *)

(* f adds up the bytes of the tokens from a on.                            *)
Adds(f, a, n) == f[0] = 0 /\ \A k \in 1..n : f[k] = f[k - 1] + Bytes(tokens[a + k])

IsBytesOf(v, a, b) == \E f : v = f[b - a] /\ Adds(f, a, b - a)

(* The sum of BytesOf.                                                     *)
LEMMA BytesSum ==
    ASSUME Invariant, NEW a \in Nat, NEW b \in Nat, a <= b, b <= Len(tokens)
    PROVE  IsBytesOf(BytesOf(a, b), a, b)
<1> DEFINE n == b - a
           bytes(k) == Bytes(tokens[a + k])
           step == [k \in 1..n |-> [v \in Nat |-> v + bytes(k)]]
           body(f) == [k \in 0..n |-> IF k = 0 THEN 0 ELSE f[k - 1] + bytes(k)]
           g == CHOOSE f : f = body(f)
<1>0. n \in Nat
  OBVIOUS
<1>1. BytesOf(a, b) = g[n]
  BY DEF BytesOf
<1>2. ASSUME NEW k \in 1..n PROVE bytes(k) \in Nat
  <2>1. tokens \in Seq(TokenType)
    BY DEF Invariant, GoodStores, Stores, Store
  <2>2. a + k \in 1..Len(tokens)
    BY <2>1
  <2>3. tokens[a + k] \in TokenType
    BY <2>1, <2>2
  <2>4. tokens[a + k].litlen \in Nat
    BY <2>3 DEF TokenType
  <2> QED BY <2>4, BytesType
<1> HIDE DEF n, bytes, g
<1>3. step \in [1..n -> [Nat -> Nat]]
  BY <1>2
<1>4. \A k \in 1..n : \A v \in Nat : step[k][v] = v + bytes(k)
  OBVIOUS
<1> HIDE DEF step
<1>5. PICK f : IsRecursion(f, Nat, n, 0, step)
  <2>1. HasRecursion(Nat, n, 0, step)
    BY <1>0, <1>3, RecursionDefines
  <2> QED BY <2>1 DEF HasRecursion
<1>6. \A k \in 1..n : f[k] = f[k - 1] + bytes(k)
  <2> SUFFICES ASSUME NEW k \in 1..n PROVE f[k] = f[k - 1] + bytes(k)
    OBVIOUS
  <2>1. f[k - 1] \in Nat /\ f[k] = step[k][f[k - 1]]
    BY <1>5, <1>0 DEF IsRecursion
  <2> QED BY <2>1, <1>4
<1>7. f = body(f)
  BY <1>5, <1>6, <1>0 DEF IsRecursion
<1>8. g = body(g)
  BY <1>7 DEF g
<1>9. g[0] = 0 /\ \A k \in 1..n : g[k] = g[k - 1] + bytes(k)
  BY <1>8, <1>0
<1>10. Adds(g, a, n)
  BY <1>9 DEF bytes, Adds
<1> QED BY <1>1, <1>10 DEF n, IsBytesOf

(* Adjacent tokens add up to the end of the last less the position of the  *)
(* first.                                                                  *)
LEMMA BytesTelescope ==
    ASSUME Invariant, NEW a \in Nat, NEW b \in Nat, a < b, b <= Len(tokens)
    PROVE  BytesOf(a, b) = tokens[b].pos + Bytes(tokens[b]) - tokens[a + 1].pos
<1>1. PICK f : /\ BytesOf(a, b) = f[b - a] /\ f[0] = 0
               /\ \A k \in 1..(b - a) : f[k] = f[k - 1] + Bytes(tokens[a + k])
  <2>1. a <= b
    OBVIOUS
  <2>2. IsBytesOf(BytesOf(a, b), a, b)
    BY <2>1, BytesSum
  <2> QED BY <2>2 DEF IsBytesOf, Adds
<1>2. tokens \in Seq(TokenType) /\ Adjacent(tokens)
  BY DEF Invariant, GoodStores, Stores, Store, Good
<1> DEFINE first == tokens[a + 1].pos
           end(k) == tokens[a + k].pos + Bytes(tokens[a + k])
           n == (b - a) - 1
           S == {k \in 0..n : f[k + 1] = end(k + 1) - first}
<1>3. ASSUME NEW k \in 1..(b - a)
      PROVE  tokens[a + k].pos \in Nat /\ Bytes(tokens[a + k]) \in Nat
  <2>1. a + k \in 1..Len(tokens)
    BY <1>2
  <2>2. tokens[a + k] \in TokenType
    BY <1>2, <2>1
  <2> QED BY <2>2, BytesType DEF TokenType
<1>4. 0 \in S
  <2>1. 1 \in 1..(b - a) /\ n \in Nat
    OBVIOUS
  <2>2. f[1] = f[1 - 1] + Bytes(tokens[a + 1])
    BY <1>1, <2>1
  <2>3. f[1] = end(1) - first
    BY <1>1, <1>3, <2>1, <2>2
  <2> QED BY <2>1, <2>3
<1>5. ASSUME NEW k \in 0..(n - 1), k \in S PROVE k + 1 \in S
  <2>1. /\ k + 1 \in 1..(b - a) /\ k + 2 \in 1..(b - a) /\ k + 1 \in 0..n
        /\ (k + 1) + 1 = k + 2 /\ (k + 2) - 1 = k + 1
        /\ a + (k + 2) = (a + (k + 1)) + 1 /\ a + (k + 1) \in 1..(Len(tokens) - 1)
    BY <1>2
  <2>2. f[k + 2] = f[k + 1] + Bytes(tokens[a + (k + 2)])
    BY <1>1, <2>1
  <2>3. tokens[a + (k + 2)].pos = end(k + 1)
    BY <1>2, <2>1 DEF Adjacent
  <2>4. f[k + 1] = end(k + 1) - first
    BY <1>5
  <2>5. f[k + 2] = end(k + 2) - first
    <3>1. PICK p \in Nat : p = end(k + 1)
      <4>1. tokens[a + (k + 1)].pos \in Nat /\ Bytes(tokens[a + (k + 1)]) \in Nat
        BY <1>3, <2>1
      <4> QED BY SMTT(30), <4>1
    <3>2. PICK v \in Nat : v = Bytes(tokens[a + (k + 2)])
      BY <1>3, <2>1
    <3>3. first \in Nat
      <4>1. 1 \in 1..(b - a)
        OBVIOUS
      <4> QED BY <1>3, <4>1
    <3>4. end(k + 2) = p + v
      BY <2>3, <3>1, <3>2
    <3>5. f[k + 2] = (p - first) + v
      BY <2>2, <2>4, <3>1, <3>2
    <3> HIDE DEF first, end
    <3>6. (p - first) + v = (p + v) - first
      BY <3>3
    <3> QED BY <3>4, <3>5, <3>6
  <2> HIDE DEF end, first, n
  <2> QED BY <2>1, <2>5
<1>6. n \in Nat /\ n + 1 = b - a /\ a + (n + 1) = b
  OBVIOUS
<1> HIDE DEF S
<1>7. 0..n \subseteq S
  BY <1>4, <1>5, <1>6, SetInductionUpTo
<1>8. n \in 0..n
  BY <1>6
<1>9. f[n + 1] = end(n + 1) - first
  BY <1>7, <1>8 DEF S
<1>10. PICK e : e = end(n + 1)
  OBVIOUS
<1>11. e = tokens[b].pos + Bytes(tokens[b])
  BY <1>6, <1>10
<1>12. f[n + 1] = BytesOf(a, b)
  BY <1>1, <1>6
<1>13. BytesOf(a, b) = e - first
  <2> HIDE DEF n, end, first
  <2> QED BY <1>9, <1>10, <1>12
<1>14. tokens[b].pos \in Nat /\ Bytes(tokens[b]) \in Nat
  <2>1. n + 1 \in 1..(b - a)
    BY <1>6
  <2>2. tokens[a + (n + 1)].pos \in Nat /\ Bytes(tokens[a + (n + 1)]) \in Nat
    BY <1>3, <2>1
  <2> QED BY <1>6, <2>2
<1>15. first \in Nat
  <2>1. 1 \in 1..(b - a)
    OBVIOUS
  <2> QED BY <1>3, <2>1
<1> QED BY <1>11, <1>13, <1>14, <1>15

(* The bytes of a range are those of its tokens, after any number of       *)
(* tokens, appended stores and resets (lz77Store.byteRange).               *)
THEOREM ExactBytes == Spec => []BytesExact
<1>1. Invariant => BytesExact
  <2> SUFFICES ASSUME Invariant, NEW from \in 0..Len(tokens), NEW to \in 0..Len(tokens),
                      from <= to
               PROVE  ByteRange(from, to) = BytesOf(from, to)
    BY DEF BytesExact
  <2>0. Len(tokens) \in Nat
    BY DEF Invariant, GoodStores, Stores, Store
  <2>1. CASE from = to
    <3>1. PICK f : BytesOf(from, to) = f[to - from] /\ f[0] = 0
      BY <2>0, BytesSum DEF IsBytesOf, Adds
    <3>2. to - from = 0
      BY <2>0, <2>1
    <3> QED BY <2>1, <3>1, <3>2 DEF ByteRange
  <2>2. CASE from # to
    BY <2>0, <2>2, BytesTelescope DEF ByteRange
  <2> QED BY <2>1, <2>2
<1> QED BY <1>1, StoreStaysGood, PTL

-----------------------------------------------------------------------------
(* The splitter begins by a search for the cheapest place to split.        *)

(* The least of the values of a function at some of its places is one of   *)
(* them, and its first place is one of the places.                         *)
LEMMA FirstLeastIs ==
    ASSUME NEW f, NEW S \in SUBSET Nat, S # {}, \A k \in S : f[k] \in Nat
    PROVE  FirstLeast(f, S) \in S
<1> DEFINE Values == {f[k] : k \in S}
           best == {k \in S : \A j \in S : f[k] <= f[j]}
<1>1. PICK v \in Values : \A w \in Values : v <= w
  <2>1. Values \in SUBSET Nat /\ Values # {}
    OBVIOUS
  <2> HIDE DEF Values
  <2> QED BY <2>1, LeastElement
<1>2. best # {}
  <2>1. PICK k \in S : v = f[k]
    BY <1>1
  <2>2. \A j \in S : f[k] <= f[j]
    BY <1>1, <2>1
  <2> QED BY <2>1, <2>2
<1>3. best \in SUBSET Nat /\ best \subseteq S
  OBVIOUS
<1> HIDE DEF best
<1>4. PICK k \in best : \A j \in best : k <= j
  BY <1>2, <1>3, LeastElement
<1>5. Min(best) \in best
  BY <1>4 DEF Min
<1>6. FirstLeast(f, S) = Min(best)
  BY DEF FirstLeast, best
<1> QED BY <1>3, <1>5, <1>6

(* What is left of a range after some rounds. *)
Left(start, end) ==
    {r \in Rounds(start, end) : r.start <= r.end /\ (r.pos = start \/ r.pos < end)}

(* The samples lie within the range they are taken from. *)
LEMMA SampleWithin ==
    ASSUME NEW a \in Nat, NEW b \in Nat, b - a > Samples, NEW k \in 1..Samples
    PROVE  LET step == (b - a) \div (Samples + 1)
           IN  /\ a + k * step \in Nat /\ a < a + k * step /\ a + k * step < b
               /\ k > 1 => a < a + (k - 1) * step /\ a + (k - 1) * step < a + k * step
               /\ k < Samples => a + (k + 1) * step < b /\ a + k * step < a + (k + 1) * step
<1> DEFINE step == (b - a) \div (Samples + 1)
<1>1. Samples \in Nat /\ Samples + 1 \in Nat /\ Samples + 1 > 0 /\ b - a \in Nat
  BY SplitterAssumption
<1>2. step \in Nat /\ step >= 1 /\ (Samples + 1) * step <= b - a
  BY <1>1
<1> HIDE DEF step
<1>3. \A n \in Nat : n * step \in Nat /\ (n + 1) * step = n * step + step
  BY <1>2
<1>4. ASSUME NEW n \in 0..(Samples + 1) PROVE n * step <= (Samples + 1) * step
  BY <1>1, <1>2
<1>5. k \in Nat /\ k - 1 \in Nat /\ k + 1 \in Nat /\ (k - 1) + 1 = k
  BY <1>1
<1>6. k * step = (k - 1) * step + step /\ (k + 1) * step = k * step + step
      /\ (k - 1) * step \in Nat /\ k * step \in Nat
  BY <1>3, <1>5
<1>7. (k + 1) * step <= b - a
  <2>1. k + 1 \in 0..(Samples + 1)
    BY <1>1
  <2>2. (k + 1) * step <= (Samples + 1) * step
    BY <1>4, <2>1
  <2>3. (k + 1) * step \in Nat /\ (Samples + 1) * step \in Nat
    BY <1>1, <1>3, <1>5
  <2> QED BY <1>1, <1>2, <2>2, <2>3
<1>8. k > 1 => (k - 1) * step >= step
  <2>1. k > 1 => k - 2 \in Nat /\ (k - 2) + 1 = k - 1
    BY <1>1
  <2> QED BY <1>2, <1>3, <2>1
<1>9. k < Samples => (k + 1) * step + step <= b - a
  <2> SUFFICES ASSUME k < Samples PROVE (k + 1) * step + step <= b - a
    OBVIOUS
  <2>1. (k + 2) \in 0..(Samples + 1) /\ (k + 1) + 1 = k + 2 /\ k + 2 \in Nat
    BY <1>1
  <2>2. (k + 2) * step <= (Samples + 1) * step /\ (k + 2) * step = (k + 1) * step + step
    BY <1>3, <1>4, <1>5, <2>1
  <2>3. (k + 2) * step \in Nat /\ (Samples + 1) * step \in Nat
    BY <1>1, <1>3, <2>1
  <2> QED BY <1>1, <1>2, <2>2, <2>3
<1>10. /\ a + k * step \in Nat /\ a < a + k * step /\ a + k * step < b
       /\ k > 1 => a < a + (k - 1) * step /\ a + (k - 1) * step < a + k * step
       /\ k < Samples => a + (k + 1) * step < b /\ a + k * step < a + (k + 1) * step
  <2> DEFINE x == (k - 1) * step
             y == k * step
             z == (k + 1) * step
  <2>1. /\ x \in Nat /\ y = x + step /\ z = y + step /\ z <= b - a
        /\ k > 1 => x >= step
        /\ k < Samples => z + step <= b - a
    BY <1>6, <1>7, <1>8, <1>9
  <2> HIDE DEF x, y, z
  <2>2. /\ a + y \in Nat /\ a < a + y /\ a + y < b
        /\ k > 1 => a < a + x /\ a + x < a + y
        /\ k < Samples => a + z < b /\ a + y < a + z
    BY <1>1, <1>2, <2>1
  <2> QED BY <2>2 DEF x, y, z
<1> QED BY <1>10 DEF step

(* A round leaves a range within the range, and a sample of it. *)
LEMMA NarrowLeaves ==
    ASSUME NEW start \in Nat, NEW end \in Nat, NEW f,
           \A k \in start..(end - 1) : f[k] \in Nat, NEW r \in Left(start, end)
    PROVE  Narrow(f, start, end)[r] \in Left(start, end)
<1> DEFINE step == (r.end - r.start) \div (Samples + 1)
           p == [k \in 1..Samples |-> r.start + k * step]
           k == FirstLeast([n \in 1..Samples |-> f[p[n]]], 1..Samples)
           new == [start |-> IF k > 1 THEN p[k - 1] ELSE r.start,
                   end |-> IF k < Samples THEN p[k + 1] ELSE r.end,
                   pos |-> p[k], best |-> f[p[k]]]
<1>1. r \in Rounds(start, end) /\ r.start <= r.end
  BY DEF Left
<1>2. r.start \in start..end /\ r.end \in start..end /\ r.start \in Nat /\ r.end \in Nat
  BY <1>1 DEF Rounds
<1>3. Narrow(f, start, end)[r] =
        IF r.end - r.start <= Samples \/ f[p[k]] > r.best THEN r ELSE new
  BY <1>1 DEF Narrow
<1>4. CASE r.end - r.start <= Samples \/ f[p[k]] > r.best
  BY <1>3, <1>4
<1>5. CASE ~(r.end - r.start <= Samples \/ f[p[k]] > r.best)
  <2>1. r.end - r.start > Samples /\ Samples \in Nat /\ Samples > 1
    <3>1. ~(r.end - r.start <= Samples)
      BY <1>5
    <3> HIDE DEF p, k, new
    <3> QED BY <1>2, <3>1, SplitterAssumption
  <2>2. \A n \in 1..Samples : /\ p[n] \in Nat /\ r.start < p[n] /\ p[n] < r.end
                              /\ n > 1 => r.start < p[n - 1] /\ p[n - 1] < p[n]
                              /\ n < Samples => p[n + 1] < r.end /\ p[n] < p[n + 1]
    <3> SUFFICES ASSUME NEW n \in 1..Samples
                 PROVE  /\ p[n] \in Nat /\ r.start < p[n] /\ p[n] < r.end
                        /\ n > 1 => r.start < p[n - 1] /\ p[n - 1] < p[n]
                        /\ n < Samples => p[n + 1] < r.end /\ p[n] < p[n + 1]
      OBVIOUS
    <3> DEFINE s == step
    <3>1. /\ r.start + n * s \in Nat /\ r.start < r.start + n * s /\ r.start + n * s < r.end
          /\ n > 1 => r.start < r.start + (n - 1) * s /\ r.start + (n - 1) * s < r.start + n * s
          /\ n < Samples =>
               r.start + (n + 1) * s < r.end /\ r.start + n * s < r.start + (n + 1) * s
      BY <1>2, <2>1, SampleWithin
    <3> HIDE DEF s
    <3>2. p = [m \in 1..Samples |-> r.start + m * s]
      BY DEF s
    <3>3. n > 1 => n - 1 \in 1..Samples
      BY <2>1
    <3>4. n < Samples => n + 1 \in 1..Samples
      BY <2>1
    <3> HIDE DEF p
    <3>5. p[n] = r.start + n * s /\ (n > 1 => p[n - 1] = r.start + (n - 1) * s)
          /\ (n < Samples => p[n + 1] = r.start + (n + 1) * s)
      BY <3>2, <3>3, <3>4
    <3> QED BY <3>1, <3>5
  <2> HIDE DEF p
  <2>3. \A n \in 1..Samples : f[p[n]] \in Nat
    <3> SUFFICES ASSUME NEW n \in 1..Samples PROVE f[p[n]] \in Nat
      OBVIOUS
    <3>1. p[n] \in start..(end - 1)
      BY <1>2, <2>2
    <3> QED BY <3>1
  <2>4. k \in 1..Samples
    <3> DEFINE g == [n \in 1..Samples |-> f[p[n]]]
    <3>1. \A n \in 1..Samples : g[n] \in Nat
      BY <2>3
    <3>2. (1..Samples) \in SUBSET Nat /\ 1..Samples # {}
      <4>1. 1 \in 1..Samples /\ \A n \in 1..Samples : n \in Nat
        BY <2>1
      <4> QED BY <4>1
    <3> HIDE DEF g
    <3>3. FirstLeast(g, 1..Samples) \in 1..Samples
      BY <3>1, <3>2, FirstLeastIs
    <3> QED BY <3>3 DEF g
  <2> HIDE DEF k
  <2>5. new \in Rounds(start, end) /\ new.start <= new.end /\ new.pos < end
    <3>1. /\ p[k] \in start..end /\ f[p[k]] \in Nat /\ p[k] < end
          /\ k > 1 => p[k - 1] \in start..end /\ p[k - 1] < p[k]
          /\ k < Samples => p[k + 1] \in start..end /\ p[k] < p[k + 1]
          /\ r.start < p[k] /\ p[k] < r.end
      <4>1. /\ p[k] \in Nat /\ r.start < p[k] /\ p[k] < r.end
            /\ k > 1 => r.start < p[k - 1] /\ p[k - 1] < p[k] /\ p[k - 1] \in Nat
            /\ k < Samples => p[k + 1] < r.end /\ p[k] < p[k + 1] /\ p[k + 1] \in Nat
        <5>1. k > 1 => k - 1 \in 1..Samples
          BY <2>1, <2>4
        <5>2. k < Samples => k + 1 \in 1..Samples
          BY <2>1, <2>4
        <5> QED BY <2>2, <2>4, <5>1, <5>2
      <4> QED BY <1>2, <2>3, <2>4, <4>1
    <3>2. new.start \in start..end /\ new.end \in start..end /\ new.start <= new.end
      BY <1>2, <3>1
    <3> QED BY <3>1, <3>2 DEF Rounds
  <2> QED BY <1>3, <1>5, <2>5 DEF Left
<1> QED BY <1>4, <1>5

(* findMinimum finds a place of the range, and a number; where there is no *)
(* place, the one behind it.                                               *)
LEMMA MinimumIs ==
    ASSUME NEW start \in Nat, NEW end \in Nat, start <= end, NEW f,
           \A k \in start..(end - 1) : f[k] \in Nat
    PROVE  /\ FindMinimum(f, start, end).best \in Nat
           /\ \/ FindMinimum(f, start, end).pos = start
              \/ FindMinimum(f, start, end).pos \in start..(end - 1)
<1>1. CASE end - start < Linear
  <2> DEFINE pos == IF start < end THEN FirstLeast(f, start..(end - 1)) ELSE start
  <2>1. FindMinimum(f, start, end) =
          [pos |-> pos, best |-> IF start < end THEN f[pos] ELSE LargeFloat]
    BY <1>1 DEF FindMinimum
  <2>2. start < end => pos \in start..(end - 1)
    <3> SUFFICES ASSUME start < end PROVE FirstLeast(f, start..(end - 1)) \in start..(end - 1)
      OBVIOUS
    <3>1. (start..(end - 1)) \in SUBSET Nat /\ start..(end - 1) # {}
      <4>1. start \in start..(end - 1) /\ \A n \in start..(end - 1) : n \in Nat
        OBVIOUS
      <4> QED BY <4>1
    <3> QED BY <3>1, FirstLeastIs
  <2>3. ~(start < end) => pos = start
    OBVIOUS
  <2> HIDE DEF pos
  <2> QED BY <2>1, <2>2, <2>3, SplitterAssumption
<1>2. CASE ~(end - start < Linear)
  <2> DEFINE n == end - start
             V == Left(start, end)
             first == [start |-> start, end |-> end, pos |-> start, best |-> LargeFloat]
             body(h) == [k \in 0..n |-> IF k = 0 THEN first ELSE Narrow(f, start, end)[h[k - 1]]]
             round == CHOOSE h : h = body(h)
             step == [k \in 1..n |-> [r \in V |-> Narrow(f, start, end)[r]]]
  <2>1. n \in Nat /\ first \in V
    BY SplitterAssumption DEF Left, Rounds
  <2>2. step \in [1..n -> [V -> V]]
    <3>1. \A r \in V : Narrow(f, start, end)[r] \in V
      BY NarrowLeaves
    <3> HIDE DEF V
    <3> QED BY <3>1
  <2>3. FindMinimum(f, start, end) = [pos |-> round[n].pos, best |-> round[n].best]
    BY <1>2 DEF FindMinimum
  <2> HIDE DEF n, V, first
  <2>4. HasRecursion(V, n, first, step)
    <3> HIDE DEF step
    <3> QED BY <2>1, <2>2, RecursionDefines
  <2>5. PICK h : IsRecursion(h, V, n, first, step)
    BY <2>4 DEF HasRecursion
  <2>6. h = body(h)
    <3>1. h \in [0..n -> V] /\ h[0] = first /\ \A k \in 1..n : h[k] = step[k][h[k - 1]]
      BY <2>5 DEF IsRecursion
    <3>2. \A k \in 0..n : h[k] = IF k = 0 THEN first ELSE Narrow(f, start, end)[h[k - 1]]
      <4> SUFFICES ASSUME NEW k \in 0..n
                   PROVE  h[k] = IF k = 0 THEN first ELSE Narrow(f, start, end)[h[k - 1]]
        OBVIOUS
      <4>1. CASE k = 0
        BY <3>1, <4>1
      <4>2. CASE k # 0
        <5>1. k \in 1..n /\ k - 1 \in 0..n
          BY <2>1, <4>2
        <5>2. h[k - 1] \in V
          BY <3>1, <5>1
        <5>3. step[k][h[k - 1]] = Narrow(f, start, end)[h[k - 1]]
          BY <5>1, <5>2
        <5> QED BY <3>1, <4>2, <5>1, <5>3
      <4> QED BY <4>1, <4>2
    <3> QED BY <3>1, <3>2
  <2>7. round = body(round)
    BY <2>6
  <2> HIDE DEF round
  <2>8. round[0] = first /\ \A k \in 1..n : round[k] = Narrow(f, start, end)[round[k - 1]]
    <3>1. \A k \in 0..n :
             round[k] = IF k = 0 THEN first ELSE Narrow(f, start, end)[round[k - 1]]
      BY <2>7
    <3>2. 0 \in 0..n /\ \A k \in 1..n : k \in 0..n /\ k # 0
      BY <2>1
    <3> QED BY <3>1, <3>2
  <2>9. \A k \in 0..n : round[k] \in V
    <3>1. \A k \in 1..n : round[k - 1] \in V => round[k] \in V
      BY <2>8, NarrowLeaves DEF V
    <3> QED BY <2>1, <2>8, <3>1, RecursionStaysIn
  <2>10. round[n] \in Left(start, end)
    BY <2>1, <2>9 DEF V
  <2>11. round[n].best \in Nat /\ (round[n].pos = start \/ round[n].pos \in start..(end - 1))
    BY <2>10 DEF Left, Rounds
  <2> QED BY <2>3, <2>11
<1> QED BY <1>1, <1>2

-----------------------------------------------------------------------------
PointSet(q) == {q[k] : k \in 1..Len(q)}

(* Points of a store of n tokens. *)
Points(q, n) ==
    /\ q \in Seq(Nat)
    /\ \A k \in 1..Len(q) : q[k] > 0 /\ q[k] < n
    /\ \A j, k \in 1..Len(q) : j < k => q[j] < q[k]

(* A value that is no point yet becomes one. *)
LEMMA AddSortedAdds ==
    ASSUME NEW n \in Nat, NEW q, Points(q, n), NEW v \in Nat, v > 0, v < n, v \notin PointSet(q)
    PROVE  /\ Points(AddSorted(v, q), n)
           /\ Len(AddSorted(v, q)) = Len(q) + 1
           /\ PointSet(AddSorted(v, q)) = PointSet(q) \cup {v}
<1> DEFINE all == Append(q, v)
           m == Len(q)
           D == 1..(m + 1)
           sorted(p) == \A i, j \in D : i < j => all[p[i]] <= all[p[j]]
           order == CHOOSE p \in Bijection(D, D) : sorted(p)
           s == [k \in D |-> all[order[k]]]
<1>1. q \in Seq(Nat) /\ m \in Nat
  BY DEF Points
<1>2. all \in Seq(Nat) /\ Len(all) = m + 1 /\ DOMAIN all = D
      /\ all[m + 1] = v /\ \A k \in 1..m : all[k] = q[k]
  BY <1>1
<1>3. AddSorted(v, q) = s
  BY <1>2 DEF AddSorted
<1> HIDE DEF all
<1>0. \A k \in 1..m : q[k] \in Nat /\ q[k] > 0 /\ q[k] < n
  BY <1>1 DEF Points
<1>4. \A k \in D : k = m + 1 \/ k \in 1..m
  BY <1>1
<1>5. \A k \in D : all[k] \in Nat /\ all[k] > 0 /\ all[k] < n
  <2> SUFFICES ASSUME NEW k \in D PROVE all[k] \in Nat /\ all[k] > 0 /\ all[k] < n
    OBVIOUS
  <2>1. CASE k = m + 1
    BY <1>2, <2>1
  <2>2. CASE k \in 1..m
    BY <1>0, <1>2, <2>2
  <2> QED BY <1>4, <2>1, <2>2
<1>6. \A j, k \in D : all[j] = all[k] => j = k
  <2> SUFFICES ASSUME NEW j \in D, NEW k \in D, j # k PROVE all[j] # all[k]
    OBVIOUS
  <2>1. CASE j \in 1..m /\ k \in 1..m
    <3>1. all[j] = q[j] /\ all[k] = q[k] /\ q[j] \in Nat /\ q[k] \in Nat
      BY <1>0, <1>2, <2>1
    <3>2. j < k \/ k < j
      BY <1>1
    <3> QED BY <2>1, <3>1, <3>2 DEF Points
  <2>2. CASE j = m + 1 /\ k \in 1..m
    BY <1>2, <2>2 DEF PointSet
  <2>3. CASE j \in 1..m /\ k = m + 1
    BY <1>2, <2>3 DEF PointSet
  <2> QED BY <1>4, <2>1, <2>2, <2>3
<1>7. \E p \in Bijection(D, D) : sorted(p)
  <2> DEFINE Above == {k \in D : all[k] >= v}
  <2>1. PICK at \in Above : \A k \in Above : at <= k
    <3>1. m + 1 \in Above /\ \A k \in Above : k \in Nat
      BY <1>1, <1>2
    <3> HIDE DEF Above
    <3>2. Above \in SUBSET Nat /\ Above # {}
      BY <3>1
    <3> QED BY <3>2, LeastElement
  <2>2. at \in D /\ all[at] >= v /\ at \in Nat
    BY <1>1, <2>1
  <2>3. \A k \in D : k < at => all[k] < v
    BY <1>1, <1>5, <2>1, <2>2
  <2>4. \A k \in 1..m : k >= at => all[k] >= v
    <3> SUFFICES ASSUME NEW k \in 1..m, k > at PROVE all[k] >= v
      BY <2>2
    <3>1. at \in 1..m
      BY <1>1, <2>2
    <3>2. all[at] = q[at] /\ all[k] = q[k] /\ q[k] \in Nat /\ q[at] \in Nat
      BY <1>0, <1>2, <3>1
    <3>3. q[at] < q[k]
      BY <3>1 DEF Points
    <3> QED BY <1>1, <2>2, <3>2, <3>3
  <2> HIDE DEF Above
  <2> DEFINE p == [k \in D |-> IF k < at THEN k ELSE IF k = at THEN m + 1 ELSE k - 1]
  <2>5. p \in [D -> D]
    <3>1. \A k \in D : (IF k < at THEN k ELSE IF k = at THEN m + 1 ELSE k - 1) \in D
      BY <1>1, <2>2
    <3> QED BY <3>1
  <2>6. \A j, k \in D : p[j] = p[k] => j = k
    BY <1>1, <2>2
  <2>7. \A k \in D : \E j \in D : p[j] = k
    <3> SUFFICES ASSUME NEW k \in D PROVE \E j \in D : p[j] = k
      OBVIOUS
    <3>1. CASE k < at
      BY <3>1
    <3>2. CASE k = m + 1
      <4>1. p[at] = k
        BY <2>2, <3>2
      <4> QED BY <2>2, <4>1
    <3>3. CASE k >= at /\ k # m + 1
      <4>1. k + 1 \in D /\ ~(k + 1 < at) /\ k + 1 # at /\ (k + 1) - 1 = k
        BY <1>1, <2>2, <3>3
      <4>2. p[k + 1] = k
        BY <4>1
      <4> QED BY <4>1, <4>2
    <3> QED BY <1>1, <2>2, <3>1, <3>2, <3>3
  <2>8. p \in Bijection(D, D)
    <3> HIDE DEF p
    <3>1. IsInjective(p)
      BY <2>5, <2>6 DEF IsInjective
    <3> QED BY <2>5, <2>7, <3>1 DEF Bijection, Injection, Surjection
  <2>9. sorted(p)
    <3> SUFFICES ASSUME NEW i \in D, NEW j \in D, i < j PROVE all[p[i]] <= all[p[j]]
      OBVIOUS
    <3>0. p[i] \in D /\ p[j] \in D /\ all[p[i]] \in Nat /\ all[p[j]] \in Nat
      <4> HIDE DEF p
      <4> QED BY <1>5, <2>5
    <3>1. \A a, b \in 1..m : a < b => all[a] < all[b]
      BY <1>2 DEF Points
    <3>2. CASE i < at /\ j < at
      <4>1. p[i] = i /\ p[j] = j /\ i \in 1..m /\ j \in 1..m
        BY <1>1, <2>2, <3>2
      <4> QED BY <3>0, <3>1, <4>1
    <3>3. CASE i < at /\ j = at
      <4>1. p[i] = i /\ p[j] = m + 1
        BY <2>2, <3>3
      <4> QED BY <1>2, <2>3, <3>0, <3>3, <4>1
    <3>4. CASE i < at /\ j > at
      <4>1. p[i] = i /\ p[j] = j - 1 /\ i \in 1..m /\ j - 1 \in 1..m /\ j - 1 >= at
        BY <1>1, <2>2, <3>4
      <4>2. all[i] < v /\ all[j - 1] >= v
        BY <2>3, <2>4, <3>4, <4>1
      <4> QED BY <3>0, <4>1, <4>2
    <3>5. CASE i = at
      <4>1. p[i] = m + 1 /\ p[j] = j - 1 /\ j - 1 \in 1..m /\ j - 1 >= at
        BY <1>1, <2>2, <3>5
      <4> QED BY <1>2, <2>4, <3>0, <4>1
    <3>6. CASE i > at
      <4>1. p[i] = i - 1 /\ p[j] = j - 1 /\ i - 1 \in 1..m /\ j - 1 \in 1..m /\ i - 1 < j - 1
        BY <1>1, <2>2, <3>6
      <4> QED BY SMTT(30), <3>0, <3>1, <4>1
    <3> QED BY <1>1, <2>2, <3>2, <3>3, <3>4, <3>5, <3>6
  <2> HIDE DEF p, sorted
  <2> QED BY <2>8, <2>9
<1>8. order \in Bijection(D, D) /\ sorted(order)
  <2> HIDE DEF sorted
  <2> QED BY <1>7
<1> HIDE DEF order
<1>9. /\ \A k \in D : order[k] \in D
      /\ \A j, k \in D : order[j] = order[k] => j = k
      /\ \A k \in D : \E j \in D : order[j] = k
  BY <1>8 DEF Bijection, Injection, Surjection, IsInjective
<1>10. \A k \in D : s[k] = all[order[k]] /\ s[k] \in Nat /\ s[k] > 0 /\ s[k] < n
  BY <1>5, <1>9
<1>11. s \in Seq(Nat) /\ Len(s) = m + 1
  <2>1. s \in [1..(m + 1) -> Nat]
    BY <1>10
  <2> HIDE DEF s
  <2> QED BY <1>1, <2>1, LenProperties
<1>12. \A j, k \in D : j < k => s[j] < s[k]
  <2> SUFFICES ASSUME NEW j \in D, NEW k \in D, j < k PROVE s[j] < s[k]
    OBVIOUS
  <2>1. s[j] <= s[k]
    BY <1>8, <1>10
  <2>2. s[j] # s[k]
    <3>1. order[j] # order[k] /\ order[j] \in D /\ order[k] \in D
      BY <1>1, <1>9
    <3> QED BY <1>6, <1>10, <3>1
  <2> HIDE DEF s
  <2> QED BY <1>10, <2>1, <2>2
<1>13. PointSet(s) = PointSet(q) \cup {v}
  <2>1. ASSUME NEW x \in PointSet(s) PROVE x \in PointSet(q) \cup {v}
    <3>1. PICK k \in D : x = all[order[k]]
      BY <1>10, <1>11 DEF PointSet
    <3>2. order[k] = m + 1 \/ order[k] \in 1..m
      BY <1>4, <1>9
    <3> QED BY <1>2, <3>1, <3>2 DEF PointSet
  <2>2. ASSUME NEW k \in D PROVE all[k] \in PointSet(s)
    <3>1. PICK j \in D : order[j] = k
      BY <1>9
    <3> QED BY <1>10, <1>11, <3>1 DEF PointSet
  <2>3. \A k \in 1..m : k \in D /\ all[k] = q[k]
    BY <1>1, <1>2
  <2>4. m + 1 \in D /\ all[m + 1] = v
    BY <1>1, <1>2
  <2>5. v \in PointSet(s)
    BY <2>2, <2>4
  <2>6. PointSet(q) \subseteq PointSet(s)
    <3>1. \A k \in 1..m : q[k] \in PointSet(s)
      BY <2>2, <2>3
    <3> QED BY <3>1 DEF PointSet
  <2> QED BY <2>1, <2>5, <2>6
<1> HIDE DEF s
<1>14. Points(s, n)
  BY <1>10, <1>11, <1>12 DEF Points
<1> QED BY <1>3, <1>11, <1>13, <1>14

(* Block s..e - 1 between the points of the set R of a store of n tokens.  *)
BlockOf(R, n, s, e) ==
    /\ s \in {0} \cup R
    /\ \/ e \in R /\ s < e /\ \A r \in R : ~(s < r /\ r < e)
       \/ e = n - 1 /\ \A r \in R : r <= s

(* The blocks are those between points that follow each other.             *)
LEMMA BlockEndsAre ==
    ASSUME lz77Size \in Nat, NEW q, Points(q, lz77Size)
    PROVE  /\ \A b \in BlockEnds(q) : b = <<b[1], b[2]>> /\ BlockOf(PointSet(q), lz77Size, b[1], b[2])
           /\ \A s, e : BlockOf(PointSet(q), lz77Size, s, e) => <<s, e>> \in BlockEnds(q)
<1> DEFINE m == Len(q)
           s(k) == IF k = 0 THEN 0 ELSE q[k]
           e(k) == IF k = m THEN lz77Size - 1 ELSE q[k + 1]
<1>1. q \in Seq(Nat) /\ m \in Nat /\ \A k \in 1..m : q[k] \in Nat /\ q[k] > 0
  BY DEF Points
<1>2. BlockEnds(q) = {<<s(k), e(k)>> : k \in 0..m}
  BY DEF BlockEnds
<1>3. \A j, k \in 1..m : j <= k => q[j] <= q[k]
  <2> SUFFICES ASSUME NEW j \in 1..m, NEW k \in 1..m, j <= k PROVE q[j] <= q[k]
    OBVIOUS
  <2>1. j = k \/ j < k
    BY <1>1
  <2> QED BY <1>1, <2>1 DEF Points
<1>4. ASSUME NEW k \in 0..m PROVE BlockOf(PointSet(q), lz77Size, s(k), e(k))
  <2>1. s(k) \in {0} \cup PointSet(q)
    BY <1>1 DEF PointSet
  <2>2. CASE k = m
    <3>1. \A j \in 1..m : q[j] <= s(k)
      BY <1>1, <1>3, <2>2
    <3> QED BY <2>1, <2>2, <3>1 DEF BlockOf, PointSet
  <2>3. CASE k # m
    <3>1. k + 1 \in 1..m /\ e(k) = q[k + 1]
      BY <1>1, <2>3
    <3>2. s(k) < q[k + 1]
      BY <1>1, <3>1 DEF Points
    <3>3. ASSUME NEW j \in 1..m, s(k) < q[j], q[j] < q[k + 1] PROVE FALSE
      <4>1. ~(k + 1 <= j)
        BY <1>1, <1>3, <3>1, <3>3
      <4>2. k # 0 /\ k \in 1..m /\ j <= k
        BY <1>1, <4>1
      <4> QED BY <1>1, <1>3, <3>3, <4>2
    <3>4. \A r \in PointSet(q) : ~(s(k) < r /\ r < q[k + 1])
      BY <3>3 DEF PointSet
    <3>5. q[k + 1] \in PointSet(q)
      BY <3>1 DEF PointSet
    <3> HIDE DEF s, e
    <3> QED BY <2>1, <3>1, <3>2, <3>4, <3>5 DEF BlockOf
  <2> QED BY <2>2, <2>3
<1>5. ASSUME NEW a, NEW b, BlockOf(PointSet(q), lz77Size, a, b) PROVE <<a, b>> \in BlockEnds(q)
  <2>1. PICK k \in 0..m : a = s(k)
    <3>1. CASE a = 0
      <4>1. 0 \in 0..m /\ s(0) = 0
        BY <1>1
      <4> QED BY <3>1, <4>1
    <3>2. CASE a # 0
      <4>1. PICK j \in 1..m : a = q[j]
        BY <1>5, <3>2 DEF BlockOf, PointSet
      <4>2. j \in 0..m /\ s(j) = q[j]
        BY <1>1
      <4> QED BY <4>1, <4>2
    <3> QED BY <3>1, <3>2
  <2>2. b = e(k)
    <3>1. CASE k = m
      <4>1. \A r \in PointSet(q) : r <= a /\ r \in Nat
        BY <1>1, <1>3, <2>1, <3>1 DEF PointSet
      <4>2. a \in Nat
        BY <1>1, <2>1
      <4>3. ~(b \in PointSet(q) /\ a < b)
        BY <4>1, <4>2
      <4> QED BY <1>5, <3>1, <4>3 DEF BlockOf
    <3>2. CASE k # m
      <4>1. k + 1 \in 1..m /\ e(k) = q[k + 1] /\ q[k + 1] \in PointSet(q)
        BY <1>1, <3>2 DEF PointSet
      <4>2. a < q[k + 1] /\ a \in Nat /\ q[k + 1] \in Nat
        BY <1>1, <2>1, <4>1 DEF Points
      <4>3. ~ \A r \in PointSet(q) : r <= a
        BY <4>1, <4>2
      <4>4. PICK j \in 1..m : b = q[j] /\ a < q[j]
        BY <1>5, <4>3 DEF BlockOf, PointSet
      <4>5. ~(q[k + 1] < b)
        BY <1>5, <4>1, <4>2, <4>3 DEF BlockOf
      <4>6. ~(j <= k)
        <5>1. j <= k => k \in 1..m /\ q[j] <= q[k] /\ a = q[k]
          BY <1>1, <1>3, <2>1
        <5> QED BY <1>1, <4>2, <4>4, <5>1
      <4>7. k + 1 <= j
        BY <1>1, <4>6
      <4>8. q[k + 1] <= q[j]
        BY <1>3, <4>1, <4>7
      <4> QED BY <1>1, <4>1, <4>2, <4>4, <4>5, <4>8
    <3> QED BY <3>1, <3>2
  <2> QED BY <1>2, <2>1, <2>2
<1> HIDE DEF s, e
<1> QED BY <1>2, <1>4, <1>5

(* Of blocks one is the largest.                                           *)
LEMMA LargestIs ==
    ASSUME NEW n \in Nat, NEW S, S # {}, \A b \in S : b[1] \in 0..n /\ b[2] \in 0..n
    PROVE  Largest(S) \in S /\ \A o \in S : o[2] - o[1] <= Largest(S)[2] - Largest(S)[1]
<1> DEFINE Short == {n - (b[2] - b[1]) : b \in S}
<1>1. PICK w \in Short : \A x \in Short : w <= x
  <2>1. \A b \in S : n - (b[2] - b[1]) \in Nat
    OBVIOUS
  <2>2. Short \in SUBSET Nat /\ Short # {}
    BY <2>1
  <2> HIDE DEF Short
  <2> QED BY <2>2, LeastElement
<1> DEFINE T == {b \in S : n - (b[2] - b[1]) = w}
           Starts == {b[1] : b \in T}
<1>2. PICK a \in Starts : \A x \in Starts : a <= x
  <2>1. Starts \in SUBSET Nat /\ Starts # {}
    BY <1>1
  <2> HIDE DEF Starts
  <2> QED BY <2>1, LeastElement
<1>3. PICK b \in S : n - (b[2] - b[1]) = w /\ b[1] = a
  BY <1>2
<1>4. ASSUME NEW o \in S
      PROVE \/ b[2] - b[1] > o[2] - o[1]
            \/ b[2] - b[1] = o[2] - o[1] /\ b[1] <= o[1]
  <2>1. w <= n - (o[2] - o[1])
    BY <1>1
  <2>2. n - (o[2] - o[1]) = w => a <= o[1]
    BY <1>2
  <2> QED BY <1>3, <2>1, <2>2
<1> HIDE DEF T, Starts, Short
<1>5. /\ Largest(S) \in S
      /\ \A o \in S : \/ Largest(S)[2] - Largest(S)[1] > o[2] - o[1]
                      \/ Largest(S)[2] - Largest(S)[1] = o[2] - o[1] /\ Largest(S)[1] <= o[1]
  BY <1>4 DEF Largest
<1> QED BY <1>5

(* What the walk has located of the points before token k.                 *)
LocatedUpTo(w, q, k) ==
    /\ w \in Seq({ByteAt(j) : j \in Nat}) /\ Len(w) <= Len(q)
    /\ \A i \in 1..Len(w) : w[i] = ByteAt(q[i]) /\ q[i] < k
    /\ \A i \in 1..Len(q) : i > Len(w) => q[i] >= k

(* The walk over the tokens finds each point.                              *)
LEMMA LocateFinds ==
    ASSUME lz77Size \in Nat, Points(splitPoints, lz77Size), Locate
    PROVE  result' = [k \in 1..Len(splitPoints) |-> ByteAt(splitPoints[k])]
<1> DEFINE n == lz77Size
           q == splitPoints
           V == Seq({ByteAt(j) : j \in Nat})
           turn(w, k) == LET next == Len(w) + 1
                         IN  IF next <= Len(q) /\ q[next] = k - 1
                             THEN Append(w, ByteAt(k - 1))
                             ELSE w
           body(f) == [k \in 0..n |-> IF k = 0 THEN <<>> ELSE turn(f[k - 1], k)]
           walk == CHOOSE f : f = body(f)
           step == [k \in 1..n |-> [w \in V |-> turn(w, k)]]
<1>1. result' = walk[n]
  BY DEF Locate
<1>2. \A k \in 1..n : \A w \in V : turn(w, k) \in V
  <2> SUFFICES ASSUME NEW k \in 1..n, NEW w \in V PROVE turn(w, k) \in V
    OBVIOUS
  <2>1. k - 1 \in Nat
    OBVIOUS
  <2>2. ByteAt(k - 1) \in {ByteAt(j) : j \in Nat}
    BY <2>1
  <2>3. Append(w, ByteAt(k - 1)) \in V
    BY <2>2, AppendProperties
  <2> QED BY <2>3
<1>3. q \in Seq(Nat) /\ Len(q) \in Nat /\ <<>> \in V /\ n \in Nat
  BY DEF Points
<1> HIDE DEF turn
<1>4. step \in [1..n -> [V -> V]]
  BY <1>2
<1>5. \E f : f \in [0..n -> V] /\ f = body(f)
  <2> HIDE DEF V
  <2>1. HasRecursion(V, n, <<>>, step)
    <3> HIDE DEF step
    <3> QED BY <1>3, <1>4, RecursionDefines
  <2>2. PICK f : IsRecursion(f, V, n, <<>>, step)
    BY <2>1 DEF HasRecursion
  <2>3. f \in [0..n -> V] /\ f[0] = <<>> /\ \A k \in 1..n : f[k] = step[k][f[k - 1]]
    BY <2>2 DEF IsRecursion
  <2>4. \A k \in 0..n : f[k] = IF k = 0 THEN <<>> ELSE turn(f[k - 1], k)
    <3> SUFFICES ASSUME NEW k \in 0..n, k # 0 PROVE f[k] = turn(f[k - 1], k)
      BY <2>3
    <3>1. k \in 1..n /\ k - 1 \in 0..n
      BY <1>3
    <3>2. f[k - 1] \in V
      BY <2>3, <3>1
    <3> QED BY <2>3, <3>1, <3>2
  <2> QED BY <2>3, <2>4
<1>6. walk = body(walk)
  BY <1>5
<1> HIDE DEF walk
<1>7. walk[0] = <<>> /\ \A k \in 1..n : walk[k] = turn(walk[k - 1], k)
  <2>1. \A k \in 0..n : walk[k] = IF k = 0 THEN <<>> ELSE turn(walk[k - 1], k)
    BY <1>6
  <2>2. 0 \in 0..n /\ \A k \in 1..n : k \in 0..n /\ k # 0
    BY <1>3
  <2> QED BY <2>1, <2>2
<1> DEFINE S == {k \in 0..n : LocatedUpTo(walk[k], q, k)}
<1>8. 0 \in S
  <2>1. LocatedUpTo(<<>>, q, 0)
    <3>1. Len(<<>>) = 0 /\ \A i \in 1..Len(q) : q[i] >= 0
      BY <1>3 DEF Points
    <3> QED BY <1>3, <3>1 DEF LocatedUpTo
  <2> QED BY <1>3, <1>7, <2>1
<1>9. ASSUME NEW k \in 0..(n - 1), k \in S PROVE k + 1 \in S
  <2> DEFINE w == walk[k]
             x == walk[k + 1]
  <2>1. k + 1 \in 1..n /\ (k + 1) - 1 = k /\ k \in Nat
    BY <1>3
  <2>2. /\ w \in V /\ Len(w) <= Len(q) /\ Len(w) \in Nat
        /\ \A i \in 1..Len(w) : w[i] = ByteAt(q[i]) /\ q[i] < k
        /\ \A i \in 1..Len(q) : i > Len(w) => q[i] >= k
    BY <1>9, LenProperties DEF LocatedUpTo
  <2>3. x = IF Len(w) + 1 <= Len(q) /\ q[Len(w) + 1] = k THEN Append(w, ByteAt(k)) ELSE w
    BY <1>7, <2>1 DEF turn
  <2> SUFFICES LocatedUpTo(x, q, k + 1)
    BY <2>1
  <2> HIDE DEF w, x
  <2>4. \A i \in 1..Len(q) : q[i] \in Nat
    BY <1>3
  <2>5. CASE Len(w) + 1 <= Len(q) /\ q[Len(w) + 1] = k
    <3>1. ByteAt(k) \in {ByteAt(j) : j \in Nat}
      BY <2>1
    <3>2. x = Append(w, ByteAt(k)) /\ x \in V /\ Len(x) = Len(w) + 1
          /\ x[Len(w) + 1] = ByteAt(k) /\ \A i \in 1..Len(w) : x[i] = w[i]
      BY <2>2, <2>3, <2>5, <3>1, AppendProperties
    <3>3. \A i \in 1..Len(x) : x[i] = ByteAt(q[i]) /\ q[i] < k + 1
      <4> SUFFICES ASSUME NEW i \in 1..Len(x) PROVE x[i] = ByteAt(q[i]) /\ q[i] < k + 1
        OBVIOUS
      <4>1. i = Len(w) + 1 \/ i \in 1..Len(w)
        BY <2>2, <3>2
      <4>2. CASE i = Len(w) + 1
        BY <2>1, <2>5, <3>2, <4>2
      <4>3. CASE i \in 1..Len(w)
        <5>1. i \in 1..Len(q)
          BY <1>3, <2>2, <4>3
        <5>2. x[i] = ByteAt(q[i]) /\ q[i] < k /\ q[i] \in Nat
          BY <2>2, <2>4, <3>2, <4>3, <5>1
        <5> QED BY <2>1, <5>2
      <4> QED BY <4>1, <4>2, <4>3
    <3>4. \A i \in 1..Len(q) : i > Len(x) => q[i] >= k + 1
      <4> SUFFICES ASSUME NEW i \in 1..Len(q), i > Len(x) PROVE q[i] >= k + 1
        OBVIOUS
      <4>1. Len(w) + 1 \in 1..Len(q) /\ Len(w) + 1 < i
        BY <1>3, <2>2, <2>5, <3>2
      <4>2. q[Len(w) + 1] < q[i]
        BY <4>1 DEF Points
      <4> QED BY <2>1, <2>4, <2>5, <4>2
    <3> QED BY <1>3, <2>2, <2>5, <3>2, <3>3, <3>4 DEF LocatedUpTo
  <2>6. CASE ~(Len(w) + 1 <= Len(q) /\ q[Len(w) + 1] = k)
    <3>1. x = w
      BY <2>3, <2>6
    <3>2. \A i \in 1..Len(w) : q[i] < k + 1
      <4>1. \A i \in 1..Len(w) : i \in 1..Len(q)
        BY <1>3, <2>2
      <4> QED BY <2>1, <2>2, <2>4, <4>1
    <3>3. \A i \in 1..Len(q) : i > Len(w) => q[i] >= k + 1
      <4> SUFFICES ASSUME NEW i \in 1..Len(q), i > Len(w) PROVE q[i] >= k + 1
        OBVIOUS
      <4>1. Len(w) + 1 \in 1..Len(q) /\ Len(w) + 1 <= Len(q)
        BY <1>3, <2>2
      <4>2. q[Len(w) + 1] > k
        BY <2>1, <2>2, <2>4, <2>6, <4>1
      <4>3. i = Len(w) + 1 \/ q[Len(w) + 1] < q[i]
        BY <1>3, <2>2, <4>1 DEF Points
      <4> QED BY <2>1, <2>4, <4>1, <4>2, <4>3
    <3> QED BY <2>2, <3>1, <3>2, <3>3 DEF LocatedUpTo
  <2> QED BY <2>5, <2>6
<1> HIDE DEF S
<1>10. 0..n \subseteq S
  BY <1>3, <1>8, <1>9, SetInductionUpTo
<1>11. LocatedUpTo(walk[n], q, n)
  BY <1>3, <1>10 DEF S
<1> DEFINE w == walk[n]
<1>12. w \in V /\ Len(w) \in Nat /\ Len(w) = Len(q)
  <2>1. w \in V /\ Len(w) \in Nat /\ Len(w) <= Len(q)
    BY <1>11, LenProperties DEF LocatedUpTo
  <2>2. Len(w) < Len(q) => q[Len(q)] >= n /\ q[Len(q)] < n /\ q[Len(q)] \in Nat
    BY <1>3, <1>11, <2>1 DEF LocatedUpTo, Points
  <2> QED BY <1>3, <2>1, <2>2
<1>13. \A i \in 1..Len(q) : w[i] = ByteAt(q[i])
  BY <1>11, <1>12 DEF LocatedUpTo
<1> HIDE DEF w
<1>14. w = [k \in 1..Len(q) |-> ByteAt(q[k])]
  <2>1. w = [i \in 1..Len(w) |-> w[i]]
    BY <1>12
  <2> QED BY <1>12, <1>13, <2>1
<1> QED BY <1>1, <1>14 DEF w

-----------------------------------------------------------------------------
(* A block with these costs is not worth splitting.                        *)
Whole(c, s, e) ==
    LET m == FindMinimum([k \in (s + 1)..(e - 1) |-> c[s, k] + c[k, e]], s + 1, e)
    IN  m.best > c[s, e] \/ m.pos = s + 1

(* The end of a block of the points q up to which it is looked at.         *)
EndOf(q, n, e) == IF Len(q) = 0 THEN n ELSE e

(* The call, the points, and what is known of them. *)
SplitterType ==
    /\ lz77Size \in Sizes /\ lz77Size \in Nat
    /\ cost \in Costs(lz77Size) /\ maxBlocks \in Int
    /\ pc \in {"split", "locate", "return"}
    /\ Points(splitPoints, lz77Size)
    /\ numBlocks = Len(splitPoints) + 1
    /\ maxBlocks > 0 => numBlocks <= maxBlocks

(* Each block that is done is the one that was looked at, whatever was     *)
(* split behind it.                                                        *)
DoneIsWhole ==
    /\ done \subseteq {0} \cup PointSet(splitPoints)
    /\ \A s, e : s \in done /\ BlockOf(PointSet(splitPoints), lz77Size, s, e) =>
          Whole(cost, s, EndOf(splitPoints, lz77Size, e))

(* The block that is looked at next, and those that are left at the end. *)
Looking ==
    /\ pc = "split" =>
          /\ lstart \notin done /\ lend - lstart >= MinSplit /\ Allowed(numBlocks)
          /\ lstart \in Nat /\ lend \in Nat /\ lend <= lz77Size
          /\ IF Len(splitPoints) = 0 THEN lstart = 0 /\ lend = lz77Size
             ELSE BlockOf(PointSet(splitPoints), lz77Size, lstart, lend)
    /\ pc # "split" /\ lz77Size >= MinSplit /\ Allowed(numBlocks) =>
          \A s, e : BlockOf(PointSet(splitPoints), lz77Size, s, e) /\ e - s >= MinSplit => s \in done

Located ==
    pc = "return" => result = [k \in 1..Len(splitPoints) |-> ByteAt(splitPoints[k])]

SplitterInv == SplitterType /\ DoneIsWhole /\ Looking /\ Located

(* The cheapest place to split a block lies within it. *)
LEMMA FoundIs ==
    ASSUME SplitterType, lstart \in Nat, lend \in Nat, lend - lstart >= MinSplit,
           lend <= lz77Size
    PROVE  /\ Found.pos \in (lstart + 1)..(lend - 1)
           /\ ~WorthSplitting => Whole(cost, lstart, lend)
<1> DEFINE f == [k \in (lstart + 1)..(lend - 1) |-> cost[lstart, k] + cost[k, lend]]
<1>1. MinSplit \in Nat /\ MinSplit >= 3
  BY SplitterAssumption
<1>2. \A a, b \in 0..lz77Size : a < b => cost[a, b] \in Nat
  BY CostsAssumption DEF SplitterType
<1>3. \A k \in (lstart + 1)..(lend - 1) : f[k] \in Nat
  <2> SUFFICES ASSUME NEW k \in (lstart + 1)..(lend - 1)
               PROVE  f[k] \in Nat
    OBVIOUS
  <2>1. /\ lstart \in 0..lz77Size /\ k \in 0..lz77Size /\ lend \in 0..lz77Size
        /\ lstart < k /\ k < lend
    BY DEF SplitterType
  <2> DEFINE x == cost[lstart, k]
             y == cost[k, lend]
  <2>2. x \in Nat /\ y \in Nat
    BY <1>2, <2>1
  <2>3. f[k] = x + y
    OBVIOUS
  <2> HIDE DEF f, x, y
  <2> QED BY <2>2, <2>3
<1>4. Found = FindMinimum(f, lstart + 1, lend)
  BY DEF Found, SplitCost
<1>5. cost[lstart, lend] \in Nat
  <2>1. lstart \in 0..lz77Size /\ lend \in 0..lz77Size /\ lstart < lend
    BY <1>1 DEF SplitterType
  <2> QED BY <1>2, <2>1
<1>6. Found.best \in Nat /\ (Found.pos = lstart + 1 \/ Found.pos \in (lstart + 1)..(lend - 1))
  <2>1. lstart + 1 \in Nat /\ lstart + 1 <= lend
    BY <1>1
  <2> HIDE DEF f
  <2> QED BY <1>3, <1>4, <2>1, MinimumIs
<1>7. Found.pos \in (lstart + 1)..(lend - 1)
  BY <1>1, <1>6
<1>8. Whole(cost, lstart, lend) <=> Found.best > cost[lstart, lend] \/ Found.pos = lstart + 1
  BY <1>4 DEF Whole
<1>9. ~WorthSplitting => Found.best > cost[lstart, lend] \/ Found.pos = lstart + 1
  <2>1. Found.pos # lend
    BY <1>7
  <2>2. ~(Found.best <= cost[lstart, lend]) => Found.best > cost[lstart, lend]
    <3> DEFINE x == Found.best
               y == cost[lstart, lend]
    <3>1. x \in Nat /\ y \in Nat
      BY <1>5, <1>6
    <3> HIDE DEF x, y
    <3>2. ~(x <= y) => x > y
      BY <3>1
    <3> QED BY <3>2 DEF x, y
  <2> QED BY <2>1, <2>2 DEF WorthSplitting
<1> QED BY <1>7, <1>8, <1>9

(* What the block taken next is, and what it means that none is taken.     *)
LEMMA NextBlockIs ==
    ASSUME lz77Size \in Nat, NEW q, Points(q, lz77Size), NEW d, NEW blocks,
           Len(q) = 0 => 0 \in d, NextBlock(d, q, blocks)
    PROVE  /\ pc' \in {"split", "locate"}
           /\ pc' = "split" =>
                 /\ lstart' \notin d /\ lend' - lstart' >= MinSplit /\ Allowed(blocks)
                 /\ lstart' \in Nat /\ lend' \in Nat /\ lend' <= lz77Size
                 /\ Len(q) # 0 /\ BlockOf(PointSet(q), lz77Size, lstart', lend')
           /\ pc' # "split" /\ Allowed(blocks) =>
                 \A s, e : BlockOf(PointSet(q), lz77Size, s, e) /\ e - s >= MinSplit => s \in d
<1> DEFINE left == Splittable(d, q)
<1>1. /\ lstart' = IF left = {} THEN 0 ELSE Largest(left)[1]
      /\ lend' = IF left = {} THEN 0 ELSE Largest(left)[2]
      /\ pc' = IF left # {} /\ lend' - lstart' >= MinSplit /\ Allowed(blocks)
               THEN "split" ELSE "locate"
  BY DEF NextBlock
<1>2. MinSplit \in Nat /\ MinSplit >= 3
  BY SplitterAssumption
<1>3. left = {b \in BlockEnds(q) : b[1] \notin d /\ b[2] > b[1]}
  BY DEF Splittable
<1>4. \A b \in BlockEnds(q) : BlockOf(PointSet(q), lz77Size, b[1], b[2])
  BY BlockEndsAre
<1>5. \A r \in PointSet(q) : r \in Nat /\ r > 0 /\ r < lz77Size
  BY DEF Points, PointSet
<1>6. \A s, e : BlockOf(PointSet(q), lz77Size, s, e) => s \in Nat /\ e \in Int /\ e <= lz77Size
  BY <1>5 DEF BlockOf
<1> HIDE DEF left
<1>7. \A b \in left : b[1] \in 0..lz77Size /\ b[2] \in 0..lz77Size
  BY <1>3, <1>4, <1>6
<1>8. left # {} => /\ Largest(left) \in left
                   /\ \A o \in left : o[2] - o[1] <= Largest(left)[2] - Largest(left)[1]
  BY <1>7, LargestIs
<1>9. ASSUME pc' = "split"
      PROVE  /\ lstart' \notin d /\ lend' - lstart' >= MinSplit /\ Allowed(blocks)
             /\ lstart' \in Nat /\ lend' \in Nat /\ lend' <= lz77Size
             /\ Len(q) # 0 /\ BlockOf(PointSet(q), lz77Size, lstart', lend')
  <2>1. left # {} /\ lend' - lstart' >= MinSplit /\ Allowed(blocks)
    BY <1>1, <1>9
  <2>2. Largest(left) \in left /\ lstart' = Largest(left)[1] /\ lend' = Largest(left)[2]
    BY <1>1, <1>8, <2>1
  <2>3. lstart' \in 0..lz77Size /\ lend' \in 0..lz77Size /\ lstart' \notin d
        /\ BlockOf(PointSet(q), lz77Size, lstart', lend')
    BY <1>3, <1>4, <1>7, <2>2
  <2>4. Len(q) # 0
    <3> SUFFICES ASSUME Len(q) = 0 PROVE FALSE
      OBVIOUS
    <3>1. PointSet(q) = {} /\ 0 \in d
      BY DEF PointSet
    <3> QED BY <2>3, <3>1 DEF BlockOf
  <2> QED BY <2>1, <2>3, <2>4
<1>10. ASSUME pc' # "split", Allowed(blocks), NEW s, NEW e,
              BlockOf(PointSet(q), lz77Size, s, e), e - s >= MinSplit, s \notin d
       PROVE  FALSE
  <2>1. <<s, e>> \in BlockEnds(q)
    BY <1>10, BlockEndsAre
  <2>2. e > s /\ s \in Nat /\ e \in Int
    BY <1>2, <1>6, <1>10
  <2>3. <<s, e>> \in left
    BY <1>3, <1>10, <2>1, <2>2
  <2>4. e - s <= Largest(left)[2] - Largest(left)[1] /\ Largest(left) \in left
    BY <1>8, <2>3
  <2>5. lend' - lstart' >= MinSplit
    <3>1. lstart' = Largest(left)[1] /\ lend' = Largest(left)[2]
      BY <1>1, <2>3
    <3>2. lstart' \in 0..lz77Size /\ lend' \in 0..lz77Size
      BY <1>7, <2>4, <3>1
    <3> QED BY <1>2, <1>10, <2>2, <2>4, <3>1, <3>2
  <2> QED BY <1>1, <1>10, <2>3, <2>5
<1> QED BY <1>1, <1>9, <1>10

(* What is done does not depend on where the splitter is. *)
LEMMA DoneStays ==
    ASSUME DoneIsWhole, UNCHANGED <<done, splitPoints, lz77Size, cost>>
    PROVE  DoneIsWhole'
<1>1. done' \subseteq {0} \cup PointSet(splitPoints')
  BY DEF DoneIsWhole
<1>2. \A s, e : s \in done' /\ BlockOf(PointSet(splitPoints'), lz77Size', s, e) =>
         Whole(cost', s, EndOf(splitPoints', lz77Size', e))
  BY DEF DoneIsWhole
<1> QED BY <1>1, <1>2 DEF DoneIsWhole, PointSet, BlockOf, Whole, EndOf

(* The splitter begins with the whole store as one block. *)
LEMMA SplitterBegins == SplitterInit => SplitterInv
<1> SUFFICES ASSUME SplitterInit PROVE SplitterInv
  OBVIOUS
<1>1. lz77Size \in Nat /\ lz77Size \in Sizes /\ MinSplit \in Nat /\ maxBlocks \in Int
  BY SplitterAssumption DEF SplitterInit
<1>2. Len(splitPoints) = 0 /\ Points(splitPoints, lz77Size)
  BY DEF SplitterInit, Points
<1>3. SplitterType
  BY <1>1, <1>2 DEF SplitterInit, SplitterType, Allowed
<1>4. DoneIsWhole
  BY DEF SplitterInit, DoneIsWhole
<1>5. Looking
  <2>1. pc = "split" => lz77Size >= MinSplit /\ Allowed(1)
    BY <1>1 DEF SplitterInit
  <2>2. pc # "split" => ~(lz77Size >= MinSplit /\ Allowed(1))
    BY <1>1 DEF SplitterInit
  <2> QED BY <1>1, <1>2, <2>1, <2>2 DEF SplitterInit, Looking
<1>6. Located
  BY DEF SplitterInit, Located
<1> QED BY <1>3, <1>4, <1>5, <1>6 DEF SplitterInv

(* A split block is not done, and what was done stays as it was. *)
LEMMA SplitKeeps ==
    ASSUME SplitterInv, Split
    PROVE  SplitterInv'
<1> DEFINE R == PointSet(splitPoints)
           q == AddSorted(Found.pos, splitPoints)
           p == Found.pos
           n == lz77Size
<1>1. /\ pc = "split" /\ splitPoints' = q /\ numBlocks' = numBlocks + 1
      /\ done' = done /\ lz77Size' = n /\ cost' = cost /\ maxBlocks' = maxBlocks
      /\ NextBlock(done, q, numBlocks')
  BY DEF Split, call
<1>2. /\ SplitterType /\ DoneIsWhole /\ n \in Nat /\ Points(splitPoints, n)
      /\ lstart \notin done /\ lend - lstart >= MinSplit /\ Allowed(numBlocks)
      /\ lstart \in Nat /\ lend \in Nat /\ lend <= n
      /\ IF Len(splitPoints) = 0 THEN lstart = 0 /\ lend = n ELSE BlockOf(R, n, lstart, lend)
  BY <1>1 DEF SplitterInv, SplitterType, Looking
<1>3. p \in (lstart + 1)..(lend - 1) /\ p \in Nat /\ lstart < p /\ p < lend /\ p > 0 /\ p < n
  <2>1. p \in (lstart + 1)..(lend - 1)
    BY <1>2, FoundIs
  <2> HIDE DEF p
  <2> QED BY <1>2, <2>1
<1> HIDE DEF p
<1>4. \A r \in R : r \in Nat /\ r > 0 /\ r < n
  BY <1>2 DEF Points, PointSet
<1>5. Len(splitPoints) = 0 => R = {}
  BY DEF PointSet
<1>6. lstart \in {0} \cup R /\ \A r \in R : ~(lstart < r /\ r < lend)
  <2>1. CASE Len(splitPoints) = 0
    BY <1>2, <1>5, <2>1
  <2>2. CASE Len(splitPoints) # 0
    <3>1. BlockOf(R, n, lstart, lend)
      BY <1>2, <2>2
    <3> QED BY <1>2, <1>4, <3>1 DEF BlockOf
  <2> QED BY <2>1, <2>2
<1>7. p \notin {0} \cup R
  BY <1>3, <1>6
<1>8. Points(q, n) /\ Len(q) = Len(splitPoints) + 1 /\ PointSet(q) = R \cup {p}
  BY <1>2, <1>3, <1>7, AddSortedAdds DEF p
<1>9. Len(splitPoints) \in Nat
  BY <1>2 DEF Points
<1> HIDE DEF q
<1>10. /\ pc' \in {"split", "locate"}
       /\ pc' = "split" =>
             /\ lstart' \notin done /\ lend' - lstart' >= MinSplit /\ Allowed(numBlocks')
             /\ lstart' \in Nat /\ lend' \in Nat /\ lend' <= n
             /\ Len(q) # 0 /\ BlockOf(PointSet(q), n, lstart', lend')
       /\ pc' # "split" /\ Allowed(numBlocks') =>
             \A s, e : BlockOf(PointSet(q), n, s, e) /\ e - s >= MinSplit => s \in done
  <2>1. Len(q) # 0
    BY <1>8, <1>9
  <2> QED BY <1>1, <1>2, <1>8, <2>1, NextBlockIs
<1>11. SplitterType'
  <2>1. numBlocks = Len(splitPoints) + 1 /\ numBlocks' = Len(splitPoints') + 1
    BY <1>1, <1>2, <1>8 DEF SplitterType
  <2>2. maxBlocks' > 0 => numBlocks' <= maxBlocks'
    BY <1>1, <1>2, <1>9, <2>1 DEF Allowed, SplitterType
  <2>3. Points(splitPoints', lz77Size')
    BY <1>1, <1>8
  <2>4. Points(splitPoints, lz77Size)'
    BY <2>3 DEF Points
  <2> QED BY <1>1, <1>2, <1>10, <2>1, <2>2, <2>4 DEF SplitterType
<1>12. DoneIsWhole'
  <2>1. done' \subseteq {0} \cup PointSet(splitPoints')
    BY <1>1, <1>2, <1>8 DEF DoneIsWhole
  <2>2. ASSUME NEW s, NEW e, s \in done, BlockOf(PointSet(q), n, s, e)
        PROVE  Whole(cost, s, EndOf(q, n, e))
    <3>1. s \in {0} \cup R /\ s # lstart
      BY <1>2, <2>2 DEF DoneIsWhole
    <3>2. Len(splitPoints) # 0
      BY <1>2, <1>5, <3>1
    <3>3. BlockOf(R, n, lstart, lend)
      BY <1>2, <3>2
    <3>4. BlockOf(R, n, s, e)
      <4>1. s \in Nat
        BY <1>4, <3>1
      <4>2. CASE e \in R \cup {p} /\ s < e /\ \A r \in R \cup {p} : ~(s < r /\ r < e)
        <5>1. e # p
          <6> SUFFICES ASSUME e = p PROVE FALSE
            OBVIOUS
          <6>1. ~(s < lstart)
            BY <1>2, <1>3, <1>6, <4>1, <4>2
          <6>2. s > lstart
            BY <1>2, <3>1, <4>1, <6>1
          <6>3. s \in R
            BY <1>2, <3>1, <6>2
          <6> QED BY <1>2, <1>3, <1>6, <4>1, <4>2, <6>2, <6>3
        <5> QED BY <3>1, <4>2, <5>1 DEF BlockOf
      <4>3. CASE e = n - 1 /\ \A r \in R \cup {p} : r <= s
        BY <3>1, <4>3 DEF BlockOf
      <4> QED BY <1>8, <2>2, <4>2, <4>3 DEF BlockOf
    <3>5. Whole(cost, s, EndOf(splitPoints, n, e))
      BY <1>2, <2>2, <3>4 DEF DoneIsWhole
    <3>6. EndOf(splitPoints, n, e) = e /\ EndOf(q, n, e) = e
      BY <1>8, <1>9, <3>2 DEF EndOf
    <3> QED BY <3>5, <3>6
  <2>3. \A s, e : s \in done' /\ BlockOf(PointSet(splitPoints'), lz77Size', s, e) =>
           Whole(cost', s, EndOf(splitPoints', lz77Size', e))
    BY <1>1, <2>2
  <2> QED BY <2>1, <2>3 DEF DoneIsWhole, PointSet, BlockOf, Whole, EndOf
<1>13. Looking'
  <2>1. Len(splitPoints') # 0
    BY <1>1, <1>8, <1>9
  <2>2. PointSet(splitPoints)' = PointSet(q)
    BY <1>1 DEF PointSet
  <2>3. Allowed(numBlocks)' <=> Allowed(numBlocks')
    BY <1>1 DEF Allowed
  <2> QED BY <1>1, <1>10, <2>1, <2>2, <2>3 DEF Looking, BlockOf
<1>14. Located'
  BY <1>10 DEF Located
<1> QED BY <1>11, <1>12, <1>13, <1>14 DEF SplitterInv

(* A block that is marked done was not worth splitting. *)
LEMMA MarkDoneKeeps ==
    ASSUME SplitterInv, MarkDone
    PROVE  SplitterInv'
<1> DEFINE R == PointSet(splitPoints)
           n == lz77Size
<1>1. /\ pc = "split" /\ ~WorthSplitting /\ done' = done \cup {lstart}
      /\ splitPoints' = splitPoints /\ numBlocks' = numBlocks
      /\ lz77Size' = n /\ cost' = cost /\ maxBlocks' = maxBlocks
      /\ NextBlock(done', splitPoints, numBlocks)
  BY DEF MarkDone, call
<1>2. /\ SplitterType /\ DoneIsWhole /\ n \in Nat /\ Points(splitPoints, n)
      /\ lstart \notin done /\ lend - lstart >= MinSplit /\ Allowed(numBlocks)
      /\ lstart \in Nat /\ lend \in Nat /\ lend <= n
      /\ IF Len(splitPoints) = 0 THEN lstart = 0 /\ lend = n ELSE BlockOf(R, n, lstart, lend)
  BY <1>1 DEF SplitterInv, SplitterType, Looking
<1>3. Whole(cost, lstart, lend)
  BY <1>1, <1>2, FoundIs
<1>4. Len(splitPoints) = 0 => R = {}
  BY DEF PointSet
<1>5. \A r \in R : r \in Nat /\ r > 0 /\ r < n
  BY <1>2 DEF Points, PointSet
<1>6. /\ pc' \in {"split", "locate"}
      /\ pc' = "split" =>
            /\ lstart' \notin done' /\ lend' - lstart' >= MinSplit /\ Allowed(numBlocks)
            /\ lstart' \in Nat /\ lend' \in Nat /\ lend' <= n
            /\ Len(splitPoints) # 0 /\ BlockOf(R, n, lstart', lend')
      /\ pc' # "split" /\ Allowed(numBlocks) =>
            \A s, e : BlockOf(R, n, s, e) /\ e - s >= MinSplit => s \in done'
  <2>1. Len(splitPoints) = 0 => 0 \in done'
    BY <1>1, <1>2
  <2> QED BY <1>1, <1>2, <2>1, NextBlockIs
<1>7. SplitterType'
  <2>1. Points(splitPoints, lz77Size)'
    BY <1>1, <1>2 DEF Points
  <2> QED BY <1>1, <1>2, <1>6, <2>1 DEF SplitterType
<1>8. DoneIsWhole'
  <2>1. lstart \in {0} \cup R
    BY <1>2 DEF BlockOf
  <2>2. ASSUME NEW e, BlockOf(R, n, lstart, e) PROVE EndOf(splitPoints, n, e) = lend
    <3>1. CASE Len(splitPoints) = 0
      BY <1>2, <3>1 DEF EndOf
    <3>2. CASE Len(splitPoints) # 0
      <4>1. BlockOf(R, n, lstart, lend)
        BY <1>2, <3>2
      <4>2. e = lend
        BY <1>2, <1>5, <2>2, <4>1 DEF BlockOf
      <4> QED BY <3>2, <4>2 DEF EndOf
    <3> QED BY <3>1, <3>2
  <2>3. \A s, e : s \in done' /\ BlockOf(R, n, s, e) => Whole(cost, s, EndOf(splitPoints, n, e))
    <3> SUFFICES ASSUME NEW s, NEW e, s \in done', BlockOf(R, n, s, e)
                 PROVE  Whole(cost, s, EndOf(splitPoints, n, e))
      OBVIOUS
    <3>1. CASE s = lstart
      BY <1>3, <2>2, <3>1
    <3>2. CASE s \in done
      BY <1>2, <3>2 DEF DoneIsWhole
    <3> QED BY <1>1, <3>1, <3>2
  <2>4. done' \subseteq {0} \cup R
    BY <1>1, <1>2, <2>1 DEF DoneIsWhole
  <2>5. \A s, e : s \in done' /\ BlockOf(PointSet(splitPoints'), lz77Size', s, e) =>
           Whole(cost', s, EndOf(splitPoints', lz77Size', e))
    BY <1>1, <2>3
  <2>6. done' \subseteq {0} \cup PointSet(splitPoints')
    BY <1>1, <2>4
  <2> QED BY <2>5, <2>6 DEF DoneIsWhole, PointSet, BlockOf, Whole, EndOf
<1>9. Looking'
  <2>1. PointSet(splitPoints)' = R
    BY <1>1 DEF PointSet
  <2>2. Allowed(numBlocks)' <=> Allowed(numBlocks)
    BY <1>1 DEF Allowed
  <2> QED BY <1>1, <1>6, <2>1, <2>2 DEF Looking, BlockOf
<1>10. Located'
  BY <1>6 DEF Located
<1> QED BY <1>7, <1>8, <1>9, <1>10 DEF SplitterInv

(* The walk changes nothing but the result. *)
LEMMA LocateKeeps ==
    ASSUME SplitterInv, Locate
    PROVE  SplitterInv'
<1>1. /\ pc = "locate" /\ pc' = "return"
      /\ UNCHANGED <<lz77Size, cost, maxBlocks, lstart, lend, done, splitPoints, numBlocks>>
  BY DEF Locate, call
<1>2. result' = [k \in 1..Len(splitPoints) |-> ByteAt(splitPoints[k])]
  BY LocateFinds DEF SplitterInv, SplitterType
<1>3. SplitterType'
  BY <1>1 DEF SplitterInv, SplitterType, Points
<1>4. DoneIsWhole'
  BY <1>1, DoneStays DEF SplitterInv
<1>5. Looking'
  <2>1. Allowed(numBlocks)' <=> Allowed(numBlocks)
    BY <1>1 DEF Allowed
  <2>2. PointSet(splitPoints)' = PointSet(splitPoints)
    BY <1>1 DEF PointSet
  <2> QED BY <1>1, <2>1, <2>2 DEF SplitterInv, Looking, BlockOf
<1>6. Located'
  BY <1>1, <1>2 DEF Located
<1> QED BY <1>3, <1>4, <1>5, <1>6 DEF SplitterInv

(* Every step keeps the invariant. *)
LEMMA SplitterKeeps == SplitterInv /\ [SplitterNext]_splitterVars => SplitterInv'
<1> SUFFICES ASSUME SplitterInv, [SplitterNext]_splitterVars PROVE SplitterInv'
  OBVIOUS
<1>1. CASE UNCHANGED splitterVars
  <2>1. /\ UNCHANGED <<lz77Size, cost, maxBlocks, pc, lstart, lend, done, splitPoints, numBlocks>>
        /\ UNCHANGED result
    BY <1>1 DEF splitterVars
  <2>2. SplitterType'
    BY <2>1 DEF SplitterInv, SplitterType, Points
  <2>3. DoneIsWhole'
    BY <2>1, DoneStays DEF SplitterInv
  <2>4. Looking'
    <3>1. Allowed(numBlocks)' <=> Allowed(numBlocks)
      BY <2>1 DEF Allowed
    <3>2. PointSet(splitPoints)' = PointSet(splitPoints)
      BY <2>1 DEF PointSet
    <3> QED BY <2>1, <3>1, <3>2 DEF SplitterInv, Looking, BlockOf
  <2>5. Located'
    BY <2>1 DEF SplitterInv, Located
  <2> QED BY <2>2, <2>3, <2>4, <2>5 DEF SplitterInv
<1> QED BY <1>1, SplitKeeps, MarkDoneKeeps, LocateKeeps DEF SplitterNext, Returned

(* The invariant holds of every call of the splitter. *)
THEOREM SplitsWhatItLooksAt == SplitterSpec => []SplitterInv
<1> QED BY SplitterBegins, SplitterKeeps, PTL DEF SplitterSpec

(* The points increase within the store, the blocks are not more than      *)
(* allowed, and the walk finds each point (blockSplitWithScratch).         *)
THEOREM PointsStayInOrder == SplitterSpec => []PointsInOrder
<1>1. SplitterInv => PointsInOrder
  <2> SUFFICES ASSUME SplitterInv PROVE PointsInOrder
    OBVIOUS
  <2>1. SplitterType /\ Located /\ Points(splitPoints, lz77Size) /\ lz77Size \in Nat
        /\ splitPoints \in Seq(Nat) /\ Len(splitPoints) \in Nat
    BY DEF SplitterInv, SplitterType, Points
  <2>2. ASSUME NEW k \in 1..Len(splitPoints)
        PROVE  splitPoints[k] \in 1..(lz77Size - 1) /\ (k > 1 => splitPoints[k - 1] < splitPoints[k])
    <3>1. splitPoints[k] \in Nat /\ splitPoints[k] > 0 /\ splitPoints[k] < lz77Size
      BY <2>1 DEF Points
    <3>2. k > 1 => k - 1 \in 1..Len(splitPoints) /\ k - 1 < k
      BY <2>1
    <3>3. k > 1 => splitPoints[k - 1] < splitPoints[k]
      BY <3>2 DEF Points, SplitterInv, SplitterType
    <3>4. splitPoints[k] \in 1..(lz77Size - 1)
      BY <2>1, <3>1
    <3> QED BY <3>3, <3>4
  <2>3. maxBlocks > 0 => Len(splitPoints) + 1 <= maxBlocks
    BY <2>1 DEF SplitterType
  <2>4. pc = "return" => result = [k \in 1..Len(splitPoints) |-> ByteAt(splitPoints[k])]
    BY <2>1 DEF Located
  <2> QED BY <2>2, <2>3, <2>4 DEF PointsInOrder
<1> QED BY <1>1, SplitsWhatItLooksAt, PTL

(* Unless there are as many blocks as allowed, each block that is large    *)
(* enough was looked at and not worth splitting                            *)
(* (findLargestSplittableBlock).                                           *)
THEOREM NothingIsLeft == SplitterSpec => []NothingLeft
<1>1. SplitterInv => NothingLeft
  <2> SUFFICES ASSUME SplitterInv, pc # "split", lz77Size >= MinSplit, Allowed(numBlocks),
                      NEW b \in BlockEnds(splitPoints), b[2] - b[1] >= MinSplit
               PROVE  LET e == IF Len(splitPoints) = 0 THEN lz77Size ELSE b[2]
                          m == FindMinimum(SplitCost(b[1], e), b[1] + 1, e)
                      IN  m.best > cost[b[1], e] \/ m.pos = b[1] + 1
    BY DEF NothingLeft
  <2> DEFINE e == IF Len(splitPoints) = 0 THEN lz77Size ELSE b[2]
  <2>1. BlockOf(PointSet(splitPoints), lz77Size, b[1], b[2])
    BY BlockEndsAre DEF SplitterInv, SplitterType
  <2>2. b[1] \in done
    BY <2>1 DEF SplitterInv, Looking
  <2>3. Whole(cost, b[1], e)
    BY <2>1, <2>2 DEF SplitterInv, DoneIsWhole, EndOf
  <2> HIDE DEF e
  <2>4. LET m == FindMinimum(SplitCost(b[1], e), b[1] + 1, e)
        IN  m.best > cost[b[1], e] \/ m.pos = b[1] + 1
    BY <2>3 DEF Whole, SplitCost
  <2> QED BY <2>4 DEF e
<1> QED BY <1>1, SplitsWhatItLooksAt, PTL

=============================================================================
