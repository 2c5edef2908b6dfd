------------------------ MODULE DeflateParallelProofs ------------------------
(***************************************************************************)
(* The invariant IInv of DeflateParallel is inductive, so that it and the  *)
(* safety properties it implies hold for every input, part size, number of *)
(* workers, parser and block splitter; and the blocks written are those of *)
(* the abstract DeflateStream.  The order is: numbers and sequences, parts *)
(* and blocks, one lemma per step, the theorems.                           *)
(*                                                                         *)
(* The second half is what CompressParallel promises beyond a stream in    *)
(* order: the goroutines at work are no more than the workers of the call, *)
(* and the stream is the one the serial algorithm writes, whatever their   *)
(* number and the order in which they finish.                              *)
(***************************************************************************)
EXTENDS DeflateParallel, SequenceTheorems, FiniteSetTheorems, InductionFacts

(* Division by a part size leaves less than a part.                        *)
LEMMA DivisionBounds ==
    ASSUME NEW n \in Nat, NEW d \in Nat \ {0}
    PROVE  /\ n \div d \in Nat
           /\ (n \div d) * d <= n
           /\ n < (n \div d) * d + d
  OBVIOUS

(* Parts of the same size lie one behind the other.                        *)
LEMMA MultipleBelow ==
    ASSUME NEW a \in Nat, NEW b \in Nat, NEW d \in Nat \ {0}
    PROVE  /\ a * d \in Nat
           /\ (a + 1) * d = a * d + d
           /\ a < b => a * d + d <= b * d
           /\ a * d < b * d => a < b
  OBVIOUS

(* There are no more parts than bytes.                                     *)
LEMMA MultipleAbove ==
    ASSUME NEW a \in Nat, NEW d \in Nat \ {0}
    PROVE  a <= a * d
  OBVIOUS

(* Joining something that is not empty makes a store longer.               *)
LEMMA LongerSum ==
    ASSUME NEW x \in Nat, NEW y \in Nat, y > 0
    PROVE  x + y \in Nat /\ x + 1 \in Nat /\ x + 1 <= x + y /\ 0 < x + y
  OBVIOUS

(* The elements of a joined sequence.                                      *)
LEMMA ConcatElements ==
    ASSUME NEW S, NEW s \in Seq(S), NEW t \in Seq(S)
    PROVE  /\ s \o t \in Seq(S)
           /\ Len(s \o t) = Len(s) + Len(t)
           /\ \A n \in 1..Len(s) : (s \o t)[n] = s[n]
           /\ \A n \in (Len(s) + 1)..(Len(s) + Len(t)) :
                n - Len(s) \in 1..Len(t) /\ (s \o t)[n] = t[n - Len(s)]
  OBVIOUS

(* Joining to the empty store gives the store joined.                      *)
LEMMA EmptyConcat ==
    ASSUME NEW S, NEW s \in Seq(S)
    PROVE  <<>> \o s = s
  OBVIOUS

(* Length and elements of a sequence of cuts.                              *)
LEMMA NatElements ==
    ASSUME NEW s \in Seq(Nat)
    PROVE  Len(s) \in Nat /\ \A n \in 1..Len(s) : s[n] \in Nat
  OBVIOUS

(* Length and fields of the tokens of a store.                             *)
LEMMA TokenFields ==
    ASSUME NEW s \in Seq(Tokens)
    PROVE  /\ Len(s) \in Nat
           /\ s # <<>> => Len(s) > 0
           /\ \A n \in 1..Len(s) : s[n].pos \in Nat /\ s[n].len \in Nat
<1>1. ASSUME NEW n \in 1..Len(s) PROVE s[n].pos \in Nat /\ s[n].len \in Nat
  <2>1. s[n] \in Tokens
    OBVIOUS
  <2> QED BY <2>1 DEF Tokens
<1> QED BY <1>1

(* A range of a store is a store (addLZ77Block writes one).                *)
LEMMA SubSeqOfTokens ==
    ASSUME NEW s \in Seq(Tokens), NEW a \in 1..(Len(s) + 1), NEW b \in 0..Len(s)
    PROVE  SubSeq(s, a, b) \in Seq(Tokens)
  OBVIOUS

(* Stores of adjoining byte ranges join to a store of the whole range:     *)
(* what appendStore relies on when a part is put together from its blocks. *)
LEMMA CoversConcat ==
    ASSUME NEW s, NEW t, NEW a \in Nat, NEW b \in Nat, NEW c \in Nat,
           Covers(s, a, b), Covers(t, b, c)
    PROVE  Covers(s \o t, a, c)
<1> DEFINE u == s \o t
<1>0. s \in Seq(Tokens) /\ t \in Seq(Tokens) /\ s # <<>> /\ t # <<>>
  BY DEF Covers
<1>1. Len(s) \in Nat /\ Len(t) \in Nat /\ Len(s) > 0 /\ Len(t) > 0
  BY <1>0, TokenFields
<1>2. /\ u \in Seq(Tokens)
      /\ Len(u) = Len(s) + Len(t)
      /\ \A n \in 1..Len(s) : u[n] = s[n]
      /\ \A n \in (Len(s) + 1)..Len(u) : n - Len(s) \in 1..Len(t) /\ u[n] = t[n - Len(s)]
  BY <1>0, ConcatElements
<1>3. /\ \A n \in 1..Len(s) : s[n].pos \in Nat /\ s[n].len \in Nat
      /\ \A n \in 1..Len(t) : t[n].pos \in Nat /\ t[n].len \in Nat
  BY <1>0, TokenFields
<1> HIDE DEF u
<1>4. u # <<>> /\ u[1].pos = a /\ u[Len(u)].pos + u[Len(u)].len = c
  <2>1. Len(u) > 0 /\ 1 \in 1..Len(s) /\ Len(u) \in (Len(s) + 1)..Len(u) /\ Len(u) - Len(s) = Len(t)
    BY <1>1, <1>2
  <2>2. u[1] = s[1] /\ u[Len(u)] = t[Len(t)]
    BY <2>1, <1>2
  <2> QED BY <2>1, <2>2 DEF Covers
<1>5. ASSUME NEW n \in 1..Len(u) PROVE u[n].len > 0
  <2>1. CASE n \in 1..Len(s)
    BY <2>1, <1>2 DEF Covers
  <2>2. CASE n \in (Len(s) + 1)..Len(u)
    BY <2>2, <1>2 DEF Covers
  <2> QED BY <2>1, <2>2, <1>1, <1>2
<1>6. ASSUME NEW n \in 1..(Len(u) - 1)
      PROVE  u[n + 1].pos = u[n].pos + u[n].len
  <2>1. CASE n < Len(s)
    <3>1. n \in 1..Len(s) /\ n + 1 \in 1..Len(s) /\ n \in 1..(Len(s) - 1)
      BY <2>1, <1>1
    <3> QED BY <3>1, <1>2 DEF Covers
  <2>2. CASE n = Len(s)
    <3>1. n \in 1..Len(s) /\ n + 1 \in (Len(s) + 1)..Len(u) /\ n + 1 - Len(s) = 1
      BY <2>2, <1>1, <1>2
    <3>2. u[n] = s[Len(s)]
      BY <3>1, <2>2, <1>2
    <3>3. u[n + 1] = t[1]
      BY <3>1, <1>2
    <3> QED BY <3>2, <3>3 DEF Covers
  <2>3. CASE n > Len(s)
    <3>1. n - Len(s) \in 1..(Len(t) - 1) /\ n + 1 - Len(s) = (n - Len(s)) + 1
      BY <2>3, <1>1, <1>2
    <3>2. n \in (Len(s) + 1)..Len(u) /\ n + 1 \in (Len(s) + 1)..Len(u)
      BY <2>3, <1>1, <1>2
    <3>3. u[n] = t[n - Len(s)] /\ u[n + 1] = t[(n - Len(s)) + 1]
      BY <3>1, <3>2, <1>2
    <3> QED BY <3>1, <3>3 DEF Covers
  <2> QED BY <2>1, <2>2, <2>3, <1>1
<1>7. ASSUME NEW n \in 1..Len(s) PROVE s[n].pos + s[n].len <= b
  <2>1. CASE n = Len(s)
    BY <2>1 DEF Covers
  <2>2. CASE n < Len(s)
    <3>1. s[n].pos + s[n].len <= s[Len(s)].pos /\ s[Len(s)].pos + s[Len(s)].len = b
      BY <2>2, <1>1 DEF Covers
    <3>2. /\ s[n].pos \in Nat /\ s[n].len \in Nat
          /\ s[Len(s)].pos \in Nat /\ s[Len(s)].len \in Nat
      BY <1>1, <1>3
    <3> QED BY SMTT(30), <3>1, <3>2
  <2> QED BY <2>1, <2>2, <1>1
<1>8. ASSUME NEW n \in 1..Len(t) PROVE b <= t[n].pos
  <2>1. CASE n = 1
    BY <2>1 DEF Covers
  <2>2. CASE 1 < n
    <3>1. t[1].pos + t[1].len <= t[n].pos /\ t[1].pos = b
      BY <2>2, <1>1 DEF Covers
    <3>2. t[n].pos \in Nat /\ t[1].len \in Nat
      BY <1>1, <1>3
    <3> QED BY <3>1, <3>2
  <2> QED BY <2>1, <2>2, <1>1
<1>9. ASSUME NEW m \in 1..Len(u), NEW n \in 1..Len(u), m < n
      PROVE  u[m].pos + u[m].len <= u[n].pos
  <2>1. CASE n <= Len(s)
    <3>1. m \in 1..Len(s) /\ n \in 1..Len(s)
      BY <2>1, <1>9, <1>1
    <3> QED BY <3>1, <1>9, <1>2 DEF Covers
  <2>2. CASE m <= Len(s) /\ n > Len(s)
    <3>1. m \in 1..Len(s) /\ n \in (Len(s) + 1)..Len(u)
      BY <2>2, <1>1, <1>2
    <3>2. PICK i \in 1..Len(t) : u[n] = t[i]
      BY <3>1, <1>2
    <3>3. u[m] = s[m]
      BY <3>1, <1>2
    <3>4. s[m].pos + s[m].len <= b /\ b <= t[i].pos
      BY <3>1, <1>7, <1>8
    <3>5. s[m].pos + s[m].len \in Nat /\ t[i].pos \in Nat
      BY SMTT(30), <3>1, <1>3
    <3> QED BY <3>2, <3>3, <3>4, <3>5
  <2>3. CASE m > Len(s)
    <3>1. m \in (Len(s) + 1)..Len(u) /\ n \in (Len(s) + 1)..Len(u)
      BY <2>3, <1>9, <1>1, <1>2
    <3>2. m - Len(s) \in 1..Len(t) /\ n - Len(s) \in 1..Len(t) /\ m - Len(s) < n - Len(s)
      BY <3>1, <1>9, <1>1, <1>2
    <3>3. PICK i \in 1..Len(t), j \in 1..Len(t) : i < j /\ u[m] = t[i] /\ u[n] = t[j]
      BY <3>1, <3>2, <1>2
    <3>4. t[i].pos + t[i].len <= t[j].pos
      BY <3>3 DEF Covers
    <3> QED BY <3>3, <3>4
  <2> QED BY <2>1, <2>2, <2>3, <1>1
<1> QED BY <1>2, <1>4, <1>5, <1>6, <1>9 DEF Covers, u

(* Appending a later cut keeps the cuts ascending (plan.splitPoints).      *)
LEMMA CutsAppend ==
    ASSUME NEW cs, NEW a \in Nat, NEW b \in Nat, NEW c \in Nat, NEW d \in Nat,
           CutsInside(cs, a, b), b <= c, a < c, c < d
    PROVE  CutsInside(Append(cs, c), a, d)
<1> DEFINE u == Append(cs, c)
<1>1. cs \in Seq(Nat)
  BY DEF CutsInside
<1>2. Len(cs) \in Nat /\ \A n \in 1..Len(cs) : cs[n] \in Nat
  BY <1>1, NatElements
<1>3. /\ u \in Seq(Nat) /\ Len(u) = Len(cs) + 1 /\ u[Len(cs) + 1] = c
      /\ \A n \in 1..Len(cs) : u[n] = cs[n]
  BY <1>1
<1> HIDE DEF u
<1>4. ASSUME NEW n \in 1..Len(cs) PROVE a < cs[n] /\ cs[n] < c
  <2>1. a < cs[n] /\ cs[n] < b /\ cs[n] \in Nat
    BY <1>2 DEF CutsInside
  <2> QED BY <2>1
<1>5. \A n \in 1..Len(u) : n \in 1..Len(cs) \/ n = Len(cs) + 1
  BY <1>2, <1>3
<1>6. ASSUME NEW n \in 1..Len(u) PROVE a < u[n] /\ u[n] < d
  <2>1. CASE n \in 1..Len(cs)
    <3>1. a < cs[n] /\ cs[n] < c /\ cs[n] \in Nat /\ u[n] = cs[n]
      BY <2>1, <1>2, <1>3, <1>4
    <3> QED BY <3>1
  <2>2. CASE n = Len(cs) + 1
    BY <2>2, <1>3
  <2> QED BY <2>1, <2>2, <1>5
<1>7. ASSUME NEW m \in 1..Len(u), NEW n \in 1..Len(u), m < n PROVE u[m] < u[n]
  <2>1. CASE n \in 1..Len(cs)
    <3>1. m \in 1..Len(cs)
      BY <2>1, <1>7, <1>2, <1>3
    <3> QED BY <2>1, <3>1, <1>7, <1>3 DEF CutsInside
  <2>2. CASE n = Len(cs) + 1
    <3>1. m \in 1..Len(cs)
      BY <2>2, <1>7, <1>2, <1>3
    <3> QED BY <2>2, <3>1, <1>3, <1>4
  <2> QED BY <2>1, <2>2, <1>5
<1> QED BY <1>3, <1>6, <1>7 DEF CutsInside, u

(* compressionWorkers gives at least one worker, and neither more than the *)
(* cap nor more than there are tasks.                                      *)
LEMMA WorkersBounds ==
    ASSUME NEW c \in Calls, NEW n \in Int, NEW tasks \in Nat \ {0}
    PROVE  /\ CompressionWorkers(c, n, tasks) \in 1..MaxCompressionWorkers
           /\ CompressionWorkers(c, n, tasks) <= tasks
  BY SizesAssumption DEF CompressionWorkers, NormalizeWorkers, Smaller

(* The types of the arguments of a call.                                   *)
LEMMA CallFields ==
    ASSUME NEW c \in Calls
    PROVE  c.workers \in Int /\ c.btype \in 0..2 /\ c.splitting \in BOOLEAN
  BY CallAssumption

(* An input that is not empty has a part, and the last part starts at or   *)
(* before its last byte (deflate, parts).                                  *)
LEMMA PartsPositive ==
    ASSUME in \in Inputs, in.len > 0
    PROVE  /\ Parts \in Nat \ {0}
           /\ (Parts - 1) * MasterBlockSize <= in.len - 1
           /\ in.len - 1 < (Parts - 1) * MasterBlockSize + MasterBlockSize
<1>1. in.len \in Nat /\ in.len - 1 \in Nat
  BY CallAssumption
<1> DEFINE q == (in.len - 1) \div MasterBlockSize
<1>2. Parts = 1 + q
  BY <1>1 DEF Parts
<1>3. /\ q \in Nat /\ q * MasterBlockSize <= in.len - 1
      /\ in.len - 1 < q * MasterBlockSize + MasterBlockSize
  BY <1>1, DivisionBounds, SizesAssumption
<1> HIDE DEF q
<1>4. Parts - 1 = q
  BY <1>2, <1>3
<1> QED BY <1>2, <1>3, <1>4

(* A part is a range of the input that is not empty; it ends where the     *)
(* next one starts, and the last one ends with the input.                  *)
LEMMA PartBounds ==
    ASSUME in \in Inputs, in.len > 0, NEW p \in Nat, p < Parts
    PROVE  /\ PartFrom(p) \in Nat /\ PartTo(p) \in Nat
           /\ PartFrom(p) < PartTo(p) /\ PartTo(p) <= in.len
           /\ PartTo(p) <= PartFrom(p) + MasterBlockSize
           /\ PartTo(p) = in.len <=> p = Parts - 1
           /\ p + 1 < Parts => PartTo(p) = PartFrom(p + 1)
           /\ PartTo(p) = Smaller(PartFrom(p) + MasterBlockSize, in.len)
<1>1. in.len \in Nat /\ MasterBlockSize \in Nat \ {0} /\ Parts \in Nat \ {0}
  BY CallAssumption, SizesAssumption, PartsPositive
<1>2. /\ p * MasterBlockSize \in Nat
      /\ (p + 1) * MasterBlockSize = p * MasterBlockSize + MasterBlockSize
      /\ p < Parts - 1 => p * MasterBlockSize + MasterBlockSize <= (Parts - 1) * MasterBlockSize
  BY <1>1, MultipleBelow
<1>3. (Parts - 1) * MasterBlockSize \in Nat
  BY <1>1, MultipleBelow
<1>4. CASE p = Parts - 1
  BY <1>1, <1>2, <1>3, <1>4, PartsPositive DEF PartFrom, PartTo, Smaller
<1>5. CASE p < Parts - 1
  BY <1>1, <1>2, <1>3, <1>5, PartsPositive DEF PartFrom, PartTo, Smaller
<1> QED BY <1>1, <1>4, <1>5

(* The serial loop and the batch loop of deflate call the same part the    *)
(* final one.                                                              *)
LEMMA FinalPartIsLast ==
    ASSUME in \in Inputs, in.len > 0, NEW p \in Nat, p < Parts
    PROVE  FinalPart(p) <=> p = Parts - 1
  BY PartBounds DEF FinalPart

(* A batch takes the next parts, at most as many as there are slots, and   *)
(* falls short of the workers only at the end of the input.                *)
LEMMA BatchBounds ==
    ASSUME in \in Inputs, opt \in Calls, in.len > 0, first \in Nat, first < Parts
    PROVE  /\ BatchSize \in 1..MaxCompressionWorkers
           /\ BatchSize <= Parts - first
           /\ BatchWorkers \in Nat \ {0}
           /\ first + BatchWorkers < Parts => BatchSize = BatchWorkers
           /\ first + BatchWorkers >= Parts => BatchSize = Parts - first
           /\ \A o \in 0..(BatchSize - 1) : o \in Slots /\ first + o \in Nat /\ first + o < Parts
<1>1. Parts \in Nat \ {0} /\ opt.workers \in Int
  BY PartsPositive, CallFields
<1>2. BatchWorkers \in 1..MaxCompressionWorkers
  BY <1>1, WorkersBounds DEF BatchWorkers
<1> QED BY <1>1, <1>2, SizesAssumption DEF BatchSize, Smaller, Slots

(* A range of tokens of a covered part is a range of bytes, and ranges     *)
(* that adjoin in the store adjoin in the input.                           *)
LEMMA TokenRange ==
    ASSUME NEW s, NEW from \in Nat, NEW to \in Nat, Covers(s, from, to),
           NEW a \in Nat, NEW b \in Nat, a < b, b <= Len(s)
    PROVE  /\ RangeFrom(s, a, b) \in Nat /\ RangeTo(s, a, b) \in Nat
           /\ RangeFrom(s, a, b) < RangeTo(s, a, b)
           /\ RangeTo(s, a, b) <= to
           /\ a = 0 => RangeFrom(s, a, b) = from
           /\ b = Len(s) => RangeTo(s, a, b) = to
           /\ \A c \in Nat : b < c /\ c <= Len(s) => RangeFrom(s, b, c) = RangeTo(s, a, b)
<1>1. s \in Seq(Tokens)
  BY DEF Covers
<1>2. Len(s) \in Nat /\ \A n \in 1..Len(s) : s[n].pos \in Nat /\ s[n].len \in Nat
  BY <1>1, TokenFields
<1>3. a + 1 \in 1..Len(s) /\ b \in 1..Len(s) /\ Len(s) \in 1..Len(s)
  BY <1>2
<1>4. RangeFrom(s, a, b) = s[a + 1].pos /\ RangeTo(s, a, b) = s[b].pos + s[b].len
  BY DEF RangeFrom, RangeTo
<1>5. RangeFrom(s, a, b) \in Nat /\ RangeTo(s, a, b) \in Nat
  BY <1>2, <1>3, <1>4
<1>6. RangeFrom(s, a, b) < RangeTo(s, a, b)
  <2>1. s[a + 1].len > 0 /\ s[b].len > 0
    BY <1>3 DEF Covers
  <2>2. CASE a + 1 = b
    BY <2>1, <2>2, <1>2, <1>3, <1>4
  <2>3. CASE a + 1 < b
    <3>1. s[a + 1].pos + s[a + 1].len <= s[b].pos
      BY <2>3, <1>3 DEF Covers
    <3>2. /\ s[a + 1].pos \in Nat /\ s[a + 1].len \in Nat
          /\ s[b].pos \in Nat /\ s[b].len \in Nat
      BY <1>2, <1>3
    <3> QED BY SMTT(30), <2>1, <3>1, <3>2, <1>4
  <2> QED BY <2>2, <2>3
<1>7. b = Len(s) => RangeTo(s, a, b) = to
  BY <1>4 DEF Covers
<1>8. RangeTo(s, a, b) <= to
  <2>1. CASE b = Len(s)
    BY <2>1, <1>5, <1>7
  <2>2. CASE b < Len(s)
    <3>1. s[b].pos + s[b].len <= s[Len(s)].pos /\ s[Len(s)].pos + s[Len(s)].len = to
      BY <2>2, <1>3 DEF Covers
    <3>2. /\ s[b].pos \in Nat /\ s[b].len \in Nat
          /\ s[Len(s)].pos \in Nat /\ s[Len(s)].len \in Nat
      BY <1>2, <1>3
    <3> QED BY SMTT(30), <3>1, <3>2, <1>4
  <2> QED BY <2>1, <2>2, <1>2
<1>9. a = 0 => RangeFrom(s, a, b) = from
  BY <1>4 DEF Covers
<1>10. ASSUME NEW c \in Nat, b < c, c <= Len(s)
       PROVE  RangeFrom(s, b, c) = RangeTo(s, a, b)
  <2>1. b \in 1..(Len(s) - 1)
    BY <1>10, <1>2
  <2>2. s[b + 1].pos = s[b].pos + s[b].len
    BY <2>1 DEF Covers
  <2>3. RangeFrom(s, b, c) = s[b + 1].pos
    BY <1>10 DEF RangeFrom
  <2> QED BY <2>2, <2>3, <1>4
<1> QED BY <1>5, <1>6, <1>7, <1>8, <1>9, <1>10

(* The token range of each block of a plan of btype 2. *)
LEMMA PointRange ==
    ASSUME NEW pts, NEW size \in Nat \ {0}, CutsInside(pts, 0, size),
           NEW n \in Nat, n <= Len(pts)
    PROVE  /\ BlockFrom(pts, n, 0) \in Nat /\ BlockTo(pts, n, size) \in Nat
           /\ BlockFrom(pts, n, 0) < BlockTo(pts, n, size)
           /\ BlockTo(pts, n, size) <= size
           /\ n = Len(pts) => BlockTo(pts, n, size) = size
           /\ n < Len(pts) => BlockFrom(pts, n + 1, 0) = BlockTo(pts, n, size)
<1>1. pts \in Seq(Nat)
  BY DEF CutsInside
<1>2. Len(pts) \in Nat /\ \A i \in 1..Len(pts) : pts[i] \in Nat
  BY <1>1, NatElements
<1>3. \A i \in 1..Len(pts) : 0 < pts[i] /\ pts[i] < size
  BY DEF CutsInside
<1>4. n + 1 > 0 /\ (n < Len(pts) => n + 1 \in 1..Len(pts)) /\ (n > 0 => n \in 1..Len(pts))
  BY <1>2
<1>5. n > 0 /\ n < Len(pts) => pts[n] < pts[n + 1]
  BY <1>2, <1>4 DEF CutsInside
<1>6. n > 0 => BlockFrom(pts, n, 0) = pts[n]
  BY DEF BlockFrom
<1>7. n = 0 => BlockFrom(pts, n, 0) = 0
  BY DEF BlockFrom
<1>8. n < Len(pts) => BlockTo(pts, n, size) = pts[n + 1] /\ BlockFrom(pts, n + 1, 0) = pts[n + 1]
  BY <1>4 DEF BlockTo, BlockFrom
<1>9. n = Len(pts) => BlockTo(pts, n, size) = size
  BY <1>2 DEF BlockTo
<1>10. n = 0 \/ n > 0
  OBVIOUS
<1>11. n < Len(pts) \/ n = Len(pts)
  BY <1>2
<1> QED BY <1>2, <1>3, <1>4, <1>5, <1>6, <1>7, <1>8, <1>9, <1>10, <1>11

(* What writing block n of a delivered plan finds. *)
LEMMA BlockOfPlan ==
    ASSUME in \in Inputs, opt \in Calls, in.len > 0, NEW p \in Nat, p < Parts,
           NEW plan \in Plans, PlanOf(plan, p),
           NEW n \in Nat, n < Blocks(plan), NEW b, b = PlannedBlock(in, plan, n)
    PROVE  /\ b.from \in Nat /\ b.to \in Nat
           /\ b.from < b.to /\ b.to <= PartTo(p)
           /\ b.kind \in {"stored", "fixed", "dynamic"}
           /\ b.tokens \in Seq(Tokens)
           /\ n = 0 => b.from = PartFrom(p)
           /\ n = Blocks(plan) - 1 => b.to = PartTo(p)
           /\ n + 1 < Blocks(plan) => PlannedBlock(in, plan, n + 1).from = b.to
<1> DEFINE a(k) == BlockFrom(plan.points, k, 0)
           z(k) == BlockTo(plan.points, k, Len(plan.store))
<1>2. /\ plan.btype \in 0..2 /\ plan.btype = opt.btype
      /\ plan.from = PartFrom(p) /\ plan.to = PartTo(p)
      /\ plan.store \in Seq(Tokens) /\ plan.points \in Seq(Nat)
  BY DEF PlanOf, Plans
<1>3. /\ PartFrom(p) \in Nat /\ PartTo(p) \in Nat /\ PartFrom(p) < PartTo(p)
  BY PartBounds
<1>4. CASE plan.btype = 0
  <2>1. /\ b.from = plan.from /\ b.to = plan.to
        /\ b.kind = "stored" /\ b.tokens = <<>>
    <3>1. b.from = plan.from /\ b.to = plan.to
      BY <1>4 DEF PlannedBlock
    <3>2. b.kind = "stored"
      BY <1>4 DEF PlannedBlock
    <3>3. b.tokens = <<>>
      BY <1>4 DEF PlannedBlock
    <3> QED BY <3>1, <3>2, <3>3
  <2>2. Blocks(plan) = 1
    BY <1>4 DEF Blocks
  <2>3. <<>> \in Seq(Tokens)
    OBVIOUS
  <2> QED BY <1>2, <1>3, <2>1, <2>2, <2>3
<1>5. CASE plan.btype # 0
  <2>1. /\ Covers(plan.store, PartFrom(p), PartTo(p))
        /\ CutsInside(plan.points, 0, Len(plan.store))
        /\ plan.btype # 2 => plan.points = <<>>
    BY <1>5, <1>2 DEF PlanOf
  <2>2. Len(plan.store) \in Nat \ {0} /\ Len(plan.points) \in Nat
    BY <1>2, <2>1, TokenFields, NatElements DEF Covers
  <2>3. Blocks(plan) = Len(plan.points) + 1
    BY <2>1 DEF Blocks
  <2>4. n <= Len(plan.points)
    BY <2>2, <2>3
  <2>5. /\ a(n) \in Nat /\ z(n) \in Nat /\ a(n) < z(n) /\ z(n) <= Len(plan.store)
        /\ n = Len(plan.points) => z(n) = Len(plan.store)
        /\ n < Len(plan.points) => a(n + 1) = z(n)
    BY <2>1, <2>2, <2>4, PointRange
  <2>6. n = 0 => a(n) = 0
    BY DEF BlockFrom
  <2>7. /\ b.from = RangeFrom(plan.store, a(n), z(n))
        /\ b.to = RangeTo(plan.store, a(n), z(n))
    BY <1>5 DEF PlannedBlock
  <2>8. n + 1 < Blocks(plan) =>
          /\ PlannedBlock(in, plan, n + 1).from = RangeFrom(plan.store, a(n + 1), z(n + 1))
          /\ a(n + 1) = z(n)
          /\ z(n + 1) \in Nat /\ z(n) < z(n + 1) /\ z(n + 1) <= Len(plan.store)
    <3>1. SUFFICES ASSUME n + 1 < Blocks(plan)
                   PROVE  /\ PlannedBlock(in, plan, n + 1).from
                               = RangeFrom(plan.store, a(n + 1), z(n + 1))
                          /\ a(n + 1) = z(n)
                          /\ z(n + 1) \in Nat /\ z(n) < z(n + 1)
                          /\ z(n + 1) <= Len(plan.store)
      OBVIOUS
    <3>2. n + 1 \in Nat /\ n + 1 <= Len(plan.points) /\ n < Len(plan.points)
      BY <3>1, <2>2, <2>3
    <3>3. a(n + 1) = z(n)
      BY <3>2, <2>5
    <3>4. /\ a(n + 1) < z(n + 1) /\ z(n + 1) \in Nat /\ z(n + 1) <= Len(plan.store)
      BY <3>2, <2>1, <2>2, PointRange
    <3>5. PlannedBlock(in, plan, n + 1).from = RangeFrom(plan.store, a(n + 1), z(n + 1))
      BY <1>5 DEF PlannedBlock
    <3> QED BY <3>3, <3>4, <3>5
  <2> DEFINE type == IF plan.btype = 1 \/ a(n) = z(n) THEN "fixed"
                     ELSE Cheapest(in, b.from, b.to)
  <2>12. /\ b.kind = IF type = "reparsed" THEN "fixed" ELSE type
         /\ b.tokens = IF type = "stored" THEN <<>>
                       ELSE IF type = "reparsed" THEN FixedParse(in, b.from, b.to)
                       ELSE SubSeq(plan.store, a(n) + 1, z(n))
    BY <1>5 DEF PlannedBlock
  <2> HIDE DEF a, z
  <2>9. /\ b.from \in Nat /\ b.to \in Nat /\ b.from < b.to /\ b.to <= PartTo(p)
        /\ a(n) = 0 => b.from = PartFrom(p)
        /\ z(n) = Len(plan.store) => b.to = PartTo(p)
        /\ \A c \in Nat : z(n) < c /\ c <= Len(plan.store) =>
              RangeFrom(plan.store, z(n), c) = b.to
    BY <1>3, <2>1, <2>5, <2>7, TokenRange
  <2>13. /\ type \in {"stored", "fixed", "reparsed", "dynamic"}
         /\ Covers(FixedParse(in, b.from, b.to), b.from, b.to)
    <3>1. b.from \in 0..in.len /\ b.to \in 0..in.len
      <4>1. in.len \in Nat /\ PartTo(p) \in Nat /\ PartTo(p) <= in.len
        BY CallAssumption, PartBounds
      <4> QED BY <2>9, <4>1
    <3> QED BY <2>9, <3>1, AnalysisAssumption
  <2>14. b.kind \in {"stored", "fixed", "dynamic"}
    BY <2>12, <2>13
  <2>10. b.tokens \in Seq(Tokens)
    <3>1. <<>> \in Seq(Tokens)
      OBVIOUS
    <3>2. a(n) + 1 \in 1..(Len(plan.store) + 1) /\ z(n) \in 0..Len(plan.store)
      BY <2>2, <2>5
    <3>3. SubSeq(plan.store, a(n) + 1, z(n)) \in Seq(Tokens)
      BY <1>2, <3>2, SubSeqOfTokens
    <3> QED BY <2>12, <2>13, <3>1, <3>3 DEF Covers
  <2>11. n = Blocks(plan) - 1 => n = Len(plan.points)
    BY <2>2, <2>3
  <2> QED BY <2>5, <2>6, <2>8, <2>9, <2>10, <2>11, <2>14
<1> QED BY <1>4, <1>5

(* A piece of a block starts where the pieces before it end; the last one  *)
(* ends with the block.                                                    *)
LEMMA PieceOfBlock ==
    ASSUME NEW b, b.from \in Nat, b.to \in Nat, b.from < b.to,
           NEW done \in Nat, done < b.to - b.from, b.kind # "stored" => done = 0
    PROVE  /\ ChunkTo(b, done) \in Nat
           /\ b.from + done < ChunkTo(b, done) /\ ChunkTo(b, done) <= b.to
           /\ LastChunk(b, done) <=> ChunkTo(b, done) = b.to
           /\ b.kind # "stored" => LastChunk(b, done)
  BY SizesAssumption DEF ChunkTo, LastChunk, Smaller

-----------------------------------------------------------------------------
(* Facts every step uses. *)

(* A slot that holds something belongs to a part of the batch being worked *)
(* on.                                                                     *)
LEMMA BusySlot ==
    ASSUME IInv, NEW o \in Slots, stage[o] # "none"
    PROVE  /\ in.len > 0 /\ in.len \in Nat /\ first < Parts
           /\ o \in 0..(BatchSize - 1)
           /\ first + o \in Nat /\ first + o < Parts
           /\ pc \in {"spawn", "wait", "write"}
<1>1. in \in Inputs /\ opt \in Calls /\ first \in Nat /\ slot \in Nat
  BY DEF IInv, TypeOK
<1>2. o \in Busy /\ pc \in {"spawn", "wait", "write"}
  BY DEF IInv, BatchInv, Busy
<1>3. first < Parts /\ (pc = "spawn" => slot < BatchSize)
  BY <1>2 DEF IInv, BatchInv
<1>4. in.len > 0 /\ in.len \in Nat
  BY <1>1, <1>3, CallAssumption DEF Parts
<1>5. BatchSize \in Nat
  BY <1>1, <1>3, <1>4, BatchBounds
<1>6. o \in 0..(BatchSize - 1)
  BY <1>1, <1>2, <1>3, <1>5, SizesAssumption DEF Busy, Slots
<1> QED BY <1>1, <1>2, <1>3, <1>4, <1>6, BatchBounds

(* A slot whose frame does not change keeps what it knows of its frame.    *)
LEMMA FrameStable ==
    ASSUME NEW q \in Slots, UNCHANGED <<in, opt, first>>,
           stage'[q] = stage[q], cuts'[q] = cuts[q], next'[q] = next[q],
           store'[q] = store[q], points'[q] = points[q], FrameInv(q)
    PROVE  FrameInv(q)'
  BY DEF FrameInv, From, To, PartFrom, PartTo, CutsInside, Covers

(* A slot whose pool does not change keeps what it knows of its pool.      *)
LEMMA PoolStable ==
    ASSUME NEW q \in Slots, UNCHANGED <<in, opt, first>>,
           stage'[q] = stage[q], cuts'[q] = cuts[q], next'[q] = next[q],
           task'[q] = task[q], sent'[q] = sent[q], base'[q] = base[q],
           results'[q] = results[q], PoolInv(q)
    PROVE  PoolInv(q)'
  BY DEF PoolInv, Serially, PoolSize, NestedWorkers, BatchWorkers, Parts, BlockRange,
         PartFrom, PartTo

(* A slot whose scratch memories do not change keeps what it knows of      *)
(* them.                                                                   *)
LEMMA ScratchStable ==
    ASSUME NEW q \in Slots, UNCHANGED <<in, opt, first>>,
           stage'[q] = stage[q], cuts'[q] = cuts[q], next'[q] = next[q],
           task'[q] = task[q], base'[q] = base[q],
           \A w \in {Own} \cup Workers : scratch'[<<q, w>>] = scratch[<<q, w>>],
           OwnScratch(q)
    PROVE  OwnScratch(q)'
  BY DEF OwnScratch, ScratchOf, BlockRange, PartFrom, PartTo, Own

(* A plan that does not change stays the plan of its part.                 *)
LEMMA PlanStable ==
    ASSUME NEW q \in Slots, UNCHANGED <<in, opt, first>>,
           stage'[q] = stage[q], plans'[q] = plans[q],
           stage[q] = "done" => PlanOf(plans[q], first + q)
    PROVE  stage'[q] = "done" => PlanOf(plans[q], first + q)'
  BY DEF PlanOf, PartFrom, PartTo

(* A step of the analysis in slot o leaves the main goroutine, the other   *)
(* slots and the stream alone.                                             *)
LEMMA OtherSlots ==
    ASSUME IInv, NEW o \in Slots, UNCHANGED <<call, main>>,
           stage[o] \notin {"none", "done"}, stage'[o] # "none",
           \A q \in Slots \ {o} :
             /\ plans'[q] = plans[q] /\ stage'[q] = stage[q] /\ cuts'[q] = cuts[q]
             /\ next'[q] = next[q] /\ store'[q] = store[q] /\ points'[q] = points[q]
             /\ task'[q] = task[q] /\ sent'[q] = sent[q] /\ base'[q] = base[q]
             /\ results'[q] = results[q]
             /\ \A w \in {Own} \cup Workers : scratch'[<<q, w>>] = scratch[<<q, w>>],
           FrameInv(o)', PoolInv(o)', OwnScratch(o)',
           stage'[o] = "done" => PlanOf(plans[o], first + o)'
    PROVE  BatchInv' /\ OutInv' /\ \A q \in Slots : SlotInv(q)'
<1>1. pc # "write"
  <2>1. o \in Busy
    BY DEF IInv, BatchInv
  <2> QED BY <2>1 DEF IInv, BatchInv
<1>2. /\ in' = in /\ opt' = opt /\ pc' = pc /\ first' = first /\ slot' = slot
      /\ block' = block /\ written' = written /\ out' = out
  BY DEF call, main
<1>3. Parts' = Parts /\ BatchSize' = BatchSize /\ Busy' = Busy
  BY <1>2 DEF Parts, BatchSize, BatchWorkers, Busy
<1>4. \A q \in Slots : stage'[q] # "none" <=> stage[q] # "none"
  OBVIOUS
<1>5. BatchInv'
  BY <1>1, <1>2, <1>3, <1>4 DEF IInv, BatchInv
<1>6. OutInv'
  BY <1>1, <1>2 DEF IInv, OutInv, Written, PartFrom
<1>7. ASSUME NEW q \in Slots PROVE SlotInv(q)'
  <2>1. CASE q = o
    BY <2>1, <1>2 DEF SlotInv
  <2>2. CASE q # o
    <3>1. SlotInv(q)
      BY DEF IInv
    <3>2. FrameInv(q)'
      BY <1>2, <2>2, <3>1, FrameStable DEF SlotInv
    <3>3. PoolInv(q)'
      BY <1>2, <2>2, <3>1, PoolStable DEF SlotInv
    <3>4. OwnScratch(q)'
      BY <1>2, <2>2, <3>1, ScratchStable DEF SlotInv
    <3>5. stage'[q] = "done" => PlanOf(plans[q], first + q)'
      BY <1>2, <2>2, <3>1, PlanStable DEF SlotInv
    <3> QED BY <3>2, <3>3, <3>4, <3>5 DEF SlotInv
  <2> QED BY <2>1, <2>2
<1> QED BY <1>5, <1>6, <1>7

(* What a slot knows while it analyses. *)
LEMMA SlotFacts ==
    ASSUME IInv, NEW o \in Slots, stage[o] # "none"
    PROVE  /\ in \in Inputs /\ opt \in Calls
           /\ From(o) \in 0..in.len /\ To(o) \in 0..in.len /\ From(o) < To(o)
           /\ To(o) = Smaller(From(o) + MasterBlockSize, in.len)
           /\ SlotInv(o)
           /\ first + o \in 0..in.len
           /\ From(o) = (first + o) * MasterBlockSize
<1>1. in \in Inputs /\ opt \in Calls /\ SlotInv(o)
  BY DEF IInv, TypeOK
<1>2. in.len > 0 /\ in.len \in Nat /\ first + o \in Nat /\ first + o < Parts
  BY BusySlot
<1>3. /\ From(o) \in Nat /\ To(o) \in Nat /\ From(o) < To(o) /\ To(o) <= in.len
      /\ To(o) = Smaller(From(o) + MasterBlockSize, in.len)
  BY <1>1, <1>2, PartBounds DEF From, To
<1>4. first + o <= From(o)
  BY <1>2, SizesAssumption, MultipleAbove DEF From, PartFrom
<1> QED BY <1>1, <1>2, <1>3, <1>4 DEF From, PartFrom

(* The byte range of a block of a part that is being analysed.             *)
LEMMA RangeFacts ==
    ASSUME IInv, NEW o \in Slots, stage[o] \in {"blocks", "parse", "send", "drain", "join"},
           NEW n \in Nat, n <= Len(cuts[o])
    PROVE  /\ BlockRange(o, n) \in Nat \X Nat
           /\ From(o) <= BlockRange(o, n)[1] /\ BlockRange(o, n)[1] < BlockRange(o, n)[2]
           /\ BlockRange(o, n)[2] <= To(o)
           /\ n = 0 => BlockRange(o, n)[1] = From(o)
           /\ n > 0 => BlockRange(o, n)[1] = cuts[o][n] /\ From(o) < cuts[o][n]
           /\ BlockRange(o, n)[2] = IF n < Len(cuts[o]) THEN cuts[o][n + 1] ELSE To(o)
           /\ Covers(Parse(in, BlockRange(o, n)[1], BlockRange(o, n)[2]),
                     BlockRange(o, n)[1], BlockRange(o, n)[2])
<1>1. /\ From(o) \in 0..in.len /\ To(o) \in 0..in.len /\ From(o) < To(o)
      /\ in \in Inputs /\ in.len \in Nat
      /\ CutsInside(cuts[o], From(o), To(o))
  BY SlotFacts, CallAssumption DEF SlotInv, FrameInv
<1>2. cuts[o] \in Seq(Nat)
  BY <1>1 DEF CutsInside
<1>3. Len(cuts[o]) \in Nat /\ \A i \in 1..Len(cuts[o]) : cuts[o][i] \in Nat
  BY <1>2, NatElements
<1>4. \A i \in 1..Len(cuts[o]) : From(o) < cuts[o][i] /\ cuts[o][i] < To(o)
  BY <1>1 DEF CutsInside
<1> DEFINE a == BlockFrom(cuts[o], n, From(o))
           b == BlockTo(cuts[o], n, To(o))
<1>5. BlockRange(o, n) = <<a, b>>
  BY DEF BlockRange, From, To
<1>6. n = 0 => a = From(o)
  BY DEF BlockFrom
<1>7. n > 0 => a = cuts[o][n] /\ n \in 1..Len(cuts[o])
  BY <1>3 DEF BlockFrom
<1>8. b = IF n < Len(cuts[o]) THEN cuts[o][n + 1] ELSE To(o)
  BY DEF BlockTo
<1>9. n < Len(cuts[o]) => n + 1 \in 1..Len(cuts[o])
  BY <1>3
<1>10. n > 0 /\ n < Len(cuts[o]) => cuts[o][n] < cuts[o][n + 1]
  BY <1>1, <1>7, <1>9 DEF CutsInside
<1>11. n = 0 \/ n > 0
  OBVIOUS
<1> HIDE DEF a, b
<1>12. a \in Nat /\ b \in Nat /\ From(o) <= a /\ b <= To(o) /\ (n > 0 => From(o) < a)
  BY <1>1, <1>3, <1>4, <1>6, <1>7, <1>8, <1>9, <1>11
<1>13. a < b
  BY <1>1, <1>3, <1>4, <1>6, <1>7, <1>8, <1>9, <1>10, <1>11
<1>14. Covers(Parse(in, a, b), a, b)
  <2>1. a \in 0..in.len /\ b \in 0..in.len
    BY <1>1, <1>12, <1>13
  <2> QED BY <1>1, <1>13, <2>1, AnalysisAssumption
<1> QED BY <1>5, <1>6, <1>7, <1>8, <1>12, <1>13, <1>14

(* Joining the parse of block next[o] to what is joined already. *)
LEMMA JoinStep ==
    ASSUME IInv, NEW o \in Slots, stage[o] \in {"blocks", "parse", "send", "drain", "join"},
           next[o] <= Len(cuts[o]), NEW s,
           s = Parse(in, BlockRange(o, next[o])[1], BlockRange(o, next[o])[2]),
           Join(o, s), UNCHANGED <<in, opt, first, cuts>>,
           stage'[o] \in {"blocks", "join"}
    PROVE  /\ FrameInv(o)'
           /\ store' \in [Slots -> Seq(Tokens)]
           /\ points' \in [Slots -> Seq(Nat)]
           /\ next' \in [Slots -> Nat]
<1> DEFINE k == next[o]
           r == BlockRange(o, k)
           L == Len(cuts[o])
<1>1. /\ next \in [Slots -> Nat] /\ store \in [Slots -> Seq(Tokens)]
      /\ points \in [Slots -> Seq(Nat)] /\ cuts \in [Slots -> Seq(Nat)]
      /\ in \in Inputs /\ in.len \in Nat
  BY CallAssumption DEF IInv, TypeOK
<1>2. k \in Nat /\ L \in Nat /\ store[o] \in Seq(Tokens) /\ points[o] \in Seq(Nat)
  BY <1>1
<1>3. /\ opt.btype = 2
      /\ CutsInside(cuts[o], From(o), To(o))
      /\ k = 0 => store[o] = <<>>
      /\ k > 0 => /\ store[o] \in Stores(in)
                  /\ Covers(store[o], From(o), cuts[o][k])
      /\ Len(points[o]) = k
      /\ CutsInside(points[o], 0, Len(store[o]) + 1)
  <2>1. FrameInv(o)
    BY SlotFacts DEF SlotInv
  <2> QED BY <2>1, <1>2 DEF FrameInv, Smaller
<1>4. /\ r \in Nat \X Nat /\ From(o) <= r[1] /\ r[1] < r[2] /\ r[2] <= To(o)
      /\ k = 0 => r[1] = From(o)
      /\ k > 0 => r[1] = cuts[o][k] /\ From(o) < cuts[o][k]
      /\ r[2] = IF k < L THEN cuts[o][k + 1] ELSE To(o)
      /\ Covers(s, r[1], r[2])
  BY <1>2, RangeFacts
<1>5. s \in Seq(Tokens) /\ Len(s) \in Nat /\ Len(s) > 0
  <2>1. s \in Seq(Tokens) /\ s # <<>>
    BY <1>4 DEF Covers
  <2> QED BY <2>1, TokenFields
<1>6. /\ From(o) \in 0..in.len /\ To(o) \in 0..in.len
      /\ To(o) = Smaller(From(o) + MasterBlockSize, in.len)
      /\ first + o \in 0..in.len /\ From(o) = (first + o) * MasterBlockSize
  BY SlotFacts
<1> HIDE DEF k, r, L
<1> DEFINE u == store[o] \o s
<1>7. u \in Seq(Tokens) /\ Len(u) = Len(store[o]) + Len(s) /\ Len(store[o]) \in Nat
  BY <1>2, <1>5, ConcatElements
<1>8. Covers(u, From(o), r[2]) /\ u \in Stores(in)
  <2>1. CASE k = 0
    <3>1. u = s
      BY <2>1, <1>3, <1>5, EmptyConcat
    <3>2. s \in Stores(in)
      <4>1. r[2] \in (From(o) + 1)..To(o)
        BY <2>1, <1>4, <1>6
      <4>2. s = Parse(in, From(o), r[2])
        BY <2>1, <1>4 DEF r, k
      <4> QED BY <4>1, <4>2, <1>1, <1>6, StoresAssumption
    <3> QED BY <2>1, <1>4, <3>1, <3>2
  <2>2. CASE k > 0
    <3>1. Covers(store[o], From(o), r[1]) /\ store[o] \in Stores(in)
      BY <2>2, <1>3, <1>4
    <3>2. r[1] \in Nat /\ r[2] \in Nat /\ From(o) \in Nat
      BY <1>4, <1>6
    <3>3. Covers(u, From(o), r[2])
      BY <3>1, <3>2, <1>4, CoversConcat
    <3>4. r[2] \in (From(o) + 2)..To(o) /\ r[1] \in (From(o) + 1)..(r[2] - 1)
      BY <2>2, <1>4, <1>6
    <3>5. s = Parse(in, r[1], r[2])
      BY DEF r, k
    <3>6. u \in Stores(in)
      BY <3>1, <3>4, <3>5, <1>1, <1>6, StoresAssumption
    <3> QED BY <3>3, <3>6
  <2> QED BY <2>1, <2>2, <1>2
<1> HIDE DEF u
<1>15. Len(u) \in Nat /\ Len(store[o]) + 1 \in Nat /\ Len(store[o]) + 1 <= Len(u) /\ 0 < Len(u)
  BY <1>5, <1>7, LongerSum
<1>16. ASSUME NEW n \in 1..Len(points[o]) PROVE 0 < points[o][n] /\ points[o][n] < Len(u)
  <2>1. points[o][n] \in Nat
    BY <1>2, NatElements
  <2>2. 0 < points[o][n] /\ points[o][n] < Len(store[o]) + 1
    BY <1>3 DEF CutsInside
  <2> QED BY <2>1, <2>2, <1>15
<1> DEFINE pts == IF k < L THEN Append(points[o], Len(u)) ELSE points[o]
<1>9. /\ store' = [store EXCEPT ![o] = u]
      /\ points' = [points EXCEPT ![o] = pts]
      /\ next' = [next EXCEPT ![o] = k + 1]
  BY <1>1 DEF Join, u, k, L, pts
<1> HIDE DEF pts
<1>10. /\ pts \in Seq(Nat)
       /\ Len(pts) = Smaller(k + 1, L)
       /\ CutsInside(pts, 0, IF k + 1 <= L THEN Len(u) + 1 ELSE Len(u))
  <2>0. k <= L
    BY DEF k, L
  <2>1. CASE k < L
    <3>1. \A n \in 1..Len(points[o]) : points[o][n] < Len(u)
      BY <1>16
    <3>2. /\ Len(store[o]) + 1 \in Nat /\ Len(u) \in Nat /\ Len(u) + 1 \in Nat
          /\ Len(store[o]) + 1 <= Len(u) /\ 0 < Len(u) /\ Len(u) < Len(u) + 1
      BY <1>15
    <3>3. CutsInside(Append(points[o], Len(u)), 0, Len(u) + 1)
      BY <3>1, <3>2, <1>3, CutsAppend
    <3>4. pts = Append(points[o], Len(u)) /\ Smaller(k + 1, L) = k + 1
      BY <2>1, <1>2 DEF pts, Smaller
    <3>5. Append(points[o], Len(u)) \in Seq(Nat) /\ Len(Append(points[o], Len(u))) = k + 1
      BY <3>2, <1>2, <1>3
    <3> QED BY <2>1, <3>3, <3>4, <3>5, <1>2
  <2>2. CASE k = L
    <3>1. CutsInside(points[o], 0, Len(u))
      BY <1>16, <1>2, <1>3 DEF CutsInside
    <3>2. pts = points[o] /\ Smaller(k + 1, L) = L /\ ~(k + 1 <= L)
      BY <2>2, <1>2 DEF pts, Smaller
    <3> QED BY <2>2, <3>1, <3>2, <1>2, <1>3
  <2> QED BY <2>0, <2>1, <2>2, <1>2
<1>11. /\ store'[o] = u /\ points'[o] = pts /\ next'[o] = k + 1
       /\ From(o)' = From(o) /\ To(o)' = To(o) /\ cuts' = cuts /\ in' = in /\ opt' = opt
  BY <1>1, <1>9 DEF From, To, PartFrom, PartTo
<1>12. k + 1 <= L => cuts[o][k + 1] = r[2]
  BY <1>2, <1>4
<1>13. ~(k + 1 <= L) => To(o) = r[2]
  BY <1>2, <1>4
<1>14. k + 1 <= L + 1
  BY <1>2 DEF k, L
<1> QED
  <2>1. FrameInv(o)'
    <3>1. stage'[o] \notin {"split", "parse"}
      OBVIOUS
    <3>2. CutsInside(cuts[o], From(o), To(o))' /\ (opt.btype = 2)'
      BY <1>3, <1>11 DEF CutsInside
    <3>3. (next[o] <= Len(cuts[o]) + 1)' /\ (next[o] > 0)'
      BY <1>2, <1>11, <1>14 DEF L
    <3>4. Covers(store[o], From(o),
                 IF next[o] <= Len(cuts[o]) THEN cuts[o][next[o]] ELSE To(o))'
      <4>1. Covers(u, From(o), IF k + 1 <= L THEN cuts[o][k + 1] ELSE To(o))
        BY <1>8, <1>12, <1>13
      <4> QED BY <4>1, <1>11 DEF L, Covers
    <3>5. (store[o] \in Stores(in))'
      BY <1>8, <1>11
    <3>6. (Len(points[o]) = Smaller(next[o], Len(cuts[o])))'
      BY <1>10, <1>11 DEF L, Smaller
    <3>7. CutsInside(points[o], 0,
                     IF next[o] <= Len(cuts[o]) THEN Len(store[o]) + 1 ELSE Len(store[o]))'
      BY <1>10, <1>11 DEF L, CutsInside
    <3>8. (next[o] # 0)'
      BY <1>2, <1>11
    <3> QED BY <3>1, <3>2, <3>3, <3>4, <3>5, <3>6, <3>7, <3>8 DEF FrameInv
  <2> QED BY <2>1, <1>1, <1>2, <1>7, <1>9, <1>10

-----------------------------------------------------------------------------
(* The steps of prepareDeflatePart and of a pool preserve the invariant.   *)

(* Splitting a part into blocks preserves the invariant.                   *)
LEMMA SplitPartInv ==
    ASSUME IInv, NEW o \in Slots, SplitPart(o)
    PROVE  IInv'
<1>1. /\ stage[o] = "split" /\ opt.btype = 2 /\ SlotInv(o) /\ in \in Inputs /\ opt \in Calls
      /\ next[o] = 0 /\ store[o] = <<>> /\ points[o] = <<>>
      /\ From(o) \in 0..in.len /\ To(o) \in 0..in.len /\ From(o) < To(o)
  <2>1. stage[o] = "split" /\ opt.btype = 2
    BY DEF SplitPart
  <2> QED BY <2>1, SlotFacts DEF SlotInv, FrameInv
<1> DEFINE cs == FirstCuts(in, opt, From(o), To(o))
<1>2. CutsInside(cs, From(o), To(o))
  <2>1. CutsInside(BlockSplit(in, From(o), To(o)), From(o), To(o))
    BY <1>1, AnalysisAssumption
  <2>2. CutsInside(<<>>, From(o), To(o))
    BY DEF CutsInside
  <2> QED BY <2>1, <2>2 DEF FirstCuts
<1>3. cs \in Seq(Nat) /\ Len(cs) \in Nat
  BY <1>2 DEF CutsInside
<1>4. /\ cuts' = [cuts EXCEPT ![o] = cs] /\ stage' = [stage EXCEPT ![o] = "blocks"]
      /\ UNCHANGED <<call, main, plans, next, store, points, pool, scratch>>
  BY DEF SplitPart, From, To
<1> HIDE DEF cs
<1>5. TypeOK'
  BY <1>3, <1>4 DEF IInv, TypeOK, call, main, pool, Stages
<1>6. cuts'[o] = cs /\ stage'[o] = "blocks"
  BY <1>4 DEF IInv, TypeOK
<1>7. /\ in' = in /\ opt' = opt /\ first' = first /\ next' = next /\ store' = store
      /\ points' = points /\ task' = task /\ sent' = sent
  BY <1>4 DEF call, main, pool
<1>8. From(o)' = From(o) /\ To(o)' = To(o)
  BY <1>7 DEF From, To, PartFrom, PartTo
<1>9. FrameInv(o)'
  <2>1. CutsInside(cuts[o], From(o), To(o))'
    BY <1>2, <1>6, <1>8 DEF CutsInside
  <2>2. CutsInside(points[o], 0,
          IF next[o] <= Len(cuts[o]) THEN Len(store[o]) + 1 ELSE Len(store[o]))'
    <3>1. points'[o] = <<>> /\ <<>> \in Seq(Nat) /\ Len(<<>>) = 0
      BY <1>1, <1>7
    <3> QED BY <3>1 DEF CutsInside
  <2>3. (Len(points[o]) = Smaller(next[o], Len(cuts[o])))'
    BY <1>1, <1>3, <1>6, <1>7 DEF Smaller
  <2> QED BY <1>1, <1>3, <1>6, <1>7, <2>1, <2>2, <2>3 DEF FrameInv
<1>10. PoolInv(o)'
  BY <1>1, <1>6, <1>7 DEF SlotInv, PoolInv
<1>11. OwnScratch(o)'
  BY <1>1, <1>6, <1>7, <1>10 DEF OwnScratch, PoolInv, Off
<1> QED BY <1>1, <1>4, <1>5, <1>6, <1>9, <1>10, <1>11, OtherSlots DEF IInv, pool

(* Planning a part of block type 0 or 1 preserves the invariant.           *)
LEMMA PlanWholeInv ==
    ASSUME IInv, NEW o \in Slots, PlanWhole(o)
    PROVE  IInv'
<1>1. /\ stage[o] = "split" /\ opt.btype # 2 /\ SlotInv(o) /\ in \in Inputs /\ opt \in Calls
      /\ From(o) \in 0..in.len /\ To(o) \in 0..in.len /\ From(o) < To(o) /\ in.len \in Nat
  <2>1. stage[o] = "split" /\ opt.btype # 2
    BY DEF PlanWhole
  <2> QED BY <2>1, SlotFacts, BusySlot
<1> DEFINE s == IF opt.btype = 0 THEN <<>> ELSE FixedParse(in, From(o), To(o))
           plan == Plan(opt.btype, From(o), To(o), s, <<>>)
<1>2. opt.btype # 0 => Covers(s, From(o), To(o))
  BY <1>1, AnalysisAssumption
<1>3. s \in Seq(Tokens)
  <2>1. <<>> \in Seq(Tokens)
    OBVIOUS
  <2> QED BY <1>2, <2>1 DEF Covers
<1>4. plan \in Plans
  <2>1. <<>> \in Seq(Nat)
    OBVIOUS
  <2> QED BY <1>1, <1>3, <2>1, CallFields DEF Plan, Plans
<1>5. /\ plans' = [plans EXCEPT ![o] = plan] /\ stage' = [stage EXCEPT ![o] = "done"]
      /\ UNCHANGED <<call, main, cuts, next, store, points, pool, scratch>>
  BY DEF PlanWhole, Deliver, From, To
<1>6. PlanOf(plan, first + o)
  <2>1. opt.btype # 0 => CutsInside(<<>>, 0, Len(s))
    BY DEF CutsInside
  <2> QED BY <1>2, <2>1 DEF PlanOf, Plan, From, To
<1> HIDE DEF plan
<1>7. TypeOK'
  BY <1>4, <1>5 DEF IInv, TypeOK, call, main, pool, Stages
<1>8. plans'[o] = plan /\ stage'[o] = "done"
  BY <1>5 DEF IInv, TypeOK
<1>9. /\ in' = in /\ opt' = opt /\ first' = first /\ task' = task /\ sent' = sent
  BY <1>5 DEF call, main, pool
<1>10. FrameInv(o)'
  BY <1>8 DEF FrameInv
<1>11. PoolInv(o)'
  BY <1>1, <1>8, <1>9 DEF SlotInv, PoolInv
<1>12. OwnScratch(o)'
  BY <1>8, <1>9, <1>11 DEF OwnScratch, PoolInv, Off
<1>13. PlanOf(plans[o], first + o)'
  BY <1>6, <1>8, <1>9 DEF PlanOf, PartFrom, PartTo
<1> QED BY <1>1, <1>5, <1>7, <1>8, <1>10, <1>11, <1>12, <1>13, OtherSlots DEF IInv, pool

(* Preparing the match cache for the next block preserves the invariant.   *)
LEMMA LoadBlockInv ==
    ASSUME IInv, NEW o \in Slots, LoadBlock(o)
    PROVE  IInv'
<1>1. stage[o] = "blocks" /\ next[o] <= Len(cuts[o]) /\ SlotInv(o) /\ next[o] \in Nat
  BY DEF LoadBlock, IInv, TypeOK
<1> DEFINE r == BlockRange(o, next[o])
<1>2. r \in Nat \X Nat
  BY <1>1, RangeFacts
<1>3. /\ scratch' = [scratch EXCEPT ![<<o, Own>>] = r]
      /\ stage' = [stage EXCEPT ![o] = "parse"]
      /\ UNCHANGED <<call, main, plans, cuts, next, store, points, pool>>
  BY DEF LoadBlock, ScratchOf
<1> HIDE DEF r
<1>4. TypeOK'
  BY <1>2, <1>3 DEF IInv, TypeOK, call, main, pool, Stages
<1>5. /\ stage'[o] = "parse" /\ scratch'[<<o, Own>>] = r
      /\ \A q \in Slots, w \in {Own} \cup Workers :
            q # o => scratch'[<<q, w>>] = scratch[<<q, w>>]
  BY <1>3 DEF IInv, TypeOK
<1>6. /\ in' = in /\ opt' = opt /\ first' = first /\ cuts' = cuts /\ next' = next
      /\ store' = store /\ points' = points /\ task' = task /\ sent' = sent
  BY <1>3 DEF call, main, pool
<1>7. FrameInv(o)'
  BY <1>1, <1>5, <1>6 DEF SlotInv, FrameInv, From, To, PartFrom, PartTo, CutsInside, Covers
<1>8. PoolInv(o)'
  BY <1>1, <1>5, <1>6 DEF SlotInv, PoolInv
<1>9. OwnScratch(o)'
  <2>1. BlockRange(o, next[o])' = r
    BY <1>6 DEF r, BlockRange, PartFrom, PartTo
  <2>2. \A w \in Workers : task'[o][w] = Off
    BY <1>5, <1>8 DEF PoolInv
  <2> QED BY <1>5, <2>1, <2>2 DEF OwnScratch, Off, ScratchOf
<1> QED BY <1>1, <1>3, <1>4, <1>5, <1>7, <1>8, <1>9, OtherSlots DEF IInv, pool

(* Joining the parse of a block done serially preserves the invariant.     *)
LEMMA ParseBlockInv ==
    ASSUME IInv, NEW o \in Slots, ParseBlock(o)
    PROVE  IInv'
<1>1. stage[o] = "parse" /\ SlotInv(o)
  BY DEF ParseBlock, IInv
<1>2. next[o] <= Len(cuts[o])
  BY <1>1 DEF SlotInv, FrameInv
<1>3. scratch[ScratchOf(o, Own)] = BlockRange(o, next[o])
  BY <1>1 DEF SlotInv, OwnScratch
<1>4. /\ Join(o, Parse(in, BlockRange(o, next[o])[1], BlockRange(o, next[o])[2]))
      /\ stage' = [stage EXCEPT ![o] = "blocks"]
      /\ UNCHANGED <<call, main, plans, cuts, pool, scratch>>
  BY <1>3 DEF ParseBlock, Optimized
<1>5. /\ in' = in /\ opt' = opt /\ first' = first /\ cuts' = cuts
      /\ task' = task /\ sent' = sent /\ stage'[o] = "blocks"
  BY <1>4 DEF call, main, pool, IInv, TypeOK
<1>6. /\ FrameInv(o)'
      /\ store' \in [Slots -> Seq(Tokens)]
      /\ points' \in [Slots -> Seq(Nat)]
      /\ next' \in [Slots -> Nat]
  BY <1>1, <1>2, <1>4, <1>5, JoinStep
<1>7. TypeOK'
  BY <1>4, <1>6 DEF IInv, TypeOK, call, main, pool, Stages
<1>8. PoolInv(o)'
  BY <1>1, <1>5 DEF SlotInv, PoolInv
<1>9. OwnScratch(o)'
  BY <1>5, <1>8 DEF OwnScratch, PoolInv, Off
<1>10. /\ UNCHANGED <<call, main, plans, cuts, pool, scratch>>
       /\ \A q \in Slots : stage'[q] # stage[q] => q = o
  BY <1>4 DEF IInv, TypeOK
<1>11. \A q \in Slots \ {o} :
         store'[q] = store[q] /\ points'[q] = points[q] /\ next'[q] = next[q]
  BY <1>4 DEF Join, IInv, TypeOK
<1> QED BY <1>1, <1>5, <1>6, <1>7, <1>8, <1>9, <1>10, <1>11, OtherSlots DEF IInv, pool

(* A pool has a task and at most one for each worker and for each block    *)
(* left.                                                                   *)
LEMMA PoolBounds ==
    ASSUME IInv, NEW o \in Slots, base[o] <= Len(cuts[o])
    PROVE  /\ PoolSize(o) \in 1..MaxCompressionWorkers
           /\ base[o] + PoolSize(o) <= Len(cuts[o]) + 1
<1>1. base[o] \in Nat /\ Len(cuts[o]) \in Nat /\ opt \in Calls
  BY NatElements DEF IInv, TypeOK
<1>2. NestedWorkers \in Int
  BY <1>1, CallFields DEF NestedWorkers
<1>3. CompressionWorkers(opt, NestedWorkers, Len(cuts[o]) + 1) \in 1..MaxCompressionWorkers
  BY <1>1, <1>2, WorkersBounds
<1> QED BY <1>1, <1>3, SizesAssumption DEF PoolSize, Smaller

(* Starting the workers of a pool preserves the invariant.                 *)
LEMMA OpenPoolInv ==
    ASSUME IInv, NEW o \in Slots, OpenPool(o)
    PROVE  IInv'
<1>1. /\ stage[o] = "blocks" /\ next[o] <= Len(cuts[o]) /\ ~Serially(o) /\ SlotInv(o)
      /\ next[o] \in Nat /\ Len(cuts[o]) \in Nat /\ opt \in Calls
  BY NatElements DEF OpenPool, IInv, TypeOK
<1>2. /\ base' = [base EXCEPT ![o] = next[o]]
      /\ sent' = [sent EXCEPT ![o] = 0]
      /\ results' = [results EXCEPT ![o] = [i \in Slots |-> <<>>]]
      /\ stage' = [stage EXCEPT ![o] = "send"]
      /\ UNCHANGED <<call, main, plans, cuts, next, store, points, scratch>>
  BY DEF OpenPool
<1>3. PICK t : /\ t \in [Workers -> {Off, Recv}]
               /\ task' = [task EXCEPT ![o] = t]
  BY DEF OpenPool
<1>4. <<>> \in Seq(Tokens)
  OBVIOUS
<1>5. TypeOK'
  BY <1>1, <1>2, <1>3, <1>4, SizesAssumption DEF IInv, TypeOK, call, main, Stages
<1>6. /\ stage'[o] = "send" /\ base'[o] = next[o] /\ sent'[o] = 0 /\ task'[o] = t
  BY <1>2, <1>3 DEF IInv, TypeOK
<1>7. /\ in' = in /\ opt' = opt /\ first' = first /\ cuts' = cuts /\ next' = next
      /\ store' = store /\ points' = points
  BY <1>2 DEF call, main
<1>8. FrameInv(o)'
  BY <1>1, <1>6, <1>7 DEF SlotInv, FrameInv, From, To, PartFrom, PartTo, CutsInside, Covers
<1>9. PoolSize(o)' \in Nat /\ base'[o] + PoolSize(o)' <= Len(cuts[o]) + 1
  <2>1. NestedWorkers \in Int
    BY <1>1, CallFields DEF NestedWorkers
  <2>2. CompressionWorkers(opt, NestedWorkers, Len(cuts[o]) + 1) \in 1..MaxCompressionWorkers
    BY <1>1, <2>1, WorkersBounds
  <2>3. PoolSize(o)' = Smaller(CompressionWorkers(opt, NestedWorkers, Len(cuts[o]) + 1),
                               Len(cuts[o]) + 1 - next[o])
    BY <1>6, <1>7 DEF PoolSize, NestedWorkers, BatchWorkers, Parts
  <2> QED BY <1>1, <1>6, <2>2, <2>3, SizesAssumption DEF Smaller
<1>10. Serially(o)' = Serially(o)
  BY <1>7 DEF Serially, NestedWorkers, BatchWorkers, Parts
<1>11. PoolInv(o)'
  BY <1>1, <1>3, <1>6, <1>7, <1>9, <1>10 DEF PoolInv, Off, Recv
<1>12. OwnScratch(o)'
  BY <1>3, <1>6 DEF OwnScratch, Off, Recv
<1>13. \A q \in Slots \ {o} :
         /\ stage'[q] = stage[q] /\ base'[q] = base[q] /\ sent'[q] = sent[q]
         /\ results'[q] = results[q] /\ task'[q] = task[q]
  BY <1>2, <1>3 DEF IInv, TypeOK
<1> QED BY <1>1, <1>2, <1>5, <1>6, <1>8, <1>11, <1>12, <1>13, OtherSlots DEF IInv

(* Handing a block to a worker preserves the invariant.                    *)
LEMMA SendInv ==
    ASSUME IInv, NEW o \in Slots, NEW w \in Workers, Send(o, w)
    PROVE  IInv'
<1>1. /\ stage[o] = "send" /\ sent[o] < PoolSize(o) /\ SlotInv(o)
      /\ sent[o] \in Nat /\ base[o] \in Nat /\ Len(cuts[o]) \in Nat
  BY NatElements DEF Send, IInv, TypeOK
<1>2. /\ base[o] + PoolSize(o) <= Len(cuts[o]) + 1
      /\ next[o] = base[o] /\ next[o] <= Len(cuts[o]) + 1
  BY <1>1 DEF SlotInv, PoolInv, FrameInv
<1>3. PoolSize(o) \in 1..MaxCompressionWorkers /\ base[o] + sent[o] <= Len(cuts[o])
  <2>1. PoolSize(o) \in Int
    <3>1. NestedWorkers \in Int
      BY CallFields DEF NestedWorkers, IInv, TypeOK
    <3>2. CompressionWorkers(opt, NestedWorkers, Len(cuts[o]) + 1) \in 1..MaxCompressionWorkers
      BY <1>1, <3>1, WorkersBounds DEF IInv, TypeOK
    <3> QED BY <1>1, <3>2, SizesAssumption DEF PoolSize, Smaller
  <2>2. base[o] <= Len(cuts[o]) /\ base[o] + sent[o] <= Len(cuts[o])
    BY <1>1, <1>2, <2>1
  <2> QED BY <2>2, PoolBounds
<1> DEFINE k == sent[o]
           r == BlockRange(o, base[o] + k)
<1>4. r \in Nat \X Nat
  BY <1>1, <1>3, RangeFacts
<1>5. k \in Slots
  BY <1>1, <1>3, SizesAssumption DEF Slots
<1>6. /\ task' = [task EXCEPT ![o][w] = k] /\ sent' = [sent EXCEPT ![o] = k + 1]
      /\ scratch' = [scratch EXCEPT ![<<o, w>>] = r]
      /\ UNCHANGED <<call, main, plans, frame, base, results>>
  BY DEF Send, ScratchOf
<1> HIDE DEF r
<1>7. TypeOK'
  <2>1. task' \in [Slots -> [Workers -> {Off, Recv} \cup Slots]]
    BY <1>5, <1>6 DEF IInv, TypeOK
  <2>2. sent' \in [Slots -> 0..MaxCompressionWorkers]
    <3>1. k + 1 \in 0..MaxCompressionWorkers
      BY <1>1, <1>3, SizesAssumption
    <3> QED BY <3>1, <1>6 DEF IInv, TypeOK
  <2> QED BY <1>4, <1>6, <2>1, <2>2 DEF IInv, TypeOK, call, main, frame
<1>8. /\ task'[o] = [task[o] EXCEPT ![w] = k] /\ sent'[o] = k + 1
      /\ task[o] \in [Workers -> {Off, Recv} \cup Slots]
      /\ scratch'[<<o, w>>] = r
      /\ \A q \in Slots, v \in {Own} \cup Workers :
            <<q, v>> # <<o, w>> => scratch'[<<q, v>>] = scratch[<<q, v>>]
  BY <1>6 DEF IInv, TypeOK
<1>9. /\ in' = in /\ opt' = opt /\ first' = first /\ cuts' = cuts /\ next' = next
      /\ store' = store /\ points' = points /\ stage' = stage /\ base' = base
      /\ results' = results
  BY <1>6 DEF call, main, frame
<1>10. FrameInv(o)'
  BY <1>1, <1>9, FrameStable DEF SlotInv
<1>11. PoolSize(o)' = PoolSize(o) /\ Serially(o)' = Serially(o)
       /\ \A n : BlockRange(o, n)' = BlockRange(o, n)
  BY <1>9 DEF PoolSize, Serially, NestedWorkers, BatchWorkers, Parts, BlockRange, PartFrom, PartTo
<1>12. PoolInv(o)'
  <2>1. ASSUME NEW i \in 0..(sent'[o] - 1)
        PROVE  \/ \E v \in Workers : task'[o][v] = i
               \/ results[o][i] = Parse(in, BlockRange(o, base[o] + i)[1],
                                            BlockRange(o, base[o] + i)[2])
    <3>1. CASE i = k
      BY <3>1, <1>8
    <3>2. CASE i # k
      <4>1. i \in 0..(sent[o] - 1)
        BY <3>2, <1>1, <1>8
      <4>2. CASE \E v \in Workers : task[o][v] = i
        <5>1. PICK v \in Workers : task[o][v] = i
          BY <4>2
        <5>2. v # w
          BY <4>1, <5>1, <1>1 DEF Send, Recv
        <5> QED BY <5>1, <5>2, <1>8
      <4>3. CASE results[o][i] = Parse(in, BlockRange(o, base[o] + i)[1],
                                           BlockRange(o, base[o] + i)[2])
        BY <4>3
      <4> QED BY <4>1, <4>2, <4>3, <1>1 DEF SlotInv, PoolInv
    <3> QED BY <3>1, <3>2
  <2>2. \A v \in Workers : task'[o][v] < sent'[o]
    <3>1. SUFFICES ASSUME NEW v \in Workers PROVE task'[o][v] < sent'[o]
      OBVIOUS
    <3>2. task[o][v] < sent[o] /\ task[o][v] \in Int
      BY <1>1, <1>8 DEF SlotInv, PoolInv, Off, Recv, Slots
    <3> QED BY <3>2, <1>1, <1>8
  <2>3. sent'[o] <= PoolSize(o)
    BY <1>1, <1>3, <1>8
  <2> QED BY <1>1, <1>2, <1>9, <1>11, <2>1, <2>2, <2>3 DEF SlotInv, PoolInv
<1>13. OwnScratch(o)'
  <2>1. ASSUME NEW v \in Workers, task'[o][v] >= 0
        PROVE  scratch'[<<o, v>>] = BlockRange(o, base[o] + task'[o][v])
    <3>1. CASE v = w
      BY <3>1, <1>8 DEF r
    <3>2. CASE v # w
      <4>1. task'[o][v] = task[o][v]
        BY <3>2, <1>8
      <4>2. scratch[<<o, v>>] = BlockRange(o, base[o] + task[o][v])
        BY <2>1, <4>1, <1>1 DEF SlotInv, OwnScratch, ScratchOf
      <4> QED BY <3>2, <4>1, <4>2, <1>8
    <3> QED BY <3>1, <3>2
  <2> QED BY <1>1, <1>9, <1>11, <2>1 DEF OwnScratch, ScratchOf
<1>14. \A q \in Slots \ {o} : task'[q] = task[q] /\ sent'[q] = sent[q]
  BY <1>6 DEF IInv, TypeOK
<1> QED BY <1>1, <1>6, <1>7, <1>8, <1>9, <1>10, <1>12, <1>13, <1>14, OtherSlots DEF IInv

(* Storing the result of a worker preserves the invariant.                 *)
LEMMA ParseTaskInv ==
    ASSUME IInv, NEW o \in Slots, NEW w \in Workers, ParseTask(o, w)
    PROVE  IInv'
<1> DEFINE k == task[o][w]
           s == Parse(in, BlockRange(o, base[o] + k)[1], BlockRange(o, base[o] + k)[2])
<1>1. /\ k >= 0 /\ SlotInv(o) /\ task[o] \in [Workers -> {Off, Recv} \cup Slots]
      /\ sent[o] \in Nat /\ base[o] \in Nat /\ Len(cuts[o]) \in Nat
  BY NatElements DEF ParseTask, IInv, TypeOK
<1>2. stage[o] \in {"send", "drain"}
  BY <1>1 DEF SlotInv, PoolInv, Off
<1>3. k \in Slots /\ k < sent[o] /\ sent[o] <= PoolSize(o)
  BY <1>1, <1>2 DEF SlotInv, PoolInv, Off, Recv, Slots
<1>4. scratch[<<o, w>>] = BlockRange(o, base[o] + k)
  BY <1>1 DEF SlotInv, OwnScratch, ScratchOf
<1>5. base[o] + k \in Nat /\ base[o] + k <= Len(cuts[o])
  <2>1. base[o] + PoolSize(o) <= Len(cuts[o]) + 1
    BY <1>1, <1>2 DEF SlotInv, PoolInv
  <2>2. PoolSize(o) \in Int
    <3>1. NestedWorkers \in Int
      BY CallFields DEF NestedWorkers, IInv, TypeOK
    <3>2. CompressionWorkers(opt, NestedWorkers, Len(cuts[o]) + 1) \in 1..MaxCompressionWorkers
      BY <1>1, <3>1, WorkersBounds DEF IInv, TypeOK
    <3> QED BY <1>1, <3>2, SizesAssumption DEF PoolSize, Smaller
  <2> QED BY SMTT(30), <1>1, <1>3, <2>1, <2>2 DEF Slots
<1>6. s \in Seq(Tokens)
  BY <1>2, <1>5, RangeFacts DEF Covers
<1>7. /\ results' = [results EXCEPT ![o][k] = s]
      /\ task' = [task EXCEPT ![o][w] = Recv]
      /\ UNCHANGED <<call, main, plans, frame, sent, base, scratch>>
  BY <1>4 DEF ParseTask, Optimized, ScratchOf
<1>8. TypeOK'
  BY <1>3, <1>6, <1>7 DEF IInv, TypeOK, call, main, frame
<1>9. /\ task'[o] = [task[o] EXCEPT ![w] = Recv]
      /\ results'[o] = [results[o] EXCEPT ![k] = s] /\ results[o] \in [Slots -> Seq(Tokens)]
  BY <1>3, <1>7 DEF IInv, TypeOK
<1>10. /\ in' = in /\ opt' = opt /\ first' = first /\ cuts' = cuts /\ next' = next
       /\ store' = store /\ points' = points /\ stage' = stage /\ base' = base
       /\ sent' = sent /\ scratch' = scratch
  BY <1>7 DEF call, main, frame
<1>11. FrameInv(o)'
  BY <1>1, <1>10, FrameStable DEF SlotInv
<1>12. PoolSize(o)' = PoolSize(o) /\ Serially(o)' = Serially(o)
       /\ \A n : BlockRange(o, n)' = BlockRange(o, n)
  BY <1>10 DEF PoolSize, Serially, NestedWorkers, BatchWorkers, Parts, BlockRange, PartFrom, PartTo
<1>13. PoolInv(o)'
  <2>1. ASSUME NEW i \in 0..(sent[o] - 1)
        PROVE  \/ \E v \in Workers : task'[o][v] = i
               \/ results'[o][i] = Parse(in, BlockRange(o, base[o] + i)[1],
                                             BlockRange(o, base[o] + i)[2])
    <3>1. i \in Slots
      <4>1. PoolSize(o) <= MaxCompressionWorkers
        BY <1>1, <1>3, <1>5, PoolBounds DEF Slots
      <4>2. PoolSize(o) \in Int
        BY <1>1, <1>3, <1>5, PoolBounds DEF Slots
      <4> QED BY <4>1, <4>2, <1>1, <1>3, SizesAssumption DEF Slots
    <3>2. CASE i = k
      BY <3>1, <3>2, <1>9
    <3>3. CASE i # k
      <4>1. results'[o][i] = results[o][i]
        BY <3>1, <3>3, <1>9
      <4>2. ASSUME NEW v \in Workers, task[o][v] = i
            PROVE  task'[o][v] = i
        BY <4>2, <3>3, <1>9
      <4> QED BY <4>1, <4>2, <1>1, <1>2 DEF SlotInv, PoolInv
    <3> QED BY <3>2, <3>3
  <2>2. \A v \in Workers : task'[o][v] < sent[o]
    BY <1>1, <1>9 DEF SlotInv, PoolInv, Recv
  <2> QED BY <1>1, <1>2, <1>10, <1>12, <2>1, <2>2 DEF SlotInv, PoolInv
<1>14. OwnScratch(o)'
  <2>1. ASSUME NEW v \in Workers, task'[o][v] >= 0
        PROVE  scratch[<<o, v>>] = BlockRange(o, base[o] + task'[o][v])
    <3>1. task'[o][v] = task[o][v]
      BY <2>1, <1>9 DEF Recv
    <3> QED BY <2>1, <3>1, <1>1 DEF SlotInv, OwnScratch, ScratchOf
  <2> QED BY <1>2, <1>10, <1>12, <2>1 DEF OwnScratch, ScratchOf
<1>15. \A q \in Slots \ {o} : task'[q] = task[q] /\ results'[q] = results[q]
  BY <1>7 DEF IInv, TypeOK
<1> QED BY <1>2, <1>7, <1>8, <1>10, <1>11, <1>13, <1>14, <1>15, OtherSlots DEF IInv

(* Closing the channel of tasks preserves the invariant.                   *)
LEMMA CloseTasksInv ==
    ASSUME IInv, NEW o \in Slots, CloseTasks(o)
    PROVE  IInv'
<1>1. stage[o] = "send" /\ sent[o] = PoolSize(o) /\ SlotInv(o)
  BY DEF CloseTasks, IInv
<1>2. /\ stage' = [stage EXCEPT ![o] = "drain"]
      /\ UNCHANGED <<call, main, plans, cuts, next, store, points, pool, scratch>>
  BY DEF CloseTasks
<1>3. /\ in' = in /\ opt' = opt /\ first' = first /\ cuts' = cuts /\ next' = next
      /\ store' = store /\ points' = points /\ base' = base /\ task' = task
      /\ sent' = sent /\ results' = results /\ scratch' = scratch /\ stage'[o] = "drain"
  BY <1>2 DEF call, main, pool, IInv, TypeOK
<1>4. TypeOK'
  BY <1>2 DEF IInv, TypeOK, call, main, pool, Stages
<1>5. FrameInv(o)'
  BY <1>1, <1>3 DEF SlotInv, FrameInv, From, To, PartFrom, PartTo, CutsInside, Covers
<1>6. PoolSize(o)' = PoolSize(o) /\ Serially(o)' = Serially(o)
       /\ \A n : BlockRange(o, n)' = BlockRange(o, n)
  BY <1>3 DEF PoolSize, Serially, NestedWorkers, BatchWorkers, Parts, BlockRange, PartFrom, PartTo
<1>7. PoolInv(o)'
  BY <1>1, <1>3, <1>6 DEF SlotInv, PoolInv
<1>8. OwnScratch(o)'
  BY <1>1, <1>3, <1>6 DEF SlotInv, OwnScratch, ScratchOf
<1> QED BY <1>1, <1>2, <1>3, <1>4, <1>5, <1>7, <1>8, OtherSlots DEF IInv, pool

(* A worker that ends preserves the invariant.                             *)
LEMMA StopWorkerInv ==
    ASSUME IInv, NEW o \in Slots, NEW w \in Workers, StopWorker(o, w)
    PROVE  IInv'
<1>1. stage[o] = "drain" /\ task[o][w] = Recv /\ SlotInv(o) /\ sent[o] \in Nat
      /\ task[o] \in [Workers -> {Off, Recv} \cup Slots]
  BY DEF StopWorker, IInv, TypeOK
<1>2. /\ task' = [task EXCEPT ![o][w] = Off]
      /\ UNCHANGED <<call, main, plans, frame, sent, base, results, scratch>>
  BY DEF StopWorker
<1>3. /\ in' = in /\ opt' = opt /\ first' = first /\ cuts' = cuts /\ next' = next
      /\ store' = store /\ points' = points /\ base' = base /\ stage' = stage
      /\ sent' = sent /\ results' = results /\ scratch' = scratch
      /\ task'[o] = [task[o] EXCEPT ![w] = Off]
  BY <1>2 DEF call, main, frame, IInv, TypeOK
<1>4. TypeOK'
  BY <1>2 DEF IInv, TypeOK, call, main, frame
<1>5. FrameInv(o)'
  BY <1>1, <1>3, FrameStable DEF SlotInv
<1>6. PoolSize(o)' = PoolSize(o) /\ Serially(o)' = Serially(o)
       /\ \A n : BlockRange(o, n)' = BlockRange(o, n)
  BY <1>3 DEF PoolSize, Serially, NestedWorkers, BatchWorkers, Parts, BlockRange, PartFrom, PartTo
<1>7. PoolInv(o)'
  <2>1. \A i \in 0..(sent[o] - 1) : \A v \in Workers : task[o][v] = i => task'[o][v] = i
    BY <1>1, <1>3 DEF Recv
  <2>2. \A v \in Workers : task'[o][v] < sent[o]
    BY <1>1, <1>3 DEF SlotInv, PoolInv, Off
  <2> QED BY <1>1, <1>3, <1>6, <2>1, <2>2 DEF SlotInv, PoolInv
<1>8. OwnScratch(o)'
  <2>1. \A v \in Workers : task'[o][v] >= 0 => task'[o][v] = task[o][v]
    BY <1>1, <1>3 DEF Off
  <2> QED BY <1>1, <1>3, <1>6, <2>1 DEF SlotInv, OwnScratch, ScratchOf
<1>9. \A q \in Slots \ {o} : task'[q] = task[q]
  BY <1>2 DEF IInv, TypeOK
<1> QED BY <1>1, <1>2, <1>3, <1>4, <1>5, <1>7, <1>8, <1>9, OtherSlots DEF IInv

(* The wg.Wait of a pool preserves the invariant: with no worker running,  *)
(* each result sent for is there.                                          *)
LEMMA CollectInv ==
    ASSUME IInv, NEW o \in Slots, Collect(o)
    PROVE  IInv'
<1>1. /\ stage[o] = "drain" /\ SlotInv(o) /\ \A w \in Workers : task[o][w] = Off
      /\ next[o] \in Nat /\ base[o] \in Nat /\ Len(cuts[o]) \in Nat
  BY NatElements DEF Collect, IInv, TypeOK
<1>2. /\ stage' = [stage EXCEPT ![o] = "join"]
      /\ UNCHANGED <<call, main, plans, cuts, next, store, points, pool, scratch>>
  BY DEF Collect
<1>3. /\ in' = in /\ opt' = opt /\ first' = first /\ cuts' = cuts /\ next' = next
      /\ store' = store /\ points' = points /\ base' = base /\ task' = task
      /\ sent' = sent /\ results' = results /\ scratch' = scratch /\ stage'[o] = "join"
  BY <1>2 DEF call, main, pool, IInv, TypeOK
<1>4. TypeOK'
  BY <1>2 DEF IInv, TypeOK, call, main, pool, Stages
<1>5. FrameInv(o)'
  BY <1>1, <1>3 DEF SlotInv, FrameInv, From, To, PartFrom, PartTo, CutsInside, Covers
<1>6. PoolSize(o)' = PoolSize(o) /\ Serially(o)' = Serially(o)
       /\ \A n : BlockRange(o, n)' = BlockRange(o, n)
  BY <1>3 DEF PoolSize, Serially, NestedWorkers, BatchWorkers, Parts, BlockRange, PartFrom, PartTo
<1>7. PoolInv(o)'
  <2>1. PoolSize(o) \in 1..MaxCompressionWorkers
    BY <1>1, PoolBounds DEF SlotInv, PoolInv
  <2> QED BY <1>1, <1>3, <1>6, <2>1, SizesAssumption DEF SlotInv, PoolInv
<1>8. OwnScratch(o)'
  BY <1>1, <1>3, <1>6 DEF OwnScratch, Off
<1> QED BY <1>1, <1>2, <1>3, <1>4, <1>5, <1>7, <1>8, OtherSlots DEF IInv, pool

(* Joining the result of a pool preserves the invariant.                   *)
LEMMA JoinResultInv ==
    ASSUME IInv, NEW o \in Slots, JoinResult(o)
    PROVE  IInv'
<1>1. /\ stage[o] = "join" /\ SlotInv(o)
      /\ next[o] \in Nat /\ base[o] \in Nat /\ Len(cuts[o]) \in Nat
  BY NatElements DEF JoinResult, IInv, TypeOK
<1>2. /\ base[o] <= Len(cuts[o]) /\ base[o] + PoolSize(o) <= Len(cuts[o]) + 1
      /\ base[o] <= next[o] /\ next[o] < base[o] + PoolSize(o) /\ sent[o] = PoolSize(o)
      /\ \A w \in Workers : task[o][w] = Off
  BY <1>1 DEF SlotInv, PoolInv
<1>3. PoolSize(o) \in Nat
  BY <1>2, PoolBounds, SizesAssumption
<1>4. next[o] <= Len(cuts[o]) /\ next[o] - base[o] \in 0..(sent[o] - 1)
  BY <1>1, <1>2, <1>3
<1>5. results[o][next[o] - base[o]] =
        Parse(in, BlockRange(o, next[o])[1], BlockRange(o, next[o])[2])
  <2>1. base[o] + (next[o] - base[o]) = next[o]
    BY <1>1
  <2>2. ~ \E w \in Workers : task[o][w] = next[o] - base[o]
    BY <1>2, <1>4 DEF Off
  <2> QED BY <1>1, <1>4, <2>1, <2>2 DEF SlotInv, PoolInv
<1>6. /\ Join(o, Parse(in, BlockRange(o, next[o])[1], BlockRange(o, next[o])[2]))
      /\ stage' = [stage EXCEPT ![o] =
                     IF next'[o] = base[o] + PoolSize(o) THEN "blocks" ELSE "join"]
      /\ UNCHANGED <<call, main, plans, cuts, pool, scratch>>
  BY <1>1, <1>5 DEF JoinResult
<1>7. /\ in' = in /\ opt' = opt /\ first' = first /\ cuts' = cuts
      /\ task' = task /\ sent' = sent /\ base' = base /\ results' = results
      /\ stage'[o] = IF next'[o] = base[o] + PoolSize(o) THEN "blocks" ELSE "join"
  BY <1>6 DEF call, main, pool, IInv, TypeOK
<1>8. /\ FrameInv(o)'
      /\ store' \in [Slots -> Seq(Tokens)]
      /\ points' \in [Slots -> Seq(Nat)]
      /\ next' \in [Slots -> Nat]
  BY <1>1, <1>4, <1>6, <1>7, JoinStep
<1>9. TypeOK'
  BY <1>6, <1>8 DEF IInv, TypeOK, call, main, pool, Stages
<1>10. next'[o] = next[o] + 1
  BY <1>6 DEF Join, IInv, TypeOK
<1>11. PoolSize(o)' = PoolSize(o) /\ Serially(o)' = Serially(o)
       /\ \A n : BlockRange(o, n)' = BlockRange(o, n)
  BY <1>7 DEF PoolSize, Serially, NestedWorkers, BatchWorkers, Parts, BlockRange, PartFrom, PartTo
<1>12. PoolInv(o)'
  <2>1. CASE next'[o] = base[o] + PoolSize(o)
    <3>1. stage'[o] = "blocks" /\ \A w \in Workers : task'[o][w] = Off
      BY <2>1, <1>2, <1>7
    <3>2. \A w \in Workers : task'[o][w] < sent'[o]
      BY <1>1, <1>7 DEF SlotInv, PoolInv
    <3> QED BY <3>1, <3>2 DEF PoolInv
  <2>2. CASE next'[o] # base[o] + PoolSize(o)
    <3>1. stage'[o] = "join"
      BY <2>2, <1>7
    <3>2. base[o] <= next'[o] /\ next'[o] < base[o] + PoolSize(o)
      BY <2>2, <1>1, <1>2, <1>3, <1>10
    <3> QED BY <3>1, <3>2, <1>1, <1>2, <1>7, <1>11 DEF SlotInv, PoolInv
  <2> QED BY <2>1, <2>2
<1>13. OwnScratch(o)'
  BY <1>2, <1>7 DEF OwnScratch, Off
<1>14. /\ UNCHANGED <<call, main, plans, cuts, pool, scratch>>
       /\ \A q \in Slots \ {o} : stage'[q] = stage[q]
  BY <1>6 DEF IInv, TypeOK
<1>15. \A q \in Slots \ {o} :
         store'[q] = store[q] /\ points'[q] = points[q] /\ next'[q] = next[q]
  BY <1>6 DEF Join, IInv, TypeOK
<1> QED BY <1>1, <1>7, <1>8, <1>9, <1>12, <1>13, <1>14, <1>15, OtherSlots DEF IInv, pool

(* Delivering a plan, with either way to split it, preserves the           *)
(* invariant.                                                              *)
LEMMA SplitAgainInv ==
    ASSUME IInv, NEW o \in Slots, SplitAgain(o)
    PROVE  IInv'
<1>1. /\ stage[o] = "blocks" /\ next[o] > Len(cuts[o]) /\ SlotInv(o)
      /\ in \in Inputs /\ opt \in Calls
      /\ next[o] \in Nat /\ Len(cuts[o]) \in Nat
      /\ store[o] \in Seq(Tokens) /\ points[o] \in Seq(Nat)
  BY NatElements DEF SplitAgain, IInv, TypeOK
<1>2. /\ opt.btype = 2 /\ store[o] \in Stores(in)
      /\ Covers(store[o], From(o), To(o))
      /\ CutsInside(points[o], 0, Len(store[o]))
  <2>1. next[o] > 0 /\ ~(next[o] <= Len(cuts[o]))
    BY <1>1
  <2> QED BY <1>1, <2>1 DEF SlotInv, FrameInv
<1> DEFINE pts == IF opt.splitting /\ Len(cuts[o]) > 1 /\ Cheaper(in, first + o)
                  THEN BlockSplitLZ77(in, store[o]) ELSE points[o]
           plan == Plan(opt.btype, From(o), To(o), store[o], pts)
<1>3. CutsInside(pts, 0, Len(store[o]))
  BY <1>1, <1>2, StoresAssumption
<1>4. pts \in Seq(Nat)
  BY <1>3 DEF CutsInside
<1>5. From(o) \in Nat /\ To(o) \in Nat
  BY <1>1, SlotFacts, CallAssumption
<1> HIDE DEF pts
<1>6. plan \in Plans
  BY <1>1, <1>2, <1>4, <1>5 DEF Plan, Plans
<1>7. /\ plans' = [plans EXCEPT ![o] = plan] /\ stage' = [stage EXCEPT ![o] = "done"]
      /\ UNCHANGED <<call, main, cuts, next, store, points, pool, scratch>>
  BY DEF SplitAgain, Deliver, From, To, pts
<1>8. PlanOf(plan, first + o)
  BY <1>2, <1>3 DEF PlanOf, Plan, From, To
<1> HIDE DEF plan
<1>9. TypeOK'
  BY <1>6, <1>7 DEF IInv, TypeOK, call, main, pool, Stages
<1>10. plans'[o] = plan /\ stage'[o] = "done"
  BY <1>7 DEF IInv, TypeOK
<1>11. /\ in' = in /\ opt' = opt /\ first' = first /\ task' = task /\ sent' = sent
  BY <1>7 DEF call, main, pool
<1>12. FrameInv(o)'
  BY <1>10 DEF FrameInv
<1>13. PoolInv(o)'
  BY <1>1, <1>10, <1>11 DEF SlotInv, PoolInv
<1>14. OwnScratch(o)'
  BY <1>10, <1>11, <1>13 DEF OwnScratch, PoolInv, Off
<1>15. PlanOf(plans[o], first + o)'
  BY <1>8, <1>10, <1>11 DEF PlanOf, PartFrom, PartTo
<1> QED BY SMTT(30), <1>1, <1>7, <1>9, <1>10, <1>12, <1>13, <1>14, <1>15, OtherSlots DEF IInv, pool

-----------------------------------------------------------------------------
(* The steps of the main goroutine preserve the invariant.                 *)

(* The invariant holds when deflate is called.                             *)
LEMMA InitInv == Init => IInv
<1> SUFFICES ASSUME Init PROVE IInv
  OBVIOUS
<1>1. /\ <<>> \in Seq(Tokens) /\ <<>> \in Seq(Nat) /\ <<>> \in Seq(OutBlocks)
      /\ Len(<<>>) = 0
  OBVIOUS
<1>2. TypeOK
  <2>1. ZeroPlan \in Plans
    BY <1>1 DEF ZeroPlan, Plan, Plans
  <2>2. results \in [Slots -> [Slots -> Seq(Tokens)]]
    BY <1>1 DEF Init
  <2> QED BY <1>1, <2>1, <2>2, SizesAssumption DEF Init, TypeOK, Stages
<1>3. BatchInv
  BY DEF Init, BatchInv, Busy
<1>4. OutInv
  BY <1>1 DEF Init, OutInv
<1>5. ASSUME NEW o \in Slots PROVE SlotInv(o)
  BY DEF Init, SlotInv, FrameInv, PoolInv, OwnScratch, Off
<1> QED BY <1>2, <1>3, <1>4, <1>5 DEF IInv

(* Writing the empty input preserves the invariant.                        *)
LEMMA WriteEmptyInv ==
    ASSUME IInv, WriteEmpty
    PROVE  IInv'
<1>1. /\ pc = "begin" /\ in.len = 0 /\ pc' = "done"
      /\ out' = <<Piece(EmptyBlock, 0, TRUE)>>
      /\ UNCHANGED <<call, first, slot, block, written, plans, frame, pool, scratch>>
  BY DEF WriteEmpty
<1>2. out = <<>> /\ \A o \in Slots : stage[o] = "none"
  BY <1>1 DEF IInv, OutInv, BatchInv, Busy
<1> DEFINE b == Piece(EmptyBlock, 0, TRUE)
<1>3. b.final = TRUE /\ b.to = 0 /\ b \in OutBlocks
  <2>1. <<>> \in Seq(Tokens)
    OBVIOUS
  <2> QED BY <2>1 DEF Piece, EmptyBlock, ChunkTo, OutBlocks
<1> HIDE DEF b
<1>4. /\ out' \in Seq(OutBlocks) /\ Len(out') = 1 /\ out'[1] = b /\ out' # <<>>
  <2>1. out' = <<b>>
    BY <1>1 DEF b
  <2> QED BY <1>3, <2>1
<1>5. TypeOK'
  BY <1>1, <1>4 DEF IInv, TypeOK, call, frame, pool
<1>6. BatchInv'
  BY <1>1, <1>2 DEF BatchInv, Busy, frame
<1>7. OutInv'
  <2>1. ASSUME NEW n \in 1..Len(out')
        PROVE  out'[n].final <=> n = Len(out') /\ pc' = "done"
    <3>1. n = 1 /\ out'[n].final = TRUE
      BY <1>3, <1>4
    <3> QED BY <3>1, <1>1, <1>4
  <2>2. Written' = in'.len
    BY <1>1, <1>3, <1>4 DEF Written, call
  <2> QED BY <1>1, <1>4, <2>1, <2>2 DEF OutInv
<1>8. ASSUME NEW o \in Slots PROVE SlotInv(o)'
  BY <1>1, <1>2 DEF IInv, SlotInv, FrameInv, PoolInv, OwnScratch, Off, frame, pool
<1> QED BY <1>5, <1>6, <1>7, <1>8 DEF IInv

(* Starting on the first part preserves the invariant.                     *)
LEMMA BeginInv ==
    ASSUME IInv, Begin
    PROVE  IInv'
<1>1. /\ pc = "begin" /\ in.len > 0 /\ pc' = "spawn"
      /\ UNCHANGED <<call, first, slot, block, written, out, plans, frame, pool, scratch>>
  BY DEF Begin
<1>2. /\ out = <<>> /\ first = 0 /\ slot = 0 /\ \A o \in Slots : stage[o] = "none"
      /\ in \in Inputs /\ opt \in Calls
  BY <1>1 DEF IInv, OutInv, BatchInv, Busy, TypeOK
<1>3. first < Parts /\ BatchSize > 0
  BY <1>1, <1>2, PartsPositive, BatchBounds
<1>4. in' = in /\ opt' = opt /\ first' = first /\ slot' = slot /\ out' = out /\ stage' = stage
  BY <1>1 DEF call, frame
<1>5. Parts' = Parts /\ BatchSize' = BatchSize
  BY <1>4 DEF Parts, BatchSize, BatchWorkers
<1>6. TypeOK'
  BY <1>1 DEF IInv, TypeOK, call, frame, pool
<1>7. BatchInv'
  BY <1>1, <1>2, <1>3, <1>4, <1>5 DEF BatchInv, Busy
<1>8. OutInv'
  <2>1. Written' = PartFrom(first)'
    BY <1>2, <1>4, SizesAssumption DEF Written, PartFrom
  <2>2. Len(out) = 0
    BY <1>2
  <2> QED BY <1>1, <1>2, <1>4, <2>1, <2>2 DEF OutInv
<1>9. ASSUME NEW o \in Slots PROVE SlotInv(o)'
  BY <1>1, <1>2, <1>4 DEF IInv, SlotInv, FrameInv, PoolInv, OwnScratch, Off, pool
<1> QED BY <1>6, <1>7, <1>8, <1>9 DEF IInv

(* Starting the goroutine of a part preserves the invariant.               *)
LEMMA SpawnInv ==
    ASSUME IInv, Spawn
    PROVE  IInv'
<1>1. /\ pc = "spawn" /\ slot < BatchSize /\ first < Parts
      /\ stage' = [stage EXCEPT ![slot] = "split"]
      /\ next' = [next EXCEPT ![slot] = 0]
      /\ store' = [store EXCEPT ![slot] = <<>>]
      /\ points' = [points EXCEPT ![slot] = <<>>]
      /\ slot' = slot + 1
      /\ pc' = IF slot + 1 = BatchSize THEN "wait" ELSE "spawn"
      /\ UNCHANGED <<call, first, block, written, out, plans, cuts, pool, scratch>>
  BY DEF Spawn, IInv, BatchInv
<1>2. in \in Inputs /\ opt \in Calls /\ first \in Nat /\ slot \in Nat
  BY DEF IInv, TypeOK
<1>3. in.len > 0
  BY <1>1, <1>2, CallAssumption DEF Parts
<1>4. BatchSize \in 1..MaxCompressionWorkers /\ slot \in Slots
  BY <1>1, <1>2, <1>3, BatchBounds, SizesAssumption DEF Slots
<1>5. stage[slot] = "none"
  BY <1>1, <1>2, <1>4 DEF IInv, BatchInv, Busy
<1>6. /\ in' = in /\ opt' = opt /\ first' = first /\ out' = out /\ cuts' = cuts
      /\ plans' = plans /\ block' = block /\ written' = written
      /\ task' = task /\ sent' = sent /\ base' = base /\ results' = results
      /\ scratch' = scratch
  BY <1>1 DEF call, pool
<1>7. Parts' = Parts /\ BatchSize' = BatchSize
  BY <1>6 DEF Parts, BatchSize, BatchWorkers
<1>8. TypeOK'
  <2>1. <<>> \in Seq(Tokens) /\ <<>> \in Seq(Nat)
    OBVIOUS
  <2>2. slot' \in 0..MaxCompressionWorkers
    BY <1>1, <1>2, <1>4, SizesAssumption
  <2> QED BY <1>1, <1>6, <2>1, <2>2 DEF IInv, TypeOK, Stages
<1>9. BatchInv'
  <2>1. Busy' = 0..slot
    BY <1>1, <1>2, <1>4, <1>7 DEF Busy
  <2>2. \A o \in Slots : stage[o] # "none" <=> o \in 0..(slot - 1)
    BY <1>1 DEF IInv, BatchInv, Busy
  <2>3. \A o \in Slots : stage'[o] # "none" <=> o \in 0..slot
    <3>1. SUFFICES ASSUME NEW o \in Slots PROVE stage'[o] # "none" <=> o \in 0..slot
      OBVIOUS
    <3>2. CASE o = slot
      BY <3>2, <1>1, <1>2 DEF IInv, TypeOK
    <3>3. CASE o # slot
      <4>1. stage'[o] = stage[o]
        BY <3>3, <1>1 DEF IInv, TypeOK
      <4> QED BY <3>3, <4>1, <2>2, <1>2 DEF Slots
    <3> QED BY <3>2, <3>3
  <2>4. pc' = "spawn" => slot' < BatchSize
    BY <1>1, <1>2, <1>4
  <2> QED BY <1>1, <1>6, <1>7, <2>1, <2>3, <2>4 DEF BatchInv
<1>10. OutInv'
  BY <1>1, <1>6 DEF IInv, OutInv, Written, PartFrom
<1>11. ASSUME NEW o \in Slots PROVE SlotInv(o)'
  <2>1. SlotInv(o)
    BY DEF IInv
  <2>2. CASE o = slot
    <3>1. stage'[o] = "split" /\ next'[o] = 0 /\ store'[o] = <<>> /\ points'[o] = <<>>
      BY <2>2, <1>1 DEF IInv, TypeOK
    <3>2. \A w \in Workers : task[o][w] = Off /\ task[o][w] < sent[o]
      BY <2>1, <2>2, <1>5 DEF SlotInv, PoolInv
    <3>3. FrameInv(o)'
      BY <3>1 DEF FrameInv
    <3>4. PoolInv(o)'
      BY <3>1, <3>2, <1>6 DEF PoolInv
    <3>5. OwnScratch(o)'
      BY <3>1, <3>2, <1>6 DEF OwnScratch, Off
    <3> QED BY <3>1, <3>3, <3>4, <3>5 DEF SlotInv
  <2>3. CASE o # slot
    <3>1. /\ stage'[o] = stage[o] /\ next'[o] = next[o] /\ store'[o] = store[o]
          /\ points'[o] = points[o]
      BY <2>3, <1>1 DEF IInv, TypeOK
    <3> QED BY <2>1, <3>1, <1>6, FrameStable, PoolStable, ScratchStable, PlanStable DEF SlotInv
  <2> QED BY <2>2, <2>3
<1> QED BY <1>8, <1>9, <1>10, <1>11 DEF IInv

(* The wg.Wait of deflate preserves the invariant: the first block to be   *)
(* written starts where the stream ends.                                   *)
LEMMA WaitInv ==
    ASSUME IInv, Wait
    PROVE  IInv'
<1>1. /\ pc = "wait" /\ first < Parts /\ pc' = "write"
      /\ \A o \in 0..(BatchSize - 1) : stage[o] = "done"
      /\ slot' = 0 /\ block' = 0 /\ written' = 0
      /\ UNCHANGED <<call, first, out, plans, frame, pool, scratch>>
  BY DEF Wait, IInv, BatchInv
<1>2. /\ in \in Inputs /\ opt \in Calls /\ first \in Nat /\ plans \in [Slots -> Plans]
  BY DEF IInv, TypeOK
<1>3. in.len > 0
  BY <1>1, <1>2, CallAssumption DEF Parts
<1>4. BatchSize \in 1..MaxCompressionWorkers /\ 0 \in Slots /\ stage[0] = "done"
  BY <1>1, <1>2, <1>3, BatchBounds, SizesAssumption DEF Slots
<1>5. /\ in' = in /\ opt' = opt /\ first' = first /\ out' = out /\ stage' = stage
      /\ plans' = plans /\ cuts' = cuts /\ next' = next /\ store' = store /\ points' = points
      /\ task' = task /\ sent' = sent /\ base' = base /\ results' = results
      /\ scratch' = scratch
  BY <1>1 DEF call, frame, pool
<1>6. Parts' = Parts /\ BatchSize' = BatchSize /\ Busy' = Busy
  BY <1>1, <1>5 DEF Parts, BatchSize, BatchWorkers, Busy
<1>7. TypeOK'
  BY <1>1, <1>5, SizesAssumption DEF IInv, TypeOK
<1>8. BatchInv'
  <2>1. Busy = 0..(BatchSize - 1)
    BY <1>1 DEF Busy
  <2>2. \A o \in Slots : stage[o] # "none" <=> o \in Busy
    BY DEF IInv, BatchInv
  <2> QED BY <1>1, <1>4, <1>5, <1>6, <2>1, <2>2 DEF BatchInv
<1> DEFINE plan == plans[0]
           b == PlannedBlock(in, plan, 0)
<1>9. plan \in Plans /\ PlanOf(plan, first)
  <2>1. SlotInv(0) /\ first + 0 = first
    BY <1>2, <1>4 DEF IInv
  <2> QED BY <1>2, <1>4, <2>1 DEF SlotInv
<1>10. 0 < Blocks(plan)
  <2>1. plan.points \in Seq(Nat)
    BY <1>9 DEF Plans
  <2> QED BY <2>1 DEF Blocks
<1>11. b.from \in Nat /\ b.to \in Nat /\ b.from < b.to /\ b.from = PartFrom(first)
  BY <1>1, <1>2, <1>3, <1>9, <1>10, BlockOfPlan
<1>12. OutInv'
  <2>1. Pending' = b
    BY <1>1, <1>5 DEF Pending
  <2>2. Written' = PartFrom(first)
    BY <1>1, <1>5 DEF IInv, OutInv, Written
  <2>3. \A n \in 1..Len(out) : ~out[n].final
    BY <1>1 DEF IInv, OutInv
  <2> HIDE DEF b
  <2> QED BY <1>1, <1>5, <1>10, <1>11, <2>1, <2>2, <2>3 DEF OutInv
<1>13. ASSUME NEW o \in Slots PROVE SlotInv(o)'
  BY <1>5, FrameStable, PoolStable, ScratchStable, PlanStable DEF IInv, SlotInv
<1> QED BY <1>7, <1>8, <1>12, <1>13 DEF IInv

(* Length and elements of a sequence with one more element.                *)
LEMMA AppendElements ==
    ASSUME NEW S, NEW s \in Seq(S), NEW e \in S
    PROVE  /\ Append(s, e) \in Seq(S) /\ Append(s, e) # <<>>
           /\ Len(Append(s, e)) = Len(s) + 1 /\ Len(s) \in Nat
           /\ Append(s, e)[Len(s) + 1] = e
           /\ \A n \in 1..Len(s) : Append(s, e)[n] = s[n]
  OBVIOUS

(* The block being written and the piece of it that is written next.       *)
LEMMA WriteFacts ==
    ASSUME IInv, pc = "write"
    PROVE  /\ in \in Inputs /\ opt \in Calls /\ in.len \in Nat /\ in.len > 0
           /\ first \in Nat /\ first < Parts
           /\ slot \in Slots /\ slot < BatchSize /\ BatchSize \in 1..MaxCompressionWorkers
           /\ first + slot \in Nat /\ first + slot < Parts
           /\ plans[slot] \in Plans /\ PlanOf(plans[slot], first + slot)
           /\ block \in Nat /\ block < Blocks(plans[slot])
           /\ Blocks(plans[slot]) \in Nat
           /\ Pending.from \in Nat /\ Pending.to \in Nat /\ Pending.from < Pending.to
           /\ Pending.to <= PartTo(first + slot) /\ PartTo(first + slot) <= in.len
           /\ written \in Nat /\ Written = Pending.from + written
           /\ ChunkTo(Pending, written) \in Nat
           /\ Written < ChunkTo(Pending, written) /\ ChunkTo(Pending, written) <= Pending.to
           /\ LastChunk(Pending, written) <=> ChunkTo(Pending, written) = Pending.to
           /\ Pending.kind # "stored" => LastChunk(Pending, written)
<1>1. /\ in \in Inputs /\ opt \in Calls /\ first \in Nat /\ first < Parts /\ slot < BatchSize
      /\ block \in Nat /\ written \in Nat /\ slot \in Nat
      /\ plans \in [Slots -> Plans]
  BY DEF IInv, TypeOK, BatchInv
<1>2. /\ block < Blocks(plans[slot])
      /\ Written = Pending.from + written
      /\ written < Pending.to - Pending.from
      /\ Pending.kind # "stored" => written = 0
  BY DEF IInv, OutInv
<1>3. in.len \in Nat /\ in.len > 0
  BY <1>1, CallAssumption DEF Parts
<1>4. BatchSize \in 1..MaxCompressionWorkers /\ slot \in 0..(BatchSize - 1)
  BY <1>1, <1>3, BatchBounds
<1>5. slot \in Slots /\ first + slot \in Nat /\ first + slot < Parts
  BY <1>1, <1>3, <1>4, BatchBounds
<1>6. stage[slot] = "done"
  BY <1>4, <1>5 DEF IInv, BatchInv, Busy
<1>7. plans[slot] \in Plans /\ PlanOf(plans[slot], first + slot)
  BY <1>1, <1>5, <1>6 DEF IInv, SlotInv
<1>8. Blocks(plans[slot]) \in Nat
  BY <1>7, NatElements DEF Blocks, Plans
<1>9. /\ Pending.from \in Nat /\ Pending.to \in Nat /\ Pending.from < Pending.to
      /\ Pending.to <= PartTo(first + slot)
  BY <1>1, <1>2, <1>3, <1>5, <1>7, BlockOfPlan DEF Pending
<1>10. PartTo(first + slot) <= in.len
  BY <1>1, <1>3, <1>5, PartBounds
<1>11. /\ ChunkTo(Pending, written) \in Nat
       /\ Pending.from + written < ChunkTo(Pending, written)
       /\ ChunkTo(Pending, written) <= Pending.to
       /\ LastChunk(Pending, written) <=> ChunkTo(Pending, written) = Pending.to
       /\ Pending.kind # "stored" => LastChunk(Pending, written)
  BY <1>1, <1>2, <1>9, PieceOfBlock
<1> QED BY <1>1, <1>2, <1>3, <1>4, <1>5, <1>7, <1>8, <1>9, <1>10, <1>11

(* The final bit is set on the piece that ends with the input. *)
LEMMA FinalIsEnd ==
    ASSUME IInv, pc = "write"
    PROVE  /\ IsFinal \in BOOLEAN
           /\ IsFinal <=> ChunkTo(Pending, written) = in.len
<1> DEFINE p == first + slot
           plan == plans[slot]
           to == ChunkTo(Pending, written)
<1>1. /\ in \in Inputs /\ opt \in Calls /\ in.len \in Nat /\ in.len > 0
      /\ p \in Nat /\ p < Parts /\ plan \in Plans /\ PlanOf(plan, p)
      /\ block \in Nat /\ block < Blocks(plan) /\ Blocks(plan) \in Nat
      /\ Pending.from \in Nat /\ Pending.to \in Nat
      /\ Pending.to <= PartTo(p) /\ PartTo(p) <= in.len
      /\ to \in Nat /\ to <= Pending.to
      /\ LastChunk(Pending, written) <=> to = Pending.to
  BY WriteFacts
<1>2. FinalPart(p) <=> PartTo(p) = in.len
  BY <1>1, FinalPartIsLast, PartBounds
<1>3. block = Blocks(plan) - 1 => Pending.to = PartTo(p)
  BY <1>1, BlockOfPlan DEF Pending
<1>4. block + 1 < Blocks(plan) => Pending.to < PartTo(p)
  <2>1. SUFFICES ASSUME block + 1 < Blocks(plan) PROVE Pending.to < PartTo(p)
    OBVIOUS
  <2> DEFINE b == PlannedBlock(in, plan, block + 1)
  <2>2. b.from = Pending.to
    BY <1>1, <2>1, BlockOfPlan DEF Pending
  <2>3. b.from \in Nat /\ b.to \in Nat /\ b.from < b.to /\ b.to <= PartTo(p)
    <3>1. block + 1 \in Nat
      BY <1>1
    <3> QED BY <1>1, <2>1, <3>1, BlockOfPlan
  <2>4. PartTo(p) \in Nat
    BY <1>1, PartBounds
  <2> QED BY <1>1, <2>2, <2>3, <2>4
<1>5. PartTo(p) \in Nat
  BY <1>1, PartBounds
<1>6. block = Blocks(plan) - 1 \/ block + 1 < Blocks(plan)
  BY <1>1
<1>7. IsFinal <=> FinalPart(p) /\ block = Blocks(plan) - 1 /\ LastChunk(Pending, written)
  BY DEF IsFinal
<1> HIDE DEF p, plan, to
<1>8. CASE block = Blocks(plan) - 1
  BY <1>1, <1>2, <1>3, <1>5, <1>7, <1>8 DEF IsFinal, to
<1>9. CASE block + 1 < Blocks(plan)
  BY <1>1, <1>4, <1>5, <1>7, <1>9 DEF IsFinal, to
<1> QED BY <1>6, <1>8, <1>9 DEF to

(* Slots whose plan is still to be written keep what they know while main  *)
(* writes; a slot that holds nothing knows nothing.                        *)
LEMMA IdleSlot ==
    ASSUME NEW o \in Slots, PoolInv(o), stage'[o] = "none",
           task'[o] = task[o], sent'[o] = sent[o], stage[o] \in {"done", "none"}
    PROVE  SlotInv(o)'
<1>1. \A w \in Workers : task[o][w] = Off /\ task[o][w] < sent[o]
  BY DEF PoolInv
<1>2. FrameInv(o)' /\ PoolInv(o)' /\ OwnScratch(o)'
  BY <1>1 DEF FrameInv, PoolInv, OwnScratch, Off
<1> QED BY <1>2 DEF SlotInv

(* The last part of the last batch, in numbers. *)
LEMMA LastOfBatch ==
    ASSUME NEW f \in Nat, NEW s \in Nat, NEW parts \in Nat, NEW size \in Nat,
           NEW workers \in Nat, s < size, size <= parts - f,
           f + workers < parts => size = workers,
           f + workers >= parts => size = parts - f
    PROVE  /\ f + s = parts - 1 <=> s = size - 1 /\ f + workers >= parts
           /\ s = size - 1 /\ f + workers < parts => f + workers = (f + s) + 1
           /\ s # size - 1 => /\ s + 1 < size /\ s + 1 \in s..(size - 1)
                             /\ f + (s + 1) \in Nat /\ f + (s + 1) < parts
                             /\ f + (s + 1) = (f + s) + 1
           /\ f + workers < parts => parts - (f + workers) > 0
  OBVIOUS

(* Writing a piece of a block preserves the invariant: the stream goes on  *)
(* with the rest of the block, the next block, the next plan or the next   *)
(* batch, or it ends.                                                      *)
LEMMA WriteInv ==
    ASSUME IInv, Write
    PROVE  IInv'
<1> DEFINE plan == plans[slot]
           to == ChunkTo(Pending, written)
           piece == Piece(Pending, written, IsFinal)
           lastOfBlock == LastChunk(Pending, written)
           lastOfPlan == lastOfBlock /\ block = Blocks(plan) - 1
           lastOfBatch == lastOfPlan /\ slot = BatchSize - 1
<1>1. /\ pc = "write"
      /\ out' = Append(out, piece)
      /\ written' = IF lastOfBlock THEN 0 ELSE to - Pending.from
      /\ block' = IF lastOfPlan THEN 0 ELSE IF lastOfBlock THEN block + 1 ELSE block
      /\ plans' = IF lastOfPlan THEN [plans EXCEPT ![slot] = ZeroPlan] ELSE plans
      /\ stage' = IF lastOfPlan THEN [stage EXCEPT ![slot] = "none"] ELSE stage
      /\ slot' = IF lastOfBatch THEN 0 ELSE IF lastOfPlan THEN slot + 1 ELSE slot
      /\ first' = IF lastOfBatch THEN first + BatchWorkers ELSE first
      /\ pc' = IF ~lastOfBatch THEN "write" ELSE IF first' < Parts THEN "spawn" ELSE "done"
      /\ UNCHANGED <<call, cuts, next, store, points, pool, scratch>>
  BY DEF Write
<1>2. /\ in \in Inputs /\ opt \in Calls /\ in.len \in Nat /\ in.len > 0
      /\ first \in Nat /\ first < Parts
      /\ slot \in Slots /\ slot < BatchSize /\ BatchSize \in 1..MaxCompressionWorkers
      /\ first + slot \in Nat /\ first + slot < Parts
      /\ plan \in Plans /\ PlanOf(plan, first + slot)
      /\ block \in Nat /\ block < Blocks(plan) /\ Blocks(plan) \in Nat
      /\ Pending.from \in Nat /\ Pending.to \in Nat /\ Pending.from < Pending.to
      /\ written \in Nat /\ Written = Pending.from + written
      /\ to \in Nat /\ Written < to /\ to <= Pending.to
      /\ lastOfBlock <=> to = Pending.to
      /\ Pending.kind # "stored" => lastOfBlock
  BY <1>1, WriteFacts
<1>3. IsFinal \in BOOLEAN /\ (IsFinal <=> to = in.len)
  BY <1>1, FinalIsEnd
<1>4. /\ piece \in OutBlocks /\ piece.final = IsFinal /\ piece.to = to
  <2>1. Pending.kind \in {"stored", "fixed", "dynamic"} /\ Pending.tokens \in Seq(Tokens)
    BY <1>2, BlockOfPlan DEF Pending
  <2> QED BY <1>2, <1>3, <2>1 DEF Piece, OutBlocks
<1>5. /\ in' = in /\ opt' = opt /\ cuts' = cuts /\ next' = next /\ store' = store
      /\ points' = points /\ task' = task /\ sent' = sent /\ base' = base
      /\ results' = results /\ scratch' = scratch
  BY <1>1 DEF call, pool
<1>6. Parts' = Parts /\ BatchWorkers' = BatchWorkers /\ \A p : PartFrom(p)' = PartFrom(p)
  BY <1>5 DEF Parts, BatchWorkers, PartFrom
<1>7. /\ Parts \in Nat \ {0} /\ BatchWorkers \in Nat \ {0} /\ BatchSize \in Nat
      /\ BatchSize <= Parts - first
      /\ first + BatchWorkers < Parts => BatchSize = BatchWorkers
      /\ first + BatchWorkers >= Parts => BatchSize = Parts - first
  BY <1>2, PartsPositive, BatchBounds
<1>n. slot \in Nat /\ slot < MaxCompressionWorkers /\ BatchSize <= MaxCompressionWorkers
      /\ MaxCompressionWorkers \in Nat
  BY <1>2, SizesAssumption DEF Slots
<1>m. /\ first + slot = Parts - 1 <=> slot = BatchSize - 1 /\ first + BatchWorkers >= Parts
      /\ slot = BatchSize - 1 /\ first + BatchWorkers < Parts
            => first + BatchWorkers = (first + slot) + 1
      /\ slot # BatchSize - 1 => /\ slot + 1 < BatchSize /\ slot + 1 \in slot..(BatchSize - 1)
                                /\ first + (slot + 1) \in Nat /\ first + (slot + 1) < Parts
                                /\ first + (slot + 1) = (first + slot) + 1
      /\ first + BatchWorkers < Parts => Parts - (first + BatchWorkers) > 0
  <2>1. BatchWorkers \in Nat /\ Parts \in Nat
    BY <1>7
  <2>2. first \in Nat /\ slot < BatchSize
    BY <1>2
  <2> QED BY <1>7, <1>n, <2>1, <2>2, LastOfBatch
<1>8. /\ out \in Seq(OutBlocks) /\ out' \in Seq(OutBlocks) /\ out' # <<>>
      /\ Len(out') = Len(out) + 1 /\ Len(out) \in Nat
      /\ out'[Len(out')] = piece /\ \A n \in 1..Len(out) : out'[n] = out[n]
  <2>1. out \in Seq(OutBlocks)
    BY DEF IInv, TypeOK
  <2> QED BY <1>1, <1>4, <2>1, AppendElements
<1>9. Written' = to
  BY <1>4, <1>8 DEF Written
<1>10. \A n \in 1..Len(out) : ~out[n].final
  BY <1>1 DEF IInv, OutInv
<1>11. to = in.len <=> lastOfBatch /\ first + BatchWorkers >= Parts
  <2> DEFINE p == first + slot
  <2>1. /\ PartTo(p) \in Nat /\ PartTo(p) <= in.len /\ (PartTo(p) = in.len <=> p = Parts - 1)
    BY <1>2, PartBounds
  <2>2. Pending.to <= PartTo(p)
    BY <1>1, WriteFacts
  <2>3. block = Blocks(plan) - 1 => Pending.to = PartTo(p)
    BY <1>2, BlockOfPlan DEF Pending
  <2>4. p = Parts - 1 <=> slot = BatchSize - 1 /\ first + BatchWorkers >= Parts
    BY <1>m
  <2>5. IsFinal => block = Blocks(plan) - 1 /\ lastOfBlock /\ p = Parts - 1
    <3>1. FinalPart(p) <=> p = Parts - 1
      BY <1>2, FinalPartIsLast
    <3> QED BY <3>1 DEF IsFinal
  <2>6. CASE to = in.len
    BY <2>4, <2>5, <2>6, <1>3
  <2>7. CASE lastOfBatch /\ first + BatchWorkers >= Parts
    BY <2>1, <2>3, <2>4, <2>7, <1>2
  <2> QED BY <2>6, <2>7
<1>12. pc' = "done" <=> to = in.len
  <2>1. Parts \in Nat /\ first + BatchWorkers \in Nat
    BY <1>2, <1>7
  <2>2. CASE lastOfBatch
    <3>1. first' = first + BatchWorkers /\ pc' = IF first' < Parts THEN "spawn" ELSE "done"
      BY <1>1, <2>2
    <3>2. pc' = "done" <=> first + BatchWorkers >= Parts
      BY <2>1, <3>1
    <3> QED BY <3>2, <2>2, <1>11
  <2>3. CASE ~lastOfBatch
    <3>1. pc' = "write"
      BY <1>1, <2>3
    <3> QED BY <3>1, <2>3, <1>11
  <2> QED BY <2>2, <2>3
<1>13. \A n \in 1..Len(out') : out'[n].final <=> n = Len(out') /\ pc' = "done"
  <2>1. SUFFICES ASSUME NEW n \in 1..Len(out')
                 PROVE  out'[n].final <=> n = Len(out') /\ pc' = "done"
    OBVIOUS
  <2>2. CASE n = Len(out')
    BY <2>2, <1>3, <1>4, <1>8, <1>12
  <2>3. CASE n # Len(out')
    <3>1. n \in 1..Len(out)
      BY <2>3, <1>8
    <3> QED BY <2>3, <3>1, <1>8, <1>10
  <2> QED BY <2>2, <2>3
<1>14. \A o \in Slots : stage[o] # "none" <=> o \in slot..(BatchSize - 1)
  BY <1>1 DEF IInv, BatchInv, Busy
<1>15. \A o \in Slots : o \in slot..(BatchSize - 1) => stage[o] = "done"
  BY <1>1 DEF IInv, BatchInv, Busy
<1>16. /\ stage \in [Slots -> Stages] /\ plans \in [Slots -> Plans] /\ slot \in Nat
  BY DEF IInv, TypeOK
<1>17. ZeroPlan \in Plans
  <2>1. <<>> \in Seq(Tokens) /\ <<>> \in Seq(Nat)
    OBVIOUS
  <2> QED BY <2>1 DEF ZeroPlan, Plan, Plans
<1>18. TypeOK'
  <2>1. written' \in Nat /\ block' \in Nat /\ first' \in Nat
    <3>1. to - Pending.from \in Nat
      BY <1>2
    <3>2. block + 1 \in Nat /\ first + BatchWorkers \in Nat
      BY <1>2, <1>7
    <3>3. written' \in Nat
      BY <1>1, <3>1
    <3>4. block' \in Nat
      BY <1>1, <1>2, <3>2
    <3>5. first' \in Nat
      BY <1>1, <1>2, <3>2
    <3> QED BY <3>3, <3>4, <3>5
  <2>2. slot' \in 0..MaxCompressionWorkers
    <3>1. 0 \in 0..MaxCompressionWorkers /\ slot \in 0..MaxCompressionWorkers
          /\ slot + 1 \in 0..MaxCompressionWorkers
      BY <1>n
    <3> QED BY <1>1, <3>1
  <2>3. plans' \in [Slots -> Plans] /\ stage' \in [Slots -> Stages]
    BY <1>1, <1>16, <1>17 DEF Stages
  <2>4. pc' \in {"begin", "spawn", "wait", "write", "done"}
    BY <1>1
  <2> QED BY <1>5, <1>8, <2>1, <2>2, <2>3, <2>4 DEF IInv, TypeOK
<1> HIDE DEF plan, to, piece, lastOfBlock
(* A stored block goes on. *)
<1>19. CASE ~lastOfBlock
  <2>1. /\ written' = to - Pending.from /\ block' = block /\ plans' = plans /\ stage' = stage
        /\ slot' = slot /\ first' = first /\ pc' = "write" /\ pc = "write"
    BY <1>19, <1>1
  <2>2. Pending' = Pending
    BY <2>1, <1>5 DEF Pending
  <2>3. BatchSize' = BatchSize
    BY <2>1, <1>6 DEF BatchSize
  <2>4. BatchInv'
    BY <2>1, <2>3, <1>6 DEF IInv, BatchInv, Busy
  <2>5. OutInv'
    <3>1. /\ (Written = Pending.from + written)' /\ (written < Pending.to - Pending.from)'
          /\ Pending.kind = "stored"
      <4>1. to < Pending.to
        BY <1>2, <1>19
      <4>2. to = Pending.from + (to - Pending.from) /\ to - Pending.from < Pending.to - Pending.from
        BY <4>1, <1>2
      <4>3. Pending.kind = "stored"
        BY <1>2, <1>19
      <4> QED BY <2>1, <2>2, <4>2, <4>3, <1>9
    <3> QED BY <2>1, <2>2, <3>1, <1>2, <1>13 DEF OutInv, plan
  <2>6. ASSUME NEW o \in Slots PROVE SlotInv(o)'
    BY <2>1, <1>5, FrameStable, PoolStable, ScratchStable, PlanStable DEF IInv, SlotInv
  <2> QED BY <2>4, <2>5, <2>6, <1>18 DEF IInv
(* The next block of the same plan. *)
<1>20. CASE lastOfBlock /\ block # Blocks(plan) - 1
  <2>1. /\ written' = 0 /\ block' = block + 1 /\ plans' = plans /\ stage' = stage
        /\ slot' = slot /\ first' = first /\ pc' = "write" /\ pc = "write"
    BY <1>20, <1>1
  <2>2. block + 1 \in Nat /\ block + 1 < Blocks(plan)
    BY <1>2, <1>20
  <2> DEFINE b == PlannedBlock(in, plan, block + 1)
  <2>3. Pending' = b
    BY <2>1, <1>5 DEF Pending, plan
  <2>4. b.from \in Nat /\ b.to \in Nat /\ b.from < b.to
    BY <2>2, <1>2, BlockOfPlan
  <2>5. b.from = Pending.to
    BY <2>2, <1>2, BlockOfPlan DEF Pending, plan
  <2> HIDE DEF b
  <2>6. BatchSize' = BatchSize
    BY <2>1, <1>6 DEF BatchSize
  <2>7. BatchInv'
    BY <2>1, <2>6, <1>6 DEF IInv, BatchInv, Busy
  <2>8. OutInv'
    <3>1. /\ (Written = Pending.from + written)' /\ (written < Pending.to - Pending.from)'
      BY <2>1, <2>3, <2>4, <2>5, <1>2, <1>9, <1>20
    <3>2. (block < Blocks(plans[slot]))'
      BY <2>1, <2>2 DEF plan, Blocks
    <3> QED BY <2>1, <3>1, <3>2, <1>13 DEF OutInv
  <2>9. ASSUME NEW o \in Slots PROVE SlotInv(o)'
    BY <2>1, <1>5, FrameStable, PoolStable, ScratchStable, PlanStable DEF IInv, SlotInv
  <2> QED BY <2>7, <2>8, <2>9, <1>18 DEF IInv
(* The next plan of the batch. *)
<1>21. CASE lastOfBlock /\ block = Blocks(plan) - 1 /\ slot # BatchSize - 1
  <2>1. /\ written' = 0 /\ block' = 0 /\ plans' = [plans EXCEPT ![slot] = ZeroPlan]
        /\ stage' = [stage EXCEPT ![slot] = "none"]
        /\ slot' = slot + 1 /\ first' = first /\ pc' = "write" /\ pc = "write"
    BY <1>21, <1>1
  <2>2. slot + 1 < BatchSize /\ slot + 1 \in Slots /\ slot + 1 \in slot..(BatchSize - 1)
        /\ first + (slot + 1) \in Nat /\ first + (slot + 1) < Parts
        /\ first + (slot + 1) = (first + slot) + 1
    <3>1. slot + 1 \in Slots
      BY <1>m, <1>n, <1>7, <1>21 DEF Slots
    <3> QED BY <1>m, <1>21, <3>1
  <2> DEFINE nextPlan == plans[slot + 1]
             b == PlannedBlock(in, nextPlan, 0)
  <2>3. nextPlan \in Plans /\ PlanOf(nextPlan, first + (slot + 1))
    BY <2>2, <1>15, <1>16 DEF IInv, SlotInv
  <2>4. plans'[slot + 1] = nextPlan
    BY <2>1, <2>2, <1>16
  <2>5. Pending' = b
    BY <2>1, <2>4, <1>5 DEF Pending
  <2>6. 0 < Blocks(nextPlan)
    BY <2>3, NatElements DEF Blocks, Plans
  <2>7. /\ b.from \in Nat /\ b.to \in Nat /\ b.from < b.to
        /\ b.from = PartFrom(first + (slot + 1))
    BY SMTT(30), <2>2, <2>3, <2>6, <1>2, BlockOfPlan
  <2>8. b.from = Pending.to
    <3>1. Pending.to = PartTo(first + slot)
      BY <1>2, <1>21, BlockOfPlan DEF Pending, plan
    <3>2. PartTo(first + slot) = PartFrom((first + slot) + 1)
      BY <2>2, <1>2, PartBounds
    <3> QED BY <2>2, <2>7, <3>1, <3>2
  <2> HIDE DEF b
  <2>9. BatchSize' = BatchSize
    BY <2>1, <1>6 DEF BatchSize
  <2>10. BatchInv'
    <3>1. Busy' = (slot + 1)..(BatchSize - 1)
      BY <2>1, <2>9 DEF Busy
    <3>2. ASSUME NEW o \in Slots
          PROVE  /\ stage'[o] # "none" <=> o \in (slot + 1)..(BatchSize - 1)
                 /\ o \in (slot + 1)..(BatchSize - 1) => stage'[o] = "done"
      <4>1. CASE o = slot
        BY <2>1, <4>1, <1>16
      <4>2. CASE o # slot
        <5>1. stage'[o] = stage[o] /\ o \in Int
          BY <2>1, <4>2, <1>16 DEF Slots
        <5> QED BY <4>2, <5>1, <1>2, <1>14, <1>15, <1>16
      <4> QED BY <4>1, <4>2
    <3>3. \A o \in (slot + 1)..(BatchSize - 1) : o \in Slots
      BY <1>n, <1>7 DEF Slots
    <3> QED BY <2>1, <2>2, <2>9, <3>1, <3>2, <3>3, <1>2, <1>6 DEF BatchInv
  <2>11. OutInv'
    <3>1. /\ (Written = Pending.from + written)' /\ (written < Pending.to - Pending.from)'
      BY <2>1, <2>5, <2>7, <2>8, <1>2, <1>9, <1>21
    <3>2. (block < Blocks(plans[slot]))'
      BY <2>1, <2>4, <2>6 DEF Blocks
    <3> QED BY <2>1, <3>1, <3>2, <1>13 DEF OutInv
  <2>12. ASSUME NEW o \in Slots PROVE SlotInv(o)'
    <3>1. SlotInv(o)
      BY DEF IInv
    <3>2. CASE o = slot
      <4>1. stage'[o] = "none" /\ stage[o] = "done"
        BY <2>1, <3>2, <1>2, <1>15, <1>16
      <4> QED BY <3>1, <4>1, <1>5, IdleSlot DEF SlotInv
    <3>3. CASE o # slot
      <4>1. stage'[o] = stage[o] /\ plans'[o] = plans[o]
        BY <2>1, <3>3, <1>16
      <4> QED BY <2>1, <3>1, <4>1, <1>5, FrameStable, PoolStable, ScratchStable, PlanStable
              DEF SlotInv
    <3> QED BY <3>2, <3>3
  <2> QED BY <2>10, <2>11, <2>12, <1>18 DEF IInv
(* The next batch, or the end. *)
<1>22. CASE lastOfBatch
  <2>1. /\ written' = 0 /\ block' = 0
        /\ stage' = [stage EXCEPT ![slot] = "none"]
        /\ slot' = 0 /\ first' = first + BatchWorkers
        /\ pc' = IF first' < Parts THEN "spawn" ELSE "done"
    BY <1>22, <1>1
  <2>2. \A o \in Slots : stage'[o] = "none" /\ stage[o] \in {"done", "none"}
    BY SMTT(30), <2>1, <1>2, <1>14, <1>15, <1>16, <1>22 DEF Slots
  <2>3. BatchInv'
    <3>1. Busy' = {}
      BY <2>1 DEF Busy
    <3>2. pc' = "spawn" => BatchSize' > 0
      <4>1. SUFFICES ASSUME pc' = "spawn" PROVE BatchSize' > 0
        OBVIOUS
      <4>2. first + BatchWorkers < Parts
        BY <2>1, <4>1
      <4>3. BatchSize' = Smaller(BatchWorkers, Parts - (first + BatchWorkers))
        BY <2>1, <1>6 DEF BatchSize
      <4>4. Parts - (first + BatchWorkers) > 0 /\ BatchWorkers > 0
        BY <4>2, <1>m, <1>7
      <4> QED BY <4>3, <4>4 DEF Smaller
    <3> QED BY <2>1, <2>2, <3>1, <3>2, <1>6 DEF BatchInv
  <2>4. OutInv'
    <3>1. pc' = "spawn" => to = PartFrom(first')
      <4>1. SUFFICES ASSUME pc' = "spawn" PROVE to = PartFrom(first + BatchWorkers)
        BY <2>1
      <4>2. first + BatchWorkers < Parts /\ first + BatchWorkers = (first + slot) + 1
        <5>1. first + BatchWorkers < Parts
          BY <2>1, <4>1
        <5> QED BY <5>1, <1>m, <1>22
      <4>3. PartTo(first + slot) = PartFrom((first + slot) + 1)
        BY <4>2, <1>2, PartBounds
      <4>4. to = Pending.to /\ Pending.to = PartTo(first + slot)
        BY <1>2, <1>22, BlockOfPlan DEF Pending, plan
      <4> QED BY <4>2, <4>3, <4>4
    <3>2. pc' = "done" => to = in.len
      BY <1>12
    <3> QED BY <2>1, <3>1, <3>2, <1>5, <1>6, <1>8, <1>9, <1>13 DEF OutInv
  <2>5. ASSUME NEW o \in Slots PROVE SlotInv(o)'
    BY <2>2, <1>5, IdleSlot DEF IInv, SlotInv
  <2> QED BY <2>3, <2>4, <2>5, <1>18 DEF IInv
<1> QED BY <1>19, <1>20, <1>21, <1>22

(* The invariant is one of the variables alone.                            *)
LEMMA StutterInv ==
    ASSUME IInv, UNCHANGED vars
    PROVE  IInv'
<1>1. /\ in' = in /\ opt' = opt /\ pc' = pc /\ first' = first /\ slot' = slot /\ block' = block
      /\ written' = written /\ out' = out /\ plans' = plans /\ stage' = stage
      /\ cuts' = cuts /\ next' = next /\ store' = store /\ points' = points /\ task' = task
      /\ sent' = sent /\ base' = base /\ results' = results /\ scratch' = scratch
  BY DEF vars, call, main, frame, pool
<1>2. Parts' = Parts /\ BatchSize' = BatchSize /\ \A p : PartFrom(p)' = PartFrom(p)
  BY <1>1 DEF Parts, BatchSize, BatchWorkers, PartFrom
<1>3. TypeOK'
  BY <1>1 DEF IInv, TypeOK
<1>4. BatchInv'
  BY <1>1, <1>2 DEF IInv, BatchInv, Busy
<1>5. OutInv'
  BY <1>1, <1>2 DEF IInv, OutInv, Written, Pending
<1>6. ASSUME NEW o \in Slots PROVE SlotInv(o)'
  BY <1>1, FrameStable, PoolStable, ScratchStable, PlanStable DEF IInv, SlotInv
<1> QED BY <1>3, <1>4, <1>5, <1>6 DEF IInv

(* Every step of the main goroutine, of the goroutines of a batch and of   *)
(* the workers of their pools preserves the invariant.                     *)
THEOREM NextInv ==
    ASSUME IInv, [Next]_vars
    PROVE  IInv'
<1>1. CASE Main
  BY <1>1, WriteEmptyInv, BeginInv, SpawnInv, WaitInv, WriteInv DEF Main
<1>2. ASSUME NEW o \in Slots, Prepare(o) PROVE IInv'
  BY <1>2, PlanWholeInv, SplitPartInv, LoadBlockInv, ParseBlockInv, OpenPoolInv, CloseTasksInv,
     CollectInv, JoinResultInv, SplitAgainInv DEF Prepare
<1>3. ASSUME NEW o \in Slots, NEW w \in Workers, Worker(o, w) PROVE IInv'
  BY <1>3, SendInv, ParseTaskInv, StopWorkerInv DEF Worker
<1>4. CASE UNCHANGED vars
  BY <1>4, StutterInv
<1> QED BY <1>1, <1>2, <1>3, <1>4 DEF Next, Returned

(* The inductive invariant holds in every state of every run: batches,     *)
(* frames, pools, scratch memories, plans and the stream stay consistent   *)
(* for every input, part size, number of workers and splitting.            *)
THEOREM Invariant == Spec => []IInv
<1>1. Init => IInv
  BY InitInv
<1>2. IInv /\ [Next]_vars => IInv'
  BY NextInv
<1> QED BY <1>1, <1>2, PTL DEF Spec

(* Every variable of deflate and its goroutines stays in its range.        *)
THEOREM TypeCorrect == Spec => []TypeOK
<1>1. IInv => TypeOK
  BY DEF IInv
<1> QED BY <1>1, Invariant, PTL

(* The final bit is set exactly on the last block, which ends the input.   *)
THEOREM FinalBlock == Spec => []OneFinalBlock
<1>1. ASSUME IInv PROVE OneFinalBlock
  <2>1. out \in Seq(OutBlocks)
    BY <1>1 DEF IInv, TypeOK
  <2>2. \A n \in 1..Len(out) : out[n].final <=> n = Len(out) /\ pc = "done"
    BY <1>1 DEF IInv, OutInv
  <2>3. pc = "done" => out # <<>> /\ Written = in.len
    BY <1>1 DEF IInv, OutInv
  <2>4. out # <<>> => Len(out) \in 1..Len(out)
    BY <2>1
  <2>5. ASSUME NEW n \in 1..Len(out), out[n].final
        PROVE  n = Len(out) /\ pc = "done" /\ out[n].to = in.len
    BY <2>2, <2>3, <2>5 DEF Written
  <2>6. pc = "done" => out[Len(out)].final
    BY <2>2, <2>3, <2>4
  <2> QED BY <2>3, <2>5, <2>6 DEF OneFinalBlock
<1> QED BY <1>1, Invariant, PTL

(* Plans are written behind wg.Wait only: the unwritten ones are delivered *)
(* and no goroutine of the batch runs.                                     *)
THEOREM WritesAfterWait == Spec => []WriteAfterWait
<1>1. ASSUME IInv PROVE WriteAfterWait
  <2>1. SUFFICES ASSUME pc = "write"
                 PROVE  /\ \A o \in slot..(BatchSize - 1) :
                              stage[o] = "done" /\ plans[o].to = PartTo(first + o)
                        /\ \A o \in Slots \ (slot..(BatchSize - 1)) : stage[o] = "none"
    BY DEF WriteAfterWait
  <2>2. Busy = slot..(BatchSize - 1)
    BY <2>1 DEF Busy
  <2>3. /\ \A o \in Slots : stage[o] # "none" <=> o \in Busy
        /\ \A o \in Busy : stage[o] = "done"
    BY <1>1, <2>1 DEF IInv, BatchInv
  <2>4. ASSUME NEW o \in slot..(BatchSize - 1)
        PROVE  stage[o] = "done" /\ plans[o].to = PartTo(first + o)
    <3>2. in \in Inputs /\ opt \in Calls /\ first \in Nat /\ slot \in Nat
      BY <1>1 DEF IInv, TypeOK
    <3>1. in.len > 0 /\ first < Parts
      BY <1>1, <2>1, <3>2, CallAssumption DEF IInv, BatchInv, Parts
    <3>3. o \in 0..(BatchSize - 1)
      BY <3>2
    <3>4. o \in Slots
      BY <3>1, <3>2, <3>3, BatchBounds
    <3> QED BY <1>1, <2>2, <2>3, <3>4 DEF IInv, SlotInv, PlanOf
  <2> QED BY <2>2, <2>3, <2>4
<1> QED BY <1>1, Invariant, PTL

(* No goroutine reads the parse of another one's block from its scratch.   *)
THEOREM OwnScratchMemory == Spec => []ScratchIsOwn
<1>1. IInv => ScratchIsOwn
  BY DEF IInv, SlotInv, ScratchIsOwn
<1> QED BY <1>1, Invariant, PTL

(* A pool's results are joined only when all of them are there.            *)
THEOREM JoinsFinishedStores == Spec => []JoinAfterDrain
<1>1. ASSUME IInv PROVE JoinAfterDrain
  <2>1. SUFFICES ASSUME NEW o \in Slots, stage[o] = "join"
                 PROVE  /\ \A w \in Workers : task[o][w] = Off
                        /\ \A i \in (next[o] - base[o])..(PoolSize(o) - 1) :
                              results[o][i] = Parse(in, BlockRange(o, base[o] + i)[1],
                                                        BlockRange(o, base[o] + i)[2])
    BY DEF JoinAfterDrain
  <2>2. /\ \A w \in Workers : task[o][w] = Off
        /\ base[o] <= next[o] /\ sent[o] = PoolSize(o)
        /\ \A i \in 0..(sent[o] - 1) :
              \/ \E w \in Workers : task[o][w] = i
              \/ results[o][i] = Parse(in, BlockRange(o, base[o] + i)[1],
                                           BlockRange(o, base[o] + i)[2])
    BY <1>1, <2>1 DEF IInv, SlotInv, PoolInv
  <2>3. base[o] \in Nat /\ next[o] \in Nat /\ sent[o] \in Nat
    BY <1>1 DEF IInv, TypeOK
  <2>4. \A i \in (next[o] - base[o])..(PoolSize(o) - 1) : i \in 0..(sent[o] - 1) /\ i # Off
    BY <2>2, <2>3 DEF Off
  <2> QED BY <2>2, <2>4
<1> QED BY <1>1, Invariant, PTL

-----------------------------------------------------------------------------
(* The refinement, as far as safety goes.                                  *)

View(o) == [n \in DOMAIN o |-> [from |-> o[n].from, to |-> o[n].to, final |-> o[n].final]]

(* The abstract view of a longer stream is the longer abstract view.       *)
LEMMA ViewOfAppend ==
    ASSUME NEW o \in Seq(OutBlocks), NEW b \in OutBlocks
    PROVE  View(Append(o, b)) =
              Append(View(o), [from |-> b.from, to |-> b.to, final |-> b.final])
<1> DEFINE S == [from : Nat, to : Nat, final : BOOLEAN]
           v == [from |-> b.from, to |-> b.to, final |-> b.final]
<1>1. View(o) \in Seq(S) /\ Len(View(o)) = Len(o) /\ DOMAIN View(o) = 1..Len(o)
  <2>1. \A n \in 1..Len(o) : o[n] \in OutBlocks
    OBVIOUS
  <2>2. Len(o) \in Nat /\ DOMAIN o = 1..Len(o)
    OBVIOUS
  <2>3. View(o) \in [1..Len(o) -> S]
    BY <2>1, <2>2 DEF View, OutBlocks
  <2> HIDE DEF S
  <2>4. View(o) \in Seq(S)
    BY <2>2, <2>3, SeqDef
  <2>5. Len(View(o)) = Len(o)
    BY <2>2, <2>3, <2>4, LenProperties DEF View
  <2> QED BY <2>2, <2>3, <2>4, <2>5
<1>2. v \in S
  BY DEF OutBlocks
<1> HIDE DEF S, v
<1>3. /\ Append(View(o), v) \in Seq(S) /\ Len(Append(View(o), v)) = Len(o) + 1
      /\ \A n \in 1..Len(o) : Append(View(o), v)[n] = View(o)[n]
      /\ Append(View(o), v)[Len(o) + 1] = v
  BY <1>1, <1>2, AppendElements
<1>4. /\ Append(o, b) \in Seq(OutBlocks) /\ Len(Append(o, b)) = Len(o) + 1 /\ Len(o) \in Nat
      /\ \A n \in 1..Len(o) : Append(o, b)[n] = o[n]
      /\ Append(o, b)[Len(o) + 1] = b
  BY AppendElements
<1>5. View(Append(o, b)) \in Seq(S) /\ Len(View(Append(o, b))) = Len(o) + 1
  <2>1. \A n \in 1..Len(Append(o, b)) : Append(o, b)[n] \in OutBlocks
    BY <1>4
  <2>2. DOMAIN Append(o, b) = 1..(Len(o) + 1)
    BY <1>4
  <2>3. View(Append(o, b)) \in [1..(Len(o) + 1) -> S]
    BY <1>4, <2>1, <2>2 DEF View, OutBlocks, S
  <2>4. Len(o) + 1 \in Nat
    BY <1>4
  <2>5. View(Append(o, b)) \in Seq(S)
    BY <2>3, <2>4, SeqDef
  <2> QED BY <2>2, <2>4, <2>5, LenProperties DEF View
<1>6. ASSUME NEW n \in 1..(Len(o) + 1)
      PROVE  View(Append(o, b))[n] = Append(View(o), v)[n]
  <2>1. View(Append(o, b))[n] = [from |-> Append(o, b)[n].from, to |-> Append(o, b)[n].to,
                                 final |-> Append(o, b)[n].final]
    <3>1. DOMAIN Append(o, b) = 1..(Len(o) + 1)
      BY <1>4
    <3> QED BY <3>1 DEF View
  <2>2. CASE n \in 1..Len(o)
    <3>1. Append(o, b)[n] = o[n] /\ n \in DOMAIN o
      BY <1>4, <2>2
    <3>2. View(o)[n] = [from |-> o[n].from, to |-> o[n].to, final |-> o[n].final]
      BY <3>1 DEF View
    <3>3. Append(View(o), v)[n] = View(o)[n]
      BY <1>3, <2>2
    <3> QED BY <2>1, <3>1, <3>2, <3>3
  <2>3. CASE n = Len(o) + 1
    BY <1>3, <1>4, <2>1, <2>3 DEF v
  <2>4. n \in 1..Len(o) \/ n = Len(o) + 1
    BY <1>4
  <2> QED BY <2>2, <2>3, <2>4
<1> QED BY <1>3, <1>5, <1>6, SeqEqual DEF v

(* The abstract view of a stream is a sequence of the same length.         *)
LEMMA ViewLength ==
    ASSUME NEW o \in Seq(OutBlocks)
    PROVE  /\ DOMAIN o = 1..Len(o) /\ Len(View(o)) = Len(o) /\ Len(o) \in Nat
           /\ View(o) = <<>> <=> o = <<>>
<1> DEFINE S == [from : Nat, to : Nat, final : BOOLEAN]
<1>1. Len(o) \in Nat /\ DOMAIN o = 1..Len(o) /\ \A n \in 1..Len(o) : o[n] \in OutBlocks
  OBVIOUS
<1>2. View(o) \in [1..Len(o) -> S]
  BY <1>1 DEF View, OutBlocks
<1> HIDE DEF S
<1>3. View(o) \in Seq(S)
  BY <1>1, <1>2, SeqDef
<1>4. Len(View(o)) = Len(o)
  BY <1>1, <1>2, <1>3, LenProperties DEF View
<1> QED BY <1>1, <1>3, <1>4, EmptySeq

(* Writing a block of a plan emits one block of the abstract stream.       *)
LEMMA WriteEmits ==
    ASSUME IInv, Write
    PROVE  Stream!Next
<1> DEFINE to == ChunkTo(Pending, written)
           piece == Piece(Pending, written, IsFinal)
<1>1. out' = Append(out, piece) /\ pc = "write" /\ in' = in
  BY DEF Write, call
<1>2. /\ in \in Inputs /\ in.len \in Nat /\ in.len > 0 /\ opt \in Calls
      /\ first + slot \in Nat /\ first + slot < Parts
      /\ plans[slot] \in Plans /\ PlanOf(plans[slot], first + slot)
      /\ block \in Nat /\ block < Blocks(plans[slot])
      /\ Pending.from \in Nat /\ Pending.to \in Nat /\ Written = Pending.from + written
      /\ written \in Nat /\ to \in Nat /\ Written < to
      /\ Pending.to <= PartTo(first + slot) /\ to <= Pending.to
  BY <1>1, WriteFacts
<1>3. to <= in.len
  BY <1>2, PartBounds
<1>4. IsFinal \in BOOLEAN /\ (IsFinal <=> to = in.len)
  BY <1>1, FinalIsEnd
<1>5. /\ piece \in OutBlocks /\ piece.from = Written /\ piece.to = to
      /\ piece.final = (to = in.len)
  <2>1. Pending.kind \in {"stored", "fixed", "dynamic"} /\ Pending.tokens \in Seq(Tokens)
    BY <1>2, BlockOfPlan DEF Pending
  <2>2. Pending.from + written \in Nat
    BY <1>2
  <2> QED BY <1>2, <1>4, <2>1, <2>2 DEF Piece, OutBlocks
<1> HIDE DEF piece, to
<1>6. out \in Seq(OutBlocks)
  BY DEF IInv, TypeOK
<1>7. View(out') = Append(View(out), [from |-> Written, to |-> to, final |-> to = in.len])
  BY <1>1, <1>5, <1>6, ViewOfAppend
<1>8. Stream!Covered = Written /\ ~Stream!Closed
  <2>1. DOMAIN out = 1..Len(out) /\ Len(View(out)) = Len(out) /\ Len(out) \in Nat
        /\ (View(out) = <<>> <=> out = <<>>)
    BY <1>6, ViewLength
  <2>2. CASE out = <<>>
    BY <2>1, <2>2 DEF View, Stream!Covered, Stream!Closed, Written
  <2>3. CASE out # <<>>
    <3>1. Len(out) \in 1..Len(out)
      BY <1>6, <2>3
    <3>2. View(out)[Len(out)].to = out[Len(out)].to
          /\ View(out)[Len(out)].final = out[Len(out)].final
      BY <2>1, <3>1 DEF View
    <3>3. ~out[Len(out)].final
      BY <1>1, <3>1 DEF IInv, OutInv
    <3> QED BY <2>1, <2>3, <3>2, <3>3 DEF View, Stream!Covered, Stream!Closed, Written
  <2> QED BY <2>2, <2>3
<1>9. to \in Written..in.len
  BY <1>2, <1>3
<1>10. PICK k \in Written..in.len : k = to
  BY <1>9
<1>11. Stream!Emit(k)
  BY <1>1, <1>2, <1>7, <1>8, <1>10 DEF View, Stream!Emit, Stream!Block
<1> QED BY <1>8, <1>11 DEF Stream!Next

(* The empty input emits the one empty block of the abstract stream.       *)
LEMMA WriteEmptyEmits ==
    ASSUME IInv, WriteEmpty
    PROVE  Stream!Next
<1>1. /\ out = <<>> /\ in.len = 0 /\ out' = <<Piece(EmptyBlock, 0, TRUE)>> /\ in' = in
  BY DEF WriteEmpty, call, IInv, OutInv
<1> DEFINE piece == Piece(EmptyBlock, 0, TRUE)
           v == [from |-> 0, to |-> 0, final |-> TRUE]
<1>2. piece.from = 0 /\ piece.to = 0 /\ piece.final = TRUE
  BY DEF Piece, EmptyBlock, ChunkTo
<1> HIDE DEF piece
<1>3. View(out) = <<>> /\ View(out') = <<v>>
  <2>1. DOMAIN <<piece>> = {1} /\ <<piece>>[1] = piece
    OBVIOUS
  <2>2. View(<<piece>>) = [n \in {1} |-> v]
    BY <1>2, <2>1 DEF View
  <2>3. <<v>> = [n \in {1} |-> v]
    <3> HIDE DEF v
    <3>1. <<v>> \in Seq({v}) /\ Len(<<v>>) = 1 /\ <<v>>[1] = v
      OBVIOUS
    <3>2. <<v>> \in [1..1 -> {v}] /\ 1..1 = {1}
      BY <3>1, LenProperties
    <3>3. <<v>> = [n \in {1} |-> <<v>>[n]]
      BY <3>2
    <3> QED BY <3>1, <3>3
  <2>4. View(<<>>) = <<>>
    BY DEF View
  <2> QED BY <1>1, <2>2, <2>3, <2>4 DEF piece
<1>4. <<v>> = Append(<<>>, v)
  OBVIOUS
<1>5. Stream!Emit(0) /\ Stream!Covered = 0
  BY <1>1, <1>3, <1>4 DEF View, Stream!Emit, Stream!Block, Stream!Covered, Stream!Closed
<1> QED BY <1>1, <1>5 DEF Stream!Next

(* Safety of the refinement: every behaviour of the batches, goroutines    *)
(* and pools is one of the abstract block layer, in which each block starts*)
(* where the one before it ends and only the one at the end is final.      *)
THEOREM BlockLayer ==
    Spec => Stream!Init /\ [][Stream!Next]_(Stream!vars)
<1>1. Init => Stream!Init
  <2>1. Init => in.len \in Nat /\ out = <<>>
    BY CallAssumption DEF Init
  <2> QED BY <2>1 DEF Stream!Init
<1>2. IInv /\ [Next]_vars => [Stream!Next]_(Stream!vars)
  <2>1. SUFFICES ASSUME IInv, [Next]_vars PROVE Stream!Next \/ UNCHANGED Stream!vars
    OBVIOUS
  <2>2. CASE Write
    BY <2>1, <2>2, WriteEmits
  <2>3. CASE WriteEmpty
    BY <2>1, <2>3, WriteEmptyEmits
  <2>4. CASE UNCHANGED <<in, out>>
    BY <2>4 DEF Stream!vars
  <2>5. CASE Main
    BY <2>2, <2>3, <2>4, <2>5 DEF Main, Begin, Spawn, Wait, call
  <2>6. ASSUME NEW o \in Slots, Prepare(o) PROVE UNCHANGED <<in, out>>
    BY <2>6 DEF Prepare, PlanWhole, SplitPart, LoadBlock, ParseBlock, OpenPool, CloseTasks,
                Collect, JoinResult, SplitAgain, call, main
  <2>7. ASSUME NEW o \in Slots, NEW w \in Workers, Worker(o, w) PROVE UNCHANGED <<in, out>>
    BY <2>7 DEF Worker, Send, ParseTask, StopWorker, call, main
  <2>8. CASE UNCHANGED vars
    BY <2>4, <2>8 DEF vars, call, main
  <2> QED BY <2>1, <2>4, <2>5, <2>6, <2>7, <2>8 DEF Next, Returned
<1> QED BY <1>1, <1>2, Invariant, PTL DEF Spec

-----------------------------------------------------------------------------
(* A worker of a pool that runs is one of the first NormalizeWorkers.      *)
PoolWorkers ==
    \A o \in Slots, w \in Workers : task[o][w] # Off => w <= NormalizeWorkers(opt.workers)

(* compressionWorkers never gives more than the workers of the call.       *)
LEMMA WorkersOfCall ==
    ASSUME NEW c \in Calls, NEW n \in Int, NEW tasks \in Nat, n = c.workers \/ n = 1
    PROVE  /\ NormalizeWorkers(c.workers) \in 1..MaxCompressionWorkers
           /\ CompressionWorkers(c, n, tasks) \in Nat
           /\ CompressionWorkers(c, n, tasks) <= NormalizeWorkers(c.workers)
           /\ n = 1 => CompressionWorkers(c, n, tasks) = 1
           /\ c.verbose => CompressionWorkers(c, n, tasks) = 1
<1>1. c.workers \in Int /\ MaxCompressionWorkers \in Nat \ {0}
  BY CallFields, SizesAssumption
<1> QED BY <1>1 DEF CompressionWorkers, NormalizeWorkers, Smaller

(* OpenPool is the only step that starts workers of a pool.                *)
LEMMA PoolWorkersStep ==
    ASSUME IInv, PoolWorkers, [Next]_vars
    PROVE  PoolWorkers'
<1>1. /\ opt \in Calls /\ opt.workers \in Int
      /\ task \in [Slots -> [Workers -> {Off, Recv} \cup Slots]]
  BY CallFields DEF IInv, TypeOK
<1>2. opt' = opt
  BY DEF Next, Main, WriteEmpty, Begin, Spawn, Wait, Write, Prepare, PlanWhole, SplitPart,
         LoadBlock, ParseBlock, OpenPool, CloseTasks, Collect, JoinResult, SplitAgain, Worker,
         Send, ParseTask, StopWorker, Returned, vars, call
<1>3. ASSUME UNCHANGED task PROVE PoolWorkers'
  BY <1>2, <1>3 DEF PoolWorkers
<1>4. ASSUME NEW o \in Slots, OpenPool(o) PROVE PoolWorkers'
  <2>1. next[o] \in Nat /\ next[o] <= Len(cuts[o]) /\ Len(cuts[o]) \in Nat
    BY <1>4, NatElements DEF OpenPool, IInv, TypeOK
  <2> DEFINE count == Smaller(CompressionWorkers(opt, NestedWorkers, Len(cuts[o]) + 1),
                              Len(cuts[o]) + 1 - next[o])
             limit == CompressionWorkers(opt, NestedWorkers, count)
  <2>2. task' = [task EXCEPT ![o] = [w \in Workers |-> IF w <= limit THEN Recv ELSE Off]]
    BY <1>4 DEF OpenPool
  <2>3. NestedWorkers \in Int /\ (NestedWorkers = opt.workers \/ NestedWorkers = 1)
    BY <1>1 DEF NestedWorkers
  <2>4. count \in Nat
    <3>1. CompressionWorkers(opt, NestedWorkers, Len(cuts[o]) + 1) \in Nat
      BY <1>1, <2>1, <2>3, WorkersOfCall
    <3> QED BY <2>1, <3>1 DEF Smaller
  <2> HIDE DEF count
  <2>5. limit \in Nat /\ limit <= NormalizeWorkers(opt.workers)
        /\ NormalizeWorkers(opt.workers) \in Nat
    BY <1>1, <2>3, <2>4, WorkersOfCall
  <2> HIDE DEF limit
  <2>6. ASSUME NEW q \in Slots, NEW w \in Workers, task'[q][w] # Off
        PROVE  w <= NormalizeWorkers(opt.workers)
    <3>1. CASE q = o
      <4>1. w <= limit
        BY <2>2, <2>6, <3>1, <1>1
      <4> QED BY <4>1, <2>5 DEF Workers
    <3>2. CASE q # o
      BY <2>2, <2>6, <3>2, <1>1 DEF PoolWorkers
    <3> QED BY <3>1, <3>2
  <2> QED BY <2>6, <1>2 DEF PoolWorkers
<1>5. ASSUME NEW o \in Slots, NEW w \in Workers, Worker(o, w) PROVE PoolWorkers'
  <2>1. task[o][w] # Off /\ \E t : task' = [task EXCEPT ![o][w] = t]
    BY <1>5 DEF Worker, Send, ParseTask, StopWorker, Off, Recv
  <2>2. ASSUME NEW q \in Slots, NEW v \in Workers, task'[q][v] # Off PROVE task[q][v] # Off
    BY <2>1, <2>2, <1>1
  <2> QED BY <2>2, <1>2 DEF PoolWorkers
<1>6. ASSUME NEW o \in Slots, Prepare(o) PROVE PoolWorkers'
  <2>1. OpenPool(o) \/ UNCHANGED task
    BY <1>6 DEF Prepare, PlanWhole, SplitPart, LoadBlock, ParseBlock, CloseTasks, Collect,
                JoinResult, SplitAgain, pool
  <2> QED BY <2>1, <1>3, <1>4
<1>7. CASE Main
  BY <1>7, <1>3 DEF Main, WriteEmpty, Begin, Spawn, Wait, Write, pool
<1>8. CASE UNCHANGED vars
  BY <1>8, <1>3 DEF vars, pool
<1> QED BY <1>5, <1>6, <1>7, <1>8 DEF Next, Returned

(* No pool runs, and no more parts are analysed than there are slots.      *)
LEMMA PartsOnly ==
    ASSUME NEW parts, NEW tasks, NEW size \in Nat, parts \subseteq 0..(size - 1), tasks = {}
    PROVE  /\ Cardinality(parts) + Cardinality(tasks) \in Nat
           /\ Cardinality(parts) + Cardinality(tasks) <= size
<1>1. IsFiniteSet(0..(size - 1)) /\ Cardinality(0..(size - 1)) = size
  BY FS_Interval
<1>2. Cardinality(parts) \in Nat /\ Cardinality(parts) <= size
  BY <1>1, FS_Subset, FS_CardinalityType
<1>3. Cardinality(tasks) = 0
  BY FS_EmptySet
<1> QED BY <1>2, <1>3

(* Only the pool of one part runs.                                         *)
LEMMA OnePool ==
    ASSUME NEW parts, NEW tasks, NEW limit \in Nat, NEW o, parts = {},
           tasks \subseteq {o} \X (1..limit)
    PROVE  Cardinality(parts) + Cardinality(tasks) <= limit
<1> DEFINE f == [t \in tasks |-> t[2]]
<1>1. IsFiniteSet(1..limit) /\ Cardinality(1..limit) = limit
  BY FS_Interval
<1>2. f \in Injection(tasks, 1..limit)
  <2>1. f \in [tasks -> 1..limit]
    OBVIOUS
  <2>2. \A s, t \in tasks : f[s] = f[t] => s = t
    OBVIOUS
  <2> HIDE DEF f
  <2> QED BY <2>1, <2>2 DEF Injection, IsInjective
<1> HIDE DEF f
<1>3. IsFiniteSet(tasks) /\ Cardinality(tasks) <= limit
  BY <1>1, <1>2, FS_Injection
<1>4. Cardinality(tasks) \in Nat /\ Cardinality(parts) = 0
  BY <1>3, FS_CardinalityType, FS_EmptySet
<1> QED BY <1>3, <1>4

(* The parallelism over parts and the one over the blocks of a part do not *)
(* multiply: with several parts at a time none has a pool.                 *)
LEMMA Bounded ==
    ASSUME IInv, PoolWorkers
    PROVE  AnalysisBound
<1> DEFINE parts == {o \in Slots : stage[o] \in {"split", "blocks", "parse"}}
           tasks == {t \in Slots \X Workers : task[t[1]][t[2]] # Off}
           limit == NormalizeWorkers(opt.workers)
<1>1. /\ in \in Inputs /\ opt \in Calls /\ opt.workers \in Int /\ first \in Nat
      /\ limit \in Nat /\ limit >= 1
  <2>1. in \in Inputs /\ opt \in Calls /\ opt.workers \in Int /\ first \in Nat
    BY CallFields DEF IInv, TypeOK
  <2>2. limit \in 1..MaxCompressionWorkers /\ MaxCompressionWorkers \in Nat
    BY <2>1, WorkersOfCall, SizesAssumption
  <2> QED BY <2>1, <2>2
<1>2. Analysts = Cardinality(parts) + Cardinality(tasks)
  BY DEF Analysts
<1>3. ASSUME NEW o \in Slots, stage[o] \notin {"send", "drain"}
      PROVE  \A w \in Workers : task[o][w] = Off
  BY <1>3 DEF IInv, SlotInv, PoolInv
<1>4. ASSUME NEW o \in Slots, stage[o] # "none"
      PROVE  in.len > 0 /\ first < Parts /\ o \in 0..(BatchSize - 1)
  BY <1>4, BusySlot
<1>5. CASE \A o \in Slots : stage[o] = "none"
  <2>1. parts = {} /\ tasks = {}
    BY <1>3, <1>5
  <2> HIDE DEF parts, tasks, limit
  <2>2. Cardinality(parts) + Cardinality(tasks) <= 0
    BY <2>1, PartsOnly
  <2> QED BY <2>2, <1>1, <1>2 DEF AnalysisBound, limit
<1>6. CASE \E o \in Slots : stage[o] # "none"
  <2>1. /\ BatchSize \in Nat /\ BatchSize <= BatchWorkers /\ BatchWorkers \in Nat \ {0}
        /\ BatchWorkers <= limit /\ (opt.verbose => BatchWorkers = 1)
    <3>1. in.len > 0 /\ first < Parts
      BY <1>4, <1>6
    <3>2. BatchSize \in Nat /\ BatchWorkers \in Nat \ {0} /\ Parts \in Nat
      BY <1>1, <3>1, BatchBounds, PartsPositive
    <3>3. BatchSize <= BatchWorkers
      BY <3>2, <1>1 DEF BatchSize, Smaller
    <3> QED BY <1>1, <3>2, <3>3, WorkersOfCall DEF BatchWorkers
  <2>2. CASE BatchWorkers # 1
    <3>1. ~opt.verbose /\ NestedWorkers = 1
      BY <2>1, <2>2 DEF NestedWorkers
    <3>2. ASSUME NEW o \in Slots PROVE stage[o] \notin {"send", "drain"}
      <4>1. Len(cuts[o]) + 1 \in Nat
        BY NatElements DEF IInv, TypeOK
      <4>2. Serially(o)
        BY <1>1, <3>1, <4>1, WorkersOfCall DEF Serially
      <4> QED BY <4>2 DEF IInv, SlotInv, PoolInv
    <3>3. tasks = {} /\ parts \subseteq 0..(BatchSize - 1)
      BY <1>3, <1>4, <3>2
    <3> HIDE DEF parts, tasks, limit
    <3>4. /\ Cardinality(parts) + Cardinality(tasks) \in Nat
          /\ Cardinality(parts) + Cardinality(tasks) <= BatchSize
      BY <2>1, <3>3, PartsOnly
    <3>5. Analysts <= limit
      BY <1>1, <1>2, <2>1, <3>4
    <3> QED BY <3>1, <3>5 DEF AnalysisBound, limit
  <2>3. CASE BatchWorkers = 1
    <3>1. \A o \in Slots : stage[o] # "none" => o = 0
      BY <1>4, <2>1, <2>3
    <3>2. CASE stage[0] \in {"send", "drain"}
      <4>1. 0 \in Slots
        BY <1>6, <3>1
      <4>2. ~Serially(0)
        BY <3>2, <4>1 DEF IInv, SlotInv, PoolInv
      <4>3. ~opt.verbose
        <5>1. Len(cuts[0]) + 1 \in Nat
          BY <4>1, NatElements DEF IInv, TypeOK
        <5>2. NestedWorkers \in Int /\ (NestedWorkers = opt.workers \/ NestedWorkers = 1)
          BY <1>1 DEF NestedWorkers
        <5> QED BY <1>1, <4>2, <5>1, <5>2, WorkersOfCall DEF Serially
      <4>4. parts = {}
        BY <3>1, <3>2
      <4>5. tasks \subseteq {0} \X (1..limit)
        <5>1. ASSUME NEW t \in tasks PROVE t[1] = 0 /\ t[2] \in 1..limit
          <6>1. t[1] \in Slots /\ t[2] \in Workers /\ task[t[1]][t[2]] # Off
            OBVIOUS
          <6>2. t[1] = 0
            BY <6>1, <1>3, <3>1
          <6>3. t[2] <= limit /\ t[2] \in Int /\ t[2] >= 1
            BY <6>1 DEF PoolWorkers, Workers
          <6> QED BY <6>2, <6>3, <1>1
        <5> QED BY <5>1
      <4> HIDE DEF parts, tasks, limit
      <4>6. Cardinality(parts) + Cardinality(tasks) <= limit
        BY <1>1, <4>4, <4>5, OnePool
      <4> QED BY <1>2, <4>3, <4>6 DEF AnalysisBound, limit
    <3>3. CASE stage[0] \notin {"send", "drain"}
      <4>1. tasks = {} /\ parts \subseteq 0..(1 - 1)
        BY <1>3, <3>1, <3>3
      <4> HIDE DEF parts, tasks, limit
      <4>2. /\ Cardinality(parts) + Cardinality(tasks) \in Nat
            /\ Cardinality(parts) + Cardinality(tasks) <= 1
        BY <4>1, PartsOnly
      <4> QED BY <1>1, <1>2, <4>2 DEF AnalysisBound, limit
    <3> QED BY <3>2, <3>3
  <2> QED BY <2>2, <2>3
<1> QED BY <1>5, <1>6

(* A call has at most as many goroutines at work as it may have workers,   *)
(* and a verbose one has one (MaxCompressionWorkers, compressionWorkers).  *)
THEOREM FewAnalysts == Spec => []AnalysisBound
<1>1. Init => PoolWorkers
  BY DEF Init, PoolWorkers
<1>2. IInv /\ PoolWorkers /\ [Next]_vars => PoolWorkers'
  BY PoolWorkersStep
<1>3. IInv /\ PoolWorkers => AnalysisBound
  BY Bounded
<1> QED BY <1>1, <1>2, <1>3, Invariant, PTL DEF Spec

-----------------------------------------------------------------------------
(* Joining sequences one after the other, as appendStore does and as the   *)
(* serial stream is put together.                                          *)

(* The sequences joined one by one. *)
Joins(g, n) ==
    LET f[k \in 0..n] == IF k = 0 THEN <<>> ELSE f[k - 1] \o g[k]
    IN  f

(* The recursion above defines a function: the empty sequence first, then  *)
(* one more joined at each step.                                           *)
LEMMA JoinsDefined ==
    ASSUME NEW S, NEW n \in Nat, NEW g \in [1..n -> Seq(S)]
    PROVE  /\ Joins(g, n) \in [0..n -> Seq(S)] /\ Joins(g, n)[0] = <<>>
           /\ \A k \in 1..n : Joins(g, n)[k] = Joins(g, n)[k - 1] \o g[k]
<1> DEFINE step == [k \in 1..n |-> [s \in Seq(S) |-> s \o g[k]]]
           more(k, s) == s \o g[k]
           body(f) == [k \in 0..n |-> IF k = 0 THEN <<>> ELSE more(k, f[k - 1])]
           h == CHOOSE f : f = body(f)
<1>1. Joins(g, n) = h
  BY DEF Joins
<1>2. step \in [1..n -> [Seq(S) -> Seq(S)]] /\ <<>> \in Seq(S)
  <2>1. ASSUME NEW k \in 1..n, NEW s \in Seq(S) PROVE s \o g[k] \in Seq(S)
    <3>1. g[k] \in Seq(S)
      OBVIOUS
    <3> QED BY <3>1, ConcatElements
  <2> QED BY <2>1
<1>3. \A k \in 1..n : \A s \in Seq(S) : step[k][s] = more(k, s) /\ more(k, s) \in Seq(S)
  <2> SUFFICES ASSUME NEW k \in 1..n, NEW s \in Seq(S)
               PROVE  step[k][s] = more(k, s) /\ step[k][s] \in Seq(S)
    OBVIOUS
  <2>1. step[k][s] \in Seq(S)
    BY <1>2
  <2> QED BY <2>1
<1> HIDE DEF h, step, more
<1>4. PICK f : IsRecursion(f, Seq(S), n, <<>>, step)
  <2>1. HasRecursion(Seq(S), n, <<>>, step)
    BY <1>2, RecursionDefines
  <2> QED BY <2>1 DEF HasRecursion
<1>5. \A k \in 1..n : f[k] = more(k, f[k - 1])
  <2> SUFFICES ASSUME NEW k \in 1..n PROVE f[k] = more(k, f[k - 1])
    OBVIOUS
  <2>1. f[k - 1] \in Seq(S) /\ f[k] = step[k][f[k - 1]]
    BY <1>4 DEF IsRecursion
  <2> QED BY <2>1, <1>3
<1>6. f = body(f)
  BY <1>4, <1>5 DEF IsRecursion
<1>7. h = body(h)
  BY <1>6 DEF h
<1>8. h[0] = <<>> /\ \A k \in 1..n : h[k] = more(k, h[k - 1])
  BY <1>7
<1>9. \A k \in 0..n : h[k] \in Seq(S)
  <2>1. \A k \in 1..n : h[k - 1] \in Seq(S) => h[k] \in Seq(S)
    BY <1>8, <1>3
  <2>2. h[0] \in Seq(S)
    BY <1>8, <1>2
  <2> QED BY <2>1, <2>2, RecursionStaysIn
<1>10. h \in [0..n -> Seq(S)]
  BY <1>7, <1>9
<1> QED BY <1>1, <1>8, <1>10 DEF more

(* The same, fact by fact.                                                 *)
LEMMA JoinsFromEmpty ==
    ASSUME NEW S, NEW n \in Nat, NEW g \in [1..n -> Seq(S)]
    PROVE  Joins(g, n)[0] = <<>>
  BY JoinsDefined

(* What is joined of sequences is a sequence of the same elements.         *)
LEMMA JoinsTyped ==
    ASSUME NEW S, NEW n \in Nat, NEW g \in [1..n -> Seq(S)]
    PROVE  \A k \in 0..n : Joins(g, n)[k] \in Seq(S)
  BY JoinsDefined

(* Each step joins one more sequence.                                      *)
LEMMA JoinsOneMore ==
    ASSUME NEW S, NEW n \in Nat, NEW g \in [1..n -> Seq(S)]
    PROVE  \A k \in 1..n : Joins(g, n)[k] = Joins(g, n)[k - 1] \o g[k]
  BY JoinsDefined

(* FlattenSeq joins them all.                                              *)
LEMMA FlattenIsJoins ==
    ASSUME NEW S, NEW n \in Nat, n # 0, NEW g \in [1..n -> Seq(S)]
    PROVE  FlattenSeq(g) = Joins(g, n)[n]
<1> DEFINE J == Joins(g, n)
           more(k, s) == s \o g[k]
           body(f) == [i \in 1..n |-> IF i = 1 THEN g[i] ELSE more(i, f[i - 1])]
           h == CHOOSE f : f = body(f)
           r == [i \in 1..n |-> J[i]]
<1>1. Len(g) = n
  OBVIOUS
<1>2. FlattenSeq(g) = h[n]
  BY <1>1 DEF FlattenSeq
<1>3. J[0] = <<>> /\ \A k \in 1..n : J[k] = more(k, J[k - 1])
  <2>1. J[0] = <<>>
    BY JoinsDefined
  <2>2. \A k \in 1..n : J[k] = J[k - 1] \o g[k]
    BY JoinsDefined
  <2> QED BY <2>1, <2>2
<1>4. J[1] = g[1]
  <2>1. 1 \in 1..n /\ 1 - 1 = 0 /\ g[1] \in Seq(S)
    OBVIOUS
  <2>2. J[1] = more(1, <<>>)
    BY <2>1, <1>3
  <2>3. <<>> \o g[1] = g[1]
    BY <2>1, EmptyConcat
  <2> QED BY <2>2, <2>3
<1> HIDE DEF h, J, more
<1>5. \A i \in 1..n : r[i] = IF i = 1 THEN g[i] ELSE more(i, r[i - 1])
  BY <1>3, <1>4
<1>6. r = body(r)
  BY <1>5
<1>7. h = body(h)
  BY <1>6 DEF h
<1>8. \A i \in 1..n : h[i] = IF i = 1 THEN g[i] ELSE more(i, h[i - 1])
  BY <1>7
<1> DEFINE T == {k \in 0..n : k # 0 => h[k] = J[k]}
<1>9. 0 \in T
  OBVIOUS
<1>10. ASSUME NEW k \in 0..(n - 1), k \in T PROVE k + 1 \in T
  <2>1. k + 1 \in 1..n /\ (k + 1) - 1 = k
    OBVIOUS
  <2>2. CASE k = 0
    BY <2>2, <1>4, <1>8
  <2>3. CASE k # 0
    BY <2>1, <2>3, <1>3, <1>8, <1>10
  <2> QED BY <2>2, <2>3
<1> HIDE DEF T
<1>11. 0..n \subseteq T
  BY <1>9, <1>10, SetInductionUpTo
<1>12. h[n] = J[n]
  BY <1>11 DEF T
<1> QED BY <1>2, <1>12 DEF J

(* s is the beginning of t. *)
Starts(s, t) == /\ Len(s) \in Nat /\ Len(t) \in Nat /\ Len(s) <= Len(t)
                /\ \A i \in 1..Len(s) : t[i] = s[i]

(* What begins the beginning of a sequence begins the sequence.            *)
LEMMA StartsOn ==
    ASSUME NEW r, NEW s, NEW t, Starts(r, s), Starts(s, t)
    PROVE  Starts(r, t)
  BY DEF Starts

(* What is joined stays where it is when more is joined.                   *)
LEMMA JoinsGrow ==
    ASSUME NEW S, NEW n \in Nat, NEW g \in [1..n -> Seq(S)], NEW k \in 0..n, NEW m \in k..n
    PROVE  Starts(Joins(g, n)[k], Joins(g, n)[m])
<1> DEFINE J == Joins(g, n)
<1>1. \A i \in 0..n : J[i] \in Seq(S)
  BY JoinsDefined
<1>2. \A i \in 1..n : J[i] = J[i - 1] \o g[i]
  BY JoinsDefined
<1> HIDE DEF J
<1>3. ASSUME NEW i \in 1..n PROVE Starts(J[i - 1], J[i])
  <2>1. i - 1 \in 0..n /\ g[i] \in Seq(S)
    OBVIOUS
  <2>2. J[i - 1] \in Seq(S) /\ J[i] = J[i - 1] \o g[i]
    BY <2>1, <1>1, <1>2
  <2>3. /\ Len(J[i]) = Len(J[i - 1]) + Len(g[i])
        /\ \A j \in 1..Len(J[i - 1]) : J[i][j] = J[i - 1][j]
    BY <2>1, <2>2, ConcatElements
  <2>4. Len(g[i]) \in Nat /\ Len(J[i - 1]) \in Nat
    BY <2>1, <2>2
  <2> QED BY <2>3, <2>4 DEF Starts
<1>4. \A i \in 0..n : Starts(J[i], J[i])
  BY <1>1 DEF Starts
<1> DEFINE T == {i \in 0..n : k <= i => Starts(J[k], J[i])}
<1>5. 0 \in T
  BY <1>4
<1>6. ASSUME NEW i \in 0..(n - 1), i \in T PROVE i + 1 \in T
  <2>1. i + 1 \in 1..n /\ (i + 1) - 1 = i /\ i \in 0..n /\ i + 1 \in 0..n
    OBVIOUS
  <2>2. Starts(J[i], J[i + 1])
    BY <2>1, <1>3
  <2>3. CASE k <= i
    BY <2>1, <2>2, <2>3, <1>6, StartsOn
  <2>4. CASE k = i + 1
    BY <1>4, <2>1, <2>4
  <2>5. k <= i + 1 => k <= i \/ k = i + 1
    OBVIOUS
  <2> QED BY <2>1, <2>3, <2>4, <2>5
<1> HIDE DEF T
<1>7. 0..n \subseteq T
  BY <1>5, <1>6, SetInductionUpTo
<1>8. Starts(J[k], J[m])
  <2>1. m \in 0..n /\ k <= m
    OBVIOUS
  <2> QED BY <2>1, <1>7 DEF T
<1> QED BY <1>8 DEF J

(* The elements of a sequence follow those of the k sequences before it.   *)
Follows(g, n, k) ==
    /\ Len(g[k + 1]) \in Nat /\ Len(Joins(g, n)[k]) \in Nat
    /\ Len(Joins(g, n)[k + 1]) = Len(Joins(g, n)[k]) + Len(g[k + 1])
    /\ Len(Joins(g, n)[k + 1]) <= Len(Joins(g, n)[n])

FollowsAt(g, n, k) ==
    \A j \in 1..Len(g[k + 1]) : Joins(g, n)[n][Len(Joins(g, n)[k]) + j] = g[k + 1][j]

(* In what is joined of all, every sequence stands where it was joined.    *)
LEMMA JoinsFollow ==
    ASSUME NEW S, NEW n \in Nat, NEW g \in [1..n -> Seq(S)], NEW k \in Nat, k < n
    PROVE  Follows(g, n, k) /\ FollowsAt(g, n, k)
<1> DEFINE J == Joins(g, n)
           i == k + 1
           a == Len(J[k])
<1>1. i \in 1..n /\ i - 1 = k /\ k \in 0..n /\ i \in 0..n /\ n \in i..n
  OBVIOUS
<1>2. g[i] \in Seq(S)
  BY <1>1
<1>3. J[k] \in Seq(S)
  BY <1>1, JoinsTyped
<1>4. J[i] = J[k] \o g[i]
  <2>1. \A m \in 1..n : J[m] = J[m - 1] \o g[m]
    BY JoinsOneMore
  <2> HIDE DEF J, i
  <2> QED BY <2>1, <1>1
<1>5. Starts(J[i], J[n])
  BY <1>1, JoinsGrow
<1> HIDE DEF J, i
<1>6. /\ Len(J[i]) = a + Len(g[i])
      /\ \A m \in (a + 1)..(a + Len(g[i])) : J[i][m] = g[i][m - a]
  <2>1. PICK s \in Seq(S), t \in Seq(S) : s = J[k] /\ t = g[i]
    BY <1>2, <1>3
  <2>2. /\ Len(s \o t) = Len(s) + Len(t)
        /\ \A m \in (Len(s) + 1)..(Len(s) + Len(t)) : (s \o t)[m] = t[m - Len(s)]
    BY ConcatElements
  <2>3. J[i] = s \o t /\ a = Len(s) /\ g[i] = t
    BY <1>4, <2>1
  <2> HIDE DEF a
  <2> QED BY <2>2, <2>3
<1>7. Len(g[i]) \in Nat /\ a \in Nat
  BY <1>2, <1>3
<1> HIDE DEF a
<1>8. ASSUME NEW j \in 1..Len(g[i]) PROVE J[n][a + j] = g[i][j]
  <2>1. a + j \in 1..Len(J[i]) /\ a + j \in (a + 1)..(a + Len(g[i])) /\ (a + j) - a = j
    BY <1>6, <1>7
  <2>2. J[n][a + j] = J[i][a + j]
    BY <2>1, <1>5 DEF Starts
  <2> QED BY <2>1, <2>2, <1>6
<1>9. Len(J[i]) <= Len(J[n])
  BY <1>5 DEF Starts
<1>10. Len(J[i]) = a + Len(g[i])
  BY <1>6
<1>11. Follows(g, n, k)
  BY <1>7, <1>9, <1>10 DEF Follows, J, a, i
<1>12. FollowsAt(g, n, k)
  BY <1>8 DEF FollowsAt, J, a, i
<1> QED BY <1>11, <1>12

-----------------------------------------------------------------------------
(* The serial stream, put together step by step from the bytes alone.      *)

(* Where the first splitter cuts part p, the parses of its blocks, and the *)
(* stores of its first blocks joined.                                      *)
PartCuts(p) == IF opt.btype = 2 THEN FirstCuts(in, opt, PartFrom(p), PartTo(p)) ELSE <<>>

PartBlocks(p) == Len(PartCuts(p)) + 1

BlockParses(p) ==
    [n \in 1..PartBlocks(p) |->
        Parse(in, BlockFrom(PartCuts(p), n - 1, PartFrom(p)),
                  BlockTo(PartCuts(p), n - 1, PartTo(p)))]

JoinedStores(p) == Joins(BlockParses(p), PartBlocks(p))

(* The plan of part p, the chunks in which its blocks are written, and the *)
(* ones before each of its blocks and before each part.                    *)
PlanFor(p) == SerialPlan(in, opt, p)

ChunksOf(p) ==
    [n \in 1..Blocks(PlanFor(p)) |-> SerialChunks(PlannedBlock(in, PlanFor(p), n - 1))]

BeforeBlock(p) == Joins(ChunksOf(p), Blocks(PlanFor(p)))

ChunksOfParts == [p \in 1..Parts |-> FlattenSeq(ChunksOf(p - 1))]

BeforePart == Joins(ChunksOfParts, Parts)

Chunks == IF in.len = 0 THEN SerialChunks(EmptyBlock) ELSE FlattenSeq(ChunksOfParts)

(* What prepareDeflatePart holds of its part is what the serial algorithm  *)
(* has computed at that point.                                             *)
FrameIsSerial(o) ==
    /\ stage[o] \in {"blocks", "parse", "send", "drain", "join"} =>
        /\ cuts[o] = PartCuts(first + o)
        /\ store[o] = JoinedStores(first + o)[next[o]]
        /\ \A n \in 1..Len(points[o]) : points[o][n] = Len(JoinedStores(first + o)[n])
    /\ stage[o] = "done" => plans[o] = PlanFor(first + o)

(* The k-th chunk of block b of part p, counted from 0, stands behind so   *)
(* many chunks.                                                            *)
Position(p, b, k) == Len(BeforePart[p]) + Len(BeforeBlock(p)[b]) + k

(* The chunks written are the first ones of the serial stream, as many as  *)
(* stand before the one the main goroutine has reached.                    *)
OutIsSerial ==
    /\ \A n \in 1..Len(out) : out[n] = Piece(Chunks[n].block, Chunks[n].done, out[n].final)
    /\ pc \in {"spawn", "wait"} => Len(out) = Len(BeforePart[first])
    /\ pc = "write" =>
          \E k \in Nat : /\ written = k * StoredMax
                         /\ Len(out) = Position(first + slot, block, k)
    /\ pc = "done" => Len(out) = Len(Chunks)

IsSerial == OutIsSerial /\ \A o \in Slots : FrameIsSerial(o)

(* The first splitter cuts a part inside.                                  *)
LEMMA PartCutsInside ==
    ASSUME in \in Inputs, opt \in Calls, in.len > 0, NEW p \in Nat, p < Parts
    PROVE  /\ CutsInside(PartCuts(p), PartFrom(p), PartTo(p))
           /\ Len(PartCuts(p)) \in Nat
           /\ PartBlocks(p) \in Nat \ {0} /\ PartBlocks(p) = Len(PartCuts(p)) + 1
           /\ \A n \in 1..Len(PartCuts(p)) : PartCuts(p)[n] \in Nat
<1>1. /\ PartFrom(p) \in 0..in.len /\ PartTo(p) \in 0..in.len
      /\ PartFrom(p) < PartTo(p) /\ in.len \in Nat
  BY PartBounds, CallAssumption
<1>2. CutsInside(BlockSplit(in, PartFrom(p), PartTo(p)), PartFrom(p), PartTo(p))
  BY <1>1, AnalysisAssumption
<1>3. CutsInside(<<>>, PartFrom(p), PartTo(p))
  BY DEF CutsInside
<1>4. CutsInside(PartCuts(p), PartFrom(p), PartTo(p))
  BY <1>2, <1>3 DEF PartCuts, FirstCuts
<1>5. PartCuts(p) \in Seq(Nat)
  BY <1>4 DEF CutsInside
<1> QED BY <1>4, <1>5, NatElements DEF PartBlocks

(* Where the first k blocks of part p end.                                 *)
EndOf(p, k) == IF k <= Len(PartCuts(p)) THEN PartCuts(p)[k] ELSE PartTo(p)

(* The byte range of a block of a part, and its parse.                     *)
LEMMA BlockRanges ==
    ASSUME in \in Inputs, opt \in Calls, in.len > 0, NEW p \in Nat, p < Parts,
           NEW n \in 1..PartBlocks(p)
    PROVE  LET from == IF n = 1 THEN PartFrom(p) ELSE EndOf(p, n - 1)
           IN  /\ from \in Nat /\ EndOf(p, n) \in Nat
               /\ PartFrom(p) <= from /\ from < EndOf(p, n) /\ EndOf(p, n) <= PartTo(p)
               /\ n # 1 => PartFrom(p) < from
               /\ BlockParses(p)[n] = Parse(in, from, EndOf(p, n))
               /\ Covers(BlockParses(p)[n], from, EndOf(p, n))
               /\ BlockParses(p)[n] \in Seq(Tokens)
<1> DEFINE cs == PartCuts(p)
           from == IF n = 1 THEN PartFrom(p) ELSE EndOf(p, n - 1)
<1>1. /\ PartFrom(p) \in Nat /\ PartTo(p) \in Nat
      /\ PartFrom(p) < PartTo(p) /\ PartTo(p) <= in.len /\ in.len \in Nat
  BY PartBounds, CallAssumption
<1>2. /\ Len(cs) \in Nat /\ n \in 1..(Len(cs) + 1)
      /\ \A k \in 1..Len(cs) : cs[k] \in Nat /\ PartFrom(p) < cs[k] /\ cs[k] < PartTo(p)
      /\ \A k, m \in 1..Len(cs) : k < m => cs[k] < cs[m]
  BY PartCutsInside DEF CutsInside
<1>3. BlockParses(p)[n] = Parse(in, BlockFrom(cs, n - 1, PartFrom(p)),
                                    BlockTo(cs, n - 1, PartTo(p)))
  BY DEF BlockParses
<1>4. BlockFrom(cs, n - 1, PartFrom(p)) = from
  BY <1>2 DEF BlockFrom, EndOf
<1>5. BlockTo(cs, n - 1, PartTo(p)) = EndOf(p, n)
  <2>1. n \in Int /\ (n - 1) + 1 = n /\ (n - 1 < Len(cs) <=> n <= Len(cs))
    BY <1>2
  <2> QED BY <2>1 DEF BlockTo, EndOf
<1>6. /\ from \in Nat /\ EndOf(p, n) \in Nat
      /\ PartFrom(p) <= from /\ from < EndOf(p, n) /\ EndOf(p, n) <= PartTo(p)
      /\ n # 1 => PartFrom(p) < from
  <2>1. CASE n = 1
    <3>1. from = PartFrom(p)
      BY <2>1
    <3> QED BY <2>1, <3>1, <1>1, <1>2 DEF EndOf
  <2>2. CASE n # 1
    <3>1. n - 1 \in 1..Len(cs) /\ from = cs[n - 1]
      BY <2>2, <1>2 DEF EndOf
    <3>2. CASE n <= Len(cs)
      <4>1. n \in 1..Len(cs) /\ n - 1 < n /\ EndOf(p, n) = cs[n]
        BY <3>2, <1>2 DEF EndOf
      <4> QED BY <3>1, <4>1, <1>1, <1>2
    <3>3. CASE ~(n <= Len(cs))
      <4>1. EndOf(p, n) = PartTo(p)
        BY <3>3 DEF EndOf
      <4> QED BY <3>1, <4>1, <1>1, <1>2
    <3> QED BY <3>2, <3>3
  <2> QED BY <2>1, <2>2
<1> HIDE DEF from
<1>7. Covers(Parse(in, from, EndOf(p, n)), from, EndOf(p, n))
  <2>1. from \in 0..in.len /\ EndOf(p, n) \in 0..in.len /\ from < EndOf(p, n)
    BY <1>1, <1>6
  <2> QED BY <2>1, AnalysisAssumption
<1>8. Parse(in, from, EndOf(p, n)) \in Seq(Tokens)
  BY <1>7 DEF Covers
<1> QED BY <1>3, <1>4, <1>5, <1>6, <1>7, <1>8 DEF from

(* The parses of the blocks of a part, to be joined.                       *)
LEMMA ParsesOfPart ==
    ASSUME in \in Inputs, opt \in Calls, in.len > 0, NEW p \in Nat, p < Parts
    PROVE  BlockParses(p) \in [1..PartBlocks(p) -> Seq(Tokens)]
<1>1. \A n \in 1..PartBlocks(p) : BlockParses(p)[n] \in Seq(Tokens)
  BY BlockRanges
<1> QED BY <1>1 DEF BlockParses

(* The joined stores of a part's first blocks cover it up to their end.    *)
LEMMA JoinedCovers ==
    ASSUME in \in Inputs, opt \in Calls, in.len > 0, NEW p \in Nat, p < Parts,
           NEW k \in 1..PartBlocks(p)
    PROVE  /\ JoinedStores(p)[k] \in Stores(in)
           /\ Covers(JoinedStores(p)[k], PartFrom(p), EndOf(p, k))
<1> DEFINE N == PartBlocks(p)
           g == BlockParses(p)
           J == JoinedStores(p)
           Good(n) == J[n] \in Stores(in) /\ Covers(J[n], PartFrom(p), EndOf(p, n))
           T == {n \in 0..N : n # 0 => Good(n)}
<1>1. N \in Nat /\ N # 0
  BY PartCutsInside
<1>2. g \in [1..N -> Seq(Tokens)]
  BY ParsesOfPart
<1>3. J[0] = <<>>
  BY <1>1, <1>2, JoinsFromEmpty DEF JoinedStores
<1>4. \A n \in 1..N : J[n] = J[n - 1] \o g[n]
  BY <1>1, <1>2, JoinsOneMore DEF JoinedStores
<1>5. /\ PartFrom(p) \in Nat /\ PartTo(p) \in Nat /\ p \in 0..in.len
      /\ PartFrom(p) = p * MasterBlockSize
      /\ PartTo(p) = Smaller(p * MasterBlockSize + MasterBlockSize, in.len)
  <2>1. /\ PartFrom(p) \in Nat /\ PartTo(p) \in Nat
        /\ PartFrom(p) < PartTo(p) /\ PartTo(p) <= in.len /\ in.len \in Nat
        /\ PartTo(p) = Smaller(PartFrom(p) + MasterBlockSize, in.len)
        /\ PartFrom(p) = p * MasterBlockSize
    BY PartBounds, CallAssumption DEF PartFrom
  <2>2. p <= p * MasterBlockSize
    BY MultipleAbove, SizesAssumption
  <2> QED BY <2>1, <2>2
<1> HIDE DEF N, g, J
<1>6. Good(1)
  <2>1. 1 \in 1..N /\ 1 - 1 = 0
    BY <1>1
  <2>2. g[1] \in Seq(Tokens)
    BY <1>2, <2>1
  <2>3. J[1] = g[1]
    <3>1. J[1] = J[0] \o g[1]
      BY <2>1, <1>4
    <3>2. J[1] = <<>> \o g[1]
      BY <3>1, <1>3
    <3> QED BY <2>2, <3>2, EmptyConcat
  <2>4. /\ g[1] = Parse(in, PartFrom(p), EndOf(p, 1)) /\ Covers(g[1], PartFrom(p), EndOf(p, 1))
        /\ EndOf(p, 1) \in Nat /\ PartFrom(p) < EndOf(p, 1) /\ EndOf(p, 1) <= PartTo(p)
    BY <2>1, BlockRanges DEF N, g
  <2>5. EndOf(p, 1) \in (PartFrom(p) + 1)..PartTo(p)
    BY <2>4, <1>5
  <2>6. g[1] \in Stores(in)
    BY <2>4, <2>5, <1>5, StoresAssumption
  <2> QED BY <2>3, <2>4, <2>6
<1>7. ASSUME NEW n \in 1..(N - 1), Good(n) PROVE Good(n + 1)
  <2>1. n + 1 \in 1..N /\ (n + 1) - 1 = n /\ n + 1 # 1
    BY <1>1
  <2>2. J[n + 1] = J[n] \o g[n + 1]
    BY <2>1, <1>4
  <2>3. /\ g[n + 1] = Parse(in, EndOf(p, n), EndOf(p, n + 1))
        /\ Covers(g[n + 1], EndOf(p, n), EndOf(p, n + 1))
        /\ EndOf(p, n) \in Nat /\ EndOf(p, n + 1) \in Nat
        /\ PartFrom(p) < EndOf(p, n) /\ EndOf(p, n) < EndOf(p, n + 1)
        /\ EndOf(p, n + 1) <= PartTo(p)
    BY <2>1, BlockRanges DEF N, g
  <2>4. Covers(J[n + 1], PartFrom(p), EndOf(p, n + 1))
    BY <2>2, <2>3, <1>5, <1>7, CoversConcat
  <2>5. /\ EndOf(p, n + 1) \in (PartFrom(p) + 2)..PartTo(p)
        /\ EndOf(p, n) \in (PartFrom(p) + 1)..(EndOf(p, n + 1) - 1)
    BY <2>3, <1>5
  <2>6. J[n + 1] \in Stores(in)
    BY <2>2, <2>3, <2>5, <1>5, <1>7, StoresAssumption
  <2> QED BY <2>4, <2>6
<1>8. 0 \in T
  BY <1>1
<1>9. ASSUME NEW n \in 0..(N - 1), n \in T PROVE n + 1 \in T
  <2>1. n + 1 \in 0..N
    BY <1>1
  <2>2. CASE n = 0
    BY <2>1, <2>2, <1>6
  <2>3. CASE n # 0
    <3>1. n \in 1..(N - 1) /\ Good(n)
      BY <2>3, <1>9
    <3> QED BY <2>1, <3>1, <1>7
  <2> QED BY <2>2, <2>3
<1> HIDE DEF T
<1>10. 0..N \subseteq T
  BY <1>1, <1>8, <1>9, SetInductionUpTo
<1>11. Good(k)
  <2>1. k \in 0..N /\ k # 0
    BY <1>1 DEF N
  <2> QED BY <2>1, <1>10 DEF T
<1> QED BY <1>11 DEF J

(* Something in front of what ends at c begins before c.                   *)
LEMMA BeforeTheEnd ==
    ASSUME NEW x \in Nat, NEW y \in Nat, NEW z \in Nat, NEW w \in Nat, NEW c,
           x + y <= z, z + w = c, w > 0
    PROVE  x < c
  OBVIOUS

(* The tokens of a store before byte c are those of the store of the bytes *)
(* before c that it begins with.                                           *)
LEMMA TokensBefore ==
    ASSUME NEW u, NEW s, NEW a \in Nat, NEW c \in Nat, NEW b \in Nat,
           Covers(u, a, c), Covers(s, a, b), Starts(u, s)
    PROVE  Cardinality({m \in 1..Len(s) : s[m].pos < c}) = Len(u)
<1>1. /\ s \in Seq(Tokens) /\ Len(u) \in Nat /\ Len(s) \in Nat /\ Len(u) <= Len(s)
      /\ Len(u) > 0
  <2>1. s \in Seq(Tokens) /\ u \in Seq(Tokens) /\ u # <<>>
    BY DEF Covers
  <2> QED BY <2>1, TokenFields DEF Starts
<1>2. \A m \in 1..Len(s) : s[m].pos \in Nat /\ s[m].len \in Nat
  BY <1>1, TokenFields
<1>3. \A m \in 1..Len(u) : s[m] = u[m] /\ m \in 1..Len(s)
  BY <1>1 DEF Starts
<1>4. Len(u) \in 1..Len(u) /\ u[Len(u)].pos + u[Len(u)].len = c /\ u[Len(u)].len > 0
  BY <1>1 DEF Covers
<1>5. ASSUME NEW m \in 1..Len(u) PROVE s[m].pos < c
  <2>1. CASE m = Len(u)
    <3>1. s[m].pos + s[m].len = c /\ s[m].len > 0
      BY <2>1, <1>3, <1>4
    <3>2. s[m].pos \in Nat /\ s[m].len \in Nat
      BY <1>2, <1>3
    <3> QED BY <3>1, <3>2
  <2>2. CASE m < Len(u)
    <3>1. s[m].pos + s[m].len <= s[Len(u)].pos
      BY <2>2, <1>3, <1>4 DEF Covers
    <3>2. s[Len(u)].pos + s[Len(u)].len = c /\ s[Len(u)].len > 0
      BY <1>3, <1>4
    <3>3. /\ s[m].pos \in Nat /\ s[m].len \in Nat
          /\ s[Len(u)].pos \in Nat /\ s[Len(u)].len \in Nat
      BY <1>2, <1>3, <1>4
    <3> QED BY <3>1, <3>2, <3>3, BeforeTheEnd
  <2> QED BY <2>1, <2>2, <1>1
<1>6. ASSUME NEW m \in 1..Len(s), m > Len(u) PROVE ~(s[m].pos < c)
  <2>1. Len(u) \in 1..Len(s) /\ Len(u) < m
    BY <1>1, <1>6
  <2>2. s[Len(u)].pos + s[Len(u)].len <= s[m].pos
    BY <2>1 DEF Covers
  <2>3. s[Len(u)].pos + s[Len(u)].len = c /\ s[m].pos \in Nat
    BY <1>2, <1>3, <1>4
  <2> QED BY <2>2, <2>3
<1>7. {m \in 1..Len(s) : s[m].pos < c} = 1..Len(u)
  <2>1. \A m \in 1..Len(s) : s[m].pos < c <=> m \in 1..Len(u)
    <3>1. \A m \in 1..Len(s) : m \in 1..Len(u) \/ m > Len(u)
      BY <1>1
    <3> QED BY <3>1, <1>5, <1>6, <1>1
  <2>2. \A m \in 1..Len(u) : m \in 1..Len(s)
    BY <1>3
  <2> QED BY <2>1, <2>2
<1>8. Cardinality(1..Len(u)) = Len(u)
  <2>1. 1 \in Int /\ Len(u) \in Int
    BY <1>1
  <2>2. Cardinality(1..Len(u)) = IF 1 > Len(u) THEN 0 ELSE Len(u) - 1 + 1
    BY <2>1, FS_Interval
  <2> QED BY <2>2, <1>1
<1> QED BY <1>7, <1>8

(* The joined store of a part, and the points at which it is cut by what   *)
(* its first splitter found.                                               *)
PartStore(p) == JoinedStores(p)[PartBlocks(p)]

(* The tokens of the joined store before a cut are those of the blocks     *)
(* before it: counting them, as the serial plan does, gives the length of  *)
(* the store joined so far, which is what a worker appends to its points.  *)
LEMMA PointsAreLengths ==
    ASSUME in \in Inputs, opt \in Calls, in.len > 0, NEW p \in Nat, p < Parts
    PROVE  /\ Covers(PartStore(p), PartFrom(p), PartTo(p)) /\ PartStore(p) \in Stores(in)
           /\ \A n \in 1..Len(PartCuts(p)) :
                 Cardinality({m \in 1..Len(PartStore(p)) :
                                PartStore(p)[m].pos < PartCuts(p)[n]}) = Len(JoinedStores(p)[n])
<1>1. /\ PartBlocks(p) \in Nat /\ PartBlocks(p) = Len(PartCuts(p)) + 1
      /\ Len(PartCuts(p)) \in Nat
      /\ \A n \in 1..Len(PartCuts(p)) : PartCuts(p)[n] \in Nat
  BY PartCutsInside
<1>2. PartFrom(p) \in Nat /\ PartTo(p) \in Nat
  BY PartBounds
<1>3. EndOf(p, PartBlocks(p)) = PartTo(p) /\ PartBlocks(p) \in 1..PartBlocks(p)
  BY <1>1 DEF EndOf
<1>4. Covers(PartStore(p), PartFrom(p), PartTo(p)) /\ PartStore(p) \in Stores(in)
  <2>1. /\ Covers(PartStore(p), PartFrom(p), EndOf(p, PartBlocks(p)))
        /\ PartStore(p) \in Stores(in)
    BY <1>3, JoinedCovers DEF PartStore
  <2> QED BY <2>1, <1>3
<1>5. ASSUME NEW n \in 1..Len(PartCuts(p))
      PROVE  Cardinality({m \in 1..Len(PartStore(p)) :
                            PartStore(p)[m].pos < PartCuts(p)[n]}) = Len(JoinedStores(p)[n])
  <2>1. n \in 1..PartBlocks(p) /\ EndOf(p, n) = PartCuts(p)[n]
    BY <1>1 DEF EndOf
  <2>2. Covers(JoinedStores(p)[n], PartFrom(p), PartCuts(p)[n])
    BY <2>1, JoinedCovers
  <2>3. Starts(JoinedStores(p)[n], PartStore(p))
    <3>1. n \in 0..PartBlocks(p) /\ PartBlocks(p) \in n..PartBlocks(p)
      BY <1>1, <2>1
    <3>2. BlockParses(p) \in [1..PartBlocks(p) -> Seq(Tokens)]
      BY ParsesOfPart
    <3> QED BY <3>1, <3>2, <1>1, JoinsGrow DEF JoinedStores, PartStore
  <2>4. PartCuts(p)[n] \in Nat
    BY <1>1
  <2> QED BY <2>2, <2>3, <2>4, <1>2, <1>4, TokensBefore
<1> QED BY <1>4, <1>5

(* Where the serial plan of a part of block type 2 cuts its store.         *)
PlanPoints(p) ==
    IF opt.splitting /\ Len(PartCuts(p)) > 1 /\ Cheaper(in, p)
    THEN BlockSplitLZ77(in, PartStore(p))
    ELSE [n \in 1..Len(PartCuts(p)) |-> Len(JoinedStores(p)[n])]

(* The serial plan of a part.                                              *)
LEMMA SerialPlanOf ==
    ASSUME in \in Inputs, opt \in Calls, in.len > 0, NEW p \in Nat, p < Parts
    PROVE  /\ opt.btype = 0 => PlanFor(p) = Plan(0, PartFrom(p), PartTo(p), <<>>, <<>>)
           /\ opt.btype = 1 => PlanFor(p) = Plan(1, PartFrom(p), PartTo(p),
                                  FixedParse(in, PartFrom(p), PartTo(p)), <<>>)
           /\ opt.btype = 2 => PlanFor(p) = Plan(2, PartFrom(p), PartTo(p),
                                  PartStore(p), PlanPoints(p))
<1> DEFINE from == PartFrom(p)
           to == PartTo(p)
           cs == IF opt.btype = 2 THEN FirstCuts(in, opt, from, to) ELSE <<>>
           s == CASE opt.btype = 0 -> <<>>
                  [] opt.btype = 1 -> FixedParse(in, from, to)
                  [] OTHER -> SerialStore(in, cs, from, to)
           before(n) == Cardinality({m \in 1..Len(s) : s[m].pos < cs[n]})
           pts == IF opt.splitting /\ Len(cs) > 1 /\ Cheaper(in, p) THEN BlockSplitLZ77(in, s)
                  ELSE [n \in 1..Len(cs) |-> before(n)]
<1>1. PlanFor(p) = Plan(opt.btype, from, to, s, pts)
  BY DEF PlanFor, SerialPlan
<1>2. cs = PartCuts(p)
  BY DEF PartCuts
<1>3. ASSUME opt.btype # 2 PROVE pts = <<>>
  <2>1. cs = <<>>
    BY <1>3
  <2> HIDE DEF cs, s
  <2>2. Len(cs) = 0
    BY <2>1
  <2>3. pts = [n \in 1..0 |-> before(n)]
    BY <2>2
  <2> HIDE DEF before, pts
  <2>4. 1..0 = {}
    OBVIOUS
  <2>5. <<>> = [n \in 1..0 |-> before(n)]
    BY <2>4
  <2> QED BY <2>3, <2>5
<1>4. ASSUME opt.btype = 2 PROVE s = PartStore(p) /\ pts = PlanPoints(p)
  <2>1. /\ PartBlocks(p) \in Nat /\ PartBlocks(p) # 0
        /\ PartBlocks(p) = Len(PartCuts(p)) + 1
    BY PartCutsInside
  <2>2. BlockParses(p) \in [1..PartBlocks(p) -> Seq(Tokens)]
    BY ParsesOfPart
  <2>3. SerialStore(in, PartCuts(p), from, to) = FlattenSeq(BlockParses(p))
    BY <2>1 DEF SerialStore, BlockParses
  <2>4. FlattenSeq(BlockParses(p)) = PartStore(p)
    BY <2>1, <2>2, FlattenIsJoins DEF PartStore, JoinedStores
  <2>5. s = SerialStore(in, cs, from, to)
    BY <1>4
  <2> HIDE DEF s, cs, from, to
  <2>6. s = PartStore(p)
    BY <2>3, <2>4, <2>5, <1>2
  <2>7. \A n \in 1..Len(PartCuts(p)) : before(n) = Len(JoinedStores(p)[n])
    <3>1. \A n \in 1..Len(PartCuts(p)) :
             Cardinality({m \in 1..Len(PartStore(p)) :
                            PartStore(p)[m].pos < PartCuts(p)[n]}) = Len(JoinedStores(p)[n])
      BY PointsAreLengths
    <3> QED BY <3>1, <2>6, <1>2
  <2> HIDE DEF before
  <2>8. [n \in 1..Len(PartCuts(p)) |-> before(n)]
           = [n \in 1..Len(PartCuts(p)) |-> Len(JoinedStores(p)[n])]
    BY <2>7
  <2>9. pts = IF opt.splitting /\ Len(PartCuts(p)) > 1 /\ Cheaper(in, p)
              THEN BlockSplitLZ77(in, PartStore(p))
              ELSE [n \in 1..Len(PartCuts(p)) |-> before(n)]
    BY <2>6, <1>2
  <2> QED BY <2>6, <2>8, <2>9 DEF PlanPoints
<1>5. opt.btype = 0 => s = <<>>
  OBVIOUS
<1>6. opt.btype = 1 => s = FixedParse(in, from, to)
  OBVIOUS
<1> HIDE DEF s, pts, cs
<1> QED BY <1>1, <1>3, <1>4, <1>5, <1>6

(* A sum with something more is more.                                      *)
LEMMA SumGrows ==
    ASSUME NEW a \in Nat, NEW b \in Nat, NEW c \in Nat, NEW d, d = b + c, a <= b, c > 0
    PROVE  d \in Nat /\ a < d
  OBVIOUS

(* Stores that grow with every block have growing lengths.                 *)
LEMMA LengthsGrow ==
    ASSUME in \in Inputs, opt \in Calls, in.len > 0, NEW p \in Nat, p < Parts,
           NEW m \in 0..PartBlocks(p), NEW n \in 0..PartBlocks(p), m < n
    PROVE  /\ Len(JoinedStores(p)[m]) \in Nat /\ Len(JoinedStores(p)[n]) \in Nat
           /\ Len(JoinedStores(p)[m]) < Len(JoinedStores(p)[n])
<1>1. PartBlocks(p) \in Nat
  BY PartCutsInside
<1>2. BlockParses(p) \in [1..PartBlocks(p) -> Seq(Tokens)]
  BY ParsesOfPart
<1> DEFINE k == n - 1
<1>3. /\ k \in Nat /\ k < PartBlocks(p) /\ k \in 0..PartBlocks(p) /\ k \in m..PartBlocks(p)
      /\ k + 1 = n /\ n \in 1..PartBlocks(p)
  BY <1>1
<1> HIDE DEF k
<1>4. Starts(JoinedStores(p)[m], JoinedStores(p)[k])
  BY <1>1, <1>2, <1>3, JoinsGrow DEF JoinedStores
<1>5. Follows(BlockParses(p), PartBlocks(p), k)
  BY <1>1, <1>2, <1>3, JoinsFollow
<1>6. /\ Len(BlockParses(p)[n]) \in Nat /\ Len(JoinedStores(p)[k]) \in Nat
      /\ Len(JoinedStores(p)[n]) = Len(JoinedStores(p)[k]) + Len(BlockParses(p)[n])
  BY <1>3, <1>5 DEF Follows, JoinedStores
<1>7. Len(BlockParses(p)[n]) > 0
  <2>1. BlockParses(p)[n] \in Seq(Tokens)
    BY <1>2, <1>3
  <2>2. BlockParses(p)[n] # <<>>
    BY <1>3, BlockRanges DEF Covers
  <2> QED BY <2>1, <2>2, TokenFields
<1>8. /\ Len(JoinedStores(p)[m]) \in Nat
      /\ Len(JoinedStores(p)[m]) <= Len(JoinedStores(p)[k])
  BY <1>4 DEF Starts
<1> QED BY <1>6, <1>7, <1>8, SumGrows

(* The points of the serial plan cut its store inside.                     *)
LEMMA PlanPointsInside ==
    ASSUME in \in Inputs, opt \in Calls, in.len > 0, NEW p \in Nat, p < Parts
    PROVE  PlanPoints(p) \in Seq(Nat) /\ CutsInside(PlanPoints(p), 0, Len(PartStore(p)))
<1> DEFINE L == Len(PartCuts(p))
           pts == [n \in 1..L |-> Len(JoinedStores(p)[n])]
<1>1. L \in Nat /\ PartBlocks(p) = L + 1
  BY PartCutsInside
<1> HIDE DEF L
<1>2. CutsInside(pts, 0, Len(PartStore(p)))
  <2>1. \A n \in 1..L : n \in 0..PartBlocks(p) /\ 0 \in 0..PartBlocks(p) /\ 0 < n
    BY <1>1
  <2>2. \A n \in 1..L : PartBlocks(p) \in 0..PartBlocks(p) /\ n < PartBlocks(p)
    BY <1>1
  <2>3. \A n \in 1..L : pts[n] = Len(JoinedStores(p)[n]) /\ pts[n] \in Nat
    BY <2>1, LengthsGrow
  <2>4. pts \in Seq(Nat) /\ Len(pts) = L
    <3>1. pts \in [1..L -> Nat]
      BY <2>3
    <3> HIDE DEF pts
    <3> QED BY <3>1, <1>1
  <2>5. ASSUME NEW n \in 1..L PROVE 0 < pts[n] /\ pts[n] < Len(PartStore(p))
    <3>1. /\ Len(JoinedStores(p)[0]) \in Nat
          /\ Len(JoinedStores(p)[0]) < Len(JoinedStores(p)[n])
      BY <2>1, LengthsGrow
    <3>2. Len(JoinedStores(p)[n]) < Len(PartStore(p))
      BY <2>1, <2>2, LengthsGrow DEF PartStore
    <3> QED BY <2>3, <3>1, <3>2
  <2>6. ASSUME NEW m \in 1..L, NEW n \in 1..L, m < n PROVE pts[m] < pts[n]
    BY <2>1, <2>3, <2>6, LengthsGrow
  <2> HIDE DEF pts
  <2> QED BY <2>4, <2>5, <2>6 DEF CutsInside
<1>3. CutsInside(BlockSplitLZ77(in, PartStore(p)), 0, Len(PartStore(p)))
  BY PointsAreLengths, StoresAssumption
<1>4. CutsInside(PlanPoints(p), 0, Len(PartStore(p)))
  BY <1>2, <1>3 DEF PlanPoints, L
<1> QED BY <1>4 DEF CutsInside

(* The fields of a plan.                                                   *)
LEMMA PlanFields ==
    ASSUME NEW btype \in 0..2, NEW from \in Nat, NEW to \in Nat,
           NEW s \in Seq(Tokens), NEW pts \in Seq(Nat)
    PROVE  /\ Plan(btype, from, to, s, pts) \in Plans
           /\ Plan(btype, from, to, s, pts).btype = btype
           /\ Plan(btype, from, to, s, pts).from = from
           /\ Plan(btype, from, to, s, pts).to = to
           /\ Plan(btype, from, to, s, pts).store = s
           /\ Plan(btype, from, to, s, pts).points = pts
  BY DEF Plan, Plans

(* The serial plan of a part is a plan of the part.                        *)
LEMMA PlanForPart ==
    ASSUME in \in Inputs, opt \in Calls, in.len > 0, NEW p \in Nat, p < Parts
    PROVE  PlanFor(p) \in Plans /\ PlanOf(PlanFor(p), p)
<1>1. /\ PartFrom(p) \in 0..in.len /\ PartTo(p) \in 0..in.len
      /\ PartFrom(p) < PartTo(p) /\ in.len \in Nat
      /\ PartFrom(p) \in Nat /\ PartTo(p) \in Nat
  BY PartBounds, CallAssumption
<1>2. opt.btype \in 0..2
  BY CallFields
<1>3. CASE opt.btype = 0
  <2>1. PlanFor(p) = Plan(0, PartFrom(p), PartTo(p), <<>>, <<>>)
    BY <1>3, SerialPlanOf
  <2>2. <<>> \in Seq(Tokens) /\ <<>> \in Seq(Nat) /\ 0 \in 0..2
    OBVIOUS
  <2>3. /\ PlanFor(p) \in Plans
        /\ PlanFor(p).btype = 0 /\ PlanFor(p).from = PartFrom(p) /\ PlanFor(p).to = PartTo(p)
        /\ PlanFor(p).points = <<>>
    BY <1>1, <2>1, <2>2 DEF Plan, Plans
  <2> QED BY <1>3, <2>3 DEF PlanOf
<1>4. CASE opt.btype = 1
  <2>1. Covers(FixedParse(in, PartFrom(p), PartTo(p)), PartFrom(p), PartTo(p))
    BY <1>1, AnalysisAssumption
  <2>2. FixedParse(in, PartFrom(p), PartTo(p)) \in Seq(Tokens)
    BY <2>1 DEF Covers
  <2>3. CutsInside(<<>>, 0, Len(FixedParse(in, PartFrom(p), PartTo(p))))
    BY DEF CutsInside
  <2>4. PlanFor(p) = Plan(1, PartFrom(p), PartTo(p),
                          FixedParse(in, PartFrom(p), PartTo(p)), <<>>)
    BY <1>4, SerialPlanOf
  <2>5. <<>> \in Seq(Nat) /\ 1 \in 0..2
    OBVIOUS
  <2>6. /\ PlanFor(p) \in Plans
        /\ PlanFor(p).btype = 1 /\ PlanFor(p).from = PartFrom(p) /\ PlanFor(p).to = PartTo(p)
        /\ PlanFor(p).store = FixedParse(in, PartFrom(p), PartTo(p)) /\ PlanFor(p).points = <<>>
    BY <1>1, <2>2, <2>4, <2>5 DEF Plan, Plans
  <2> QED BY <1>4, <2>6, <2>1, <2>3 DEF PlanOf
<1>5. CASE opt.btype = 2
  <2>1. Covers(PartStore(p), PartFrom(p), PartTo(p))
    BY PointsAreLengths
  <2>2. PartStore(p) \in Seq(Tokens)
    BY <2>1 DEF Covers
  <2>3. PlanFor(p) = Plan(2, PartFrom(p), PartTo(p), PartStore(p), PlanPoints(p))
    BY <1>5, SerialPlanOf
  <2>4. 2 \in 0..2
    OBVIOUS
  <2>5. /\ PlanFor(p) \in Plans
        /\ PlanFor(p).btype = 2 /\ PlanFor(p).from = PartFrom(p) /\ PlanFor(p).to = PartTo(p)
        /\ PlanFor(p).store = PartStore(p) /\ PlanFor(p).points = PlanPoints(p)
    BY SMTT(30), <1>1, <2>2, <2>3, <2>4, PlanPointsInside, PlanFields
  <2> QED BY <1>5, <2>5, <2>1, PlanPointsInside DEF PlanOf
<1> QED BY <1>2, <1>3, <1>4, <1>5

(* The chunks a block is written in: what they hold, and how many they     *)
(* are.                                                                    *)
PlannedBlocks == [kind: {"stored", "fixed", "dynamic"}, from: Nat, to: Nat,
                  tokens: Seq(Tokens)]

ChunkRecords == [block: PlannedBlocks, done: Nat]

Pieces(b) == IF b.kind = "stored" THEN 1 + (b.to - b.from - 1) \div StoredMax ELSE 1

(* The chunks of a block, one by one.                                      *)
LEMMA ChunksOfBlock ==
    ASSUME NEW b \in PlannedBlocks, b.from < b.to
    PROVE  /\ Pieces(b) \in Nat /\ Pieces(b) > 0
           /\ SerialChunks(b) \in Seq(ChunkRecords)
           /\ Len(SerialChunks(b)) = Pieces(b)
           /\ \A n \in 1..Pieces(b) :
                 SerialChunks(b)[n] = [block |-> b, done |-> (n - 1) * StoredMax]
<1>1. b.from \in Nat /\ b.to \in Nat /\ StoredMax \in Nat \ {0}
  BY SizesAssumption DEF PlannedBlocks
<1>2. Pieces(b) \in Nat /\ Pieces(b) > 0
  <2>1. (b.to - b.from - 1) \in Nat
    BY <1>1
  <2>2. (b.to - b.from - 1) \div StoredMax \in Nat
    BY <1>1, <2>1, DivisionBounds
  <2> QED BY <2>2 DEF Pieces
<1>3. SerialChunks(b) = [n \in 1..Pieces(b) |-> [block |-> b, done |-> (n - 1) * StoredMax]]
  BY DEF SerialChunks, Pieces
<1>4. \A n \in 1..Pieces(b) : [block |-> b, done |-> (n - 1) * StoredMax] \in ChunkRecords
  <2> SUFFICES ASSUME NEW n \in 1..Pieces(b) PROVE (n - 1) * StoredMax \in Nat
    BY DEF ChunkRecords
  <2>1. n - 1 \in Nat
    BY <1>2
  <2> QED BY <1>1, <2>1, MultipleBelow
<1>5. SerialChunks(b) \in [1..Pieces(b) -> ChunkRecords]
  BY <1>3, <1>4
<1>6. SerialChunks(b) \in Seq(ChunkRecords) /\ Len(SerialChunks(b)) = Pieces(b)
  BY <1>2, <1>5
<1> QED BY <1>2, <1>3, <1>6

(* The chunk that starts k times StoredMax bytes into a block is one of    *)
(* its chunks, and the last one where the next would start at its end.     *)
LEMMA ChunkIsPiece ==
    ASSUME NEW b \in PlannedBlocks, NEW k \in Nat, k * StoredMax < b.to - b.from,
           b.kind # "stored" => k = 0
    PROVE  /\ k < Pieces(b)
           /\ LastChunk(b, k * StoredMax) <=> k + 1 = Pieces(b)
<1>1. b.from \in Nat /\ b.to \in Nat /\ StoredMax \in Nat \ {0}
  BY SizesAssumption DEF PlannedBlocks
<1>2. k * StoredMax \in Nat
  BY <1>1, MultipleBelow
<1>3. CASE b.kind # "stored"
  BY <1>1, <1>3 DEF Pieces, LastChunk, ChunkTo
<1>4. CASE b.kind = "stored"
  <2> DEFINE n == b.to - b.from - 1
             q == n \div StoredMax
  <2>1. n \in Nat /\ k * StoredMax <= n
    BY <1>1, <1>2
  <2>2. q \in Nat /\ q * StoredMax <= n /\ n < q * StoredMax + StoredMax
    BY <1>1, <2>1, DivisionBounds
  <2>3. Pieces(b) = 1 + q
    BY <1>4 DEF Pieces
  <2>4. LastChunk(b, k * StoredMax) <=> k * StoredMax + StoredMax > n
    BY <1>1, <1>2, <1>4 DEF LastChunk, ChunkTo, Smaller
  <2> HIDE DEF q, n
  <2>5. /\ q * StoredMax \in Nat
        /\ (q + 1) * StoredMax = q * StoredMax + StoredMax
        /\ k * StoredMax < (q + 1) * StoredMax => k < q + 1
        /\ k < q => k * StoredMax + StoredMax <= q * StoredMax
    <3>1. q + 1 \in Nat
      BY <2>2
    <3>2. k * StoredMax < (q + 1) * StoredMax => k < q + 1
      BY <1>1, <3>1, MultipleBelow
    <3>3. /\ q * StoredMax \in Nat
          /\ (q + 1) * StoredMax = q * StoredMax + StoredMax
      BY <1>1, <2>2, MultipleBelow
    <3>4. k < q => k * StoredMax + StoredMax <= q * StoredMax
      BY <1>1, <2>2, MultipleBelow
    <3> QED BY <3>2, <3>3, <3>4
  <2>6. k < q + 1
    <3>1. k * StoredMax < (q + 1) * StoredMax
      BY <1>1, <1>2, <2>1, <2>2, <2>5
    <3> QED BY <2>5, <3>1
  <2>7. CASE k < q
    <3>1. ~(k * StoredMax + StoredMax > n)
      BY <1>1, <1>2, <2>1, <2>2, <2>5, <2>7
    <3> QED BY <2>2, <2>3, <2>4, <2>6, <2>7, <3>1
  <2>8. CASE k = q
    BY <2>2, <2>3, <2>4, <2>6, <2>8
  <2> QED BY <2>2, <2>6, <2>7, <2>8
<1> QED BY <1>3, <1>4

(* The chunks of the blocks of a part, joined.                             *)
LEMMA ChunksOfPart ==
    ASSUME in \in Inputs, opt \in Calls, in.len > 0, NEW p \in Nat, p < Parts
    PROVE  /\ Blocks(PlanFor(p)) \in Nat /\ Blocks(PlanFor(p)) > 0
           /\ \A b \in 0..(Blocks(PlanFor(p)) - 1) :
                 /\ PlannedBlock(in, PlanFor(p), b) \in PlannedBlocks
                 /\ PlannedBlock(in, PlanFor(p), b).from < PlannedBlock(in, PlanFor(p), b).to
           /\ ChunksOf(p) \in [1..Blocks(PlanFor(p)) -> Seq(ChunkRecords)]
           /\ FlattenSeq(ChunksOf(p)) = BeforeBlock(p)[Blocks(PlanFor(p))]
           /\ FlattenSeq(ChunksOf(p)) \in Seq(ChunkRecords)
<1> DEFINE N == Blocks(PlanFor(p))
<1>1. PlanFor(p) \in Plans /\ PlanOf(PlanFor(p), p)
  BY PlanForPart
<1>2. N \in Nat /\ N > 0
  <2>1. PlanFor(p).points \in Seq(Nat)
    BY <1>1 DEF Plans
  <2>2. Len(PlanFor(p).points) \in Nat
    BY <2>1
  <2> QED BY <2>2 DEF Blocks
<1>3. ASSUME NEW b \in 0..(N - 1)
      PROVE  /\ PlannedBlock(in, PlanFor(p), b) \in PlannedBlocks
             /\ PlannedBlock(in, PlanFor(p), b).from < PlannedBlock(in, PlanFor(p), b).to
  <2> DEFINE pb == PlannedBlock(in, PlanFor(p), b)
  <2>1. b \in Nat /\ b < N
    BY <1>2
  <2>2. /\ pb.from \in Nat /\ pb.to \in Nat /\ pb.from < pb.to
        /\ pb.kind \in {"stored", "fixed", "dynamic"} /\ pb.tokens \in Seq(Tokens)
    BY <1>1, <2>1, BlockOfPlan
  <2>3. pb = [kind |-> pb.kind, from |-> pb.from, to |-> pb.to, tokens |-> pb.tokens]
    BY DEF PlannedBlock
  <2> HIDE DEF pb
  <2>4. pb \in PlannedBlocks
    BY <2>2, <2>3 DEF PlannedBlocks
  <2> QED BY <2>2, <2>4 DEF pb
<1>4. ChunksOf(p) \in [1..N -> Seq(ChunkRecords)]
  <2>1. ASSUME NEW n \in 1..N
        PROVE  SerialChunks(PlannedBlock(in, PlanFor(p), n - 1)) \in Seq(ChunkRecords)
    <3>1. n - 1 \in 0..(N - 1)
      BY <1>2
    <3> QED BY <3>1, <1>3, ChunksOfBlock
  <2> QED BY <2>1 DEF ChunksOf
<1>5. N # 0
  BY <1>2
<1>6. FlattenSeq(ChunksOf(p)) = BeforeBlock(p)[N]
  BY <1>2, <1>4, <1>5, FlattenIsJoins DEF BeforeBlock
<1>7. BeforeBlock(p)[N] \in Seq(ChunkRecords)
  <2>1. N \in 0..N
    BY <1>2
  <2> QED BY <2>1, <1>2, <1>4, JoinsTyped DEF BeforeBlock
<1> QED BY <1>2, <1>3, <1>4, <1>6, <1>7

(* The chunks of all parts, joined, are the serial stream's.               *)
LEMMA ChunksOfInput ==
    ASSUME in \in Inputs, opt \in Calls, in.len > 0
    PROVE  /\ Parts \in Nat /\ Parts > 0
           /\ ChunksOfParts \in [1..Parts -> Seq(ChunkRecords)]
           /\ Chunks = BeforePart[Parts]
<1>1. Parts \in Nat /\ Parts > 0 /\ Parts # 0
  BY PartsPositive
<1>2. ChunksOfParts \in [1..Parts -> Seq(ChunkRecords)]
  <2>1. ASSUME NEW p \in 1..Parts PROVE FlattenSeq(ChunksOf(p - 1)) \in Seq(ChunkRecords)
    <3>1. p - 1 \in Nat /\ p - 1 < Parts
      BY <1>1
    <3> QED BY <3>1, ChunksOfPart
  <2> QED BY <2>1 DEF ChunksOfParts
<1>3. FlattenSeq(ChunksOfParts) = BeforePart[Parts]
  BY <1>1, <1>2, FlattenIsJoins DEF BeforePart
<1>4. Chunks = FlattenSeq(ChunksOfParts)
  <2>1. in.len # 0
    BY CallAssumption
  <2> QED BY <2>1 DEF Chunks
<1> QED BY <1>1, <1>2, <1>3, <1>4

(* A place among the chunks of a part is a place among all chunks.         *)
LEMMA PlaceInStream ==
    ASSUME in \in Inputs, opt \in Calls, in.len > 0, NEW p \in Nat, p < Parts,
           NEW i \in 1..Len(FlattenSeq(ChunksOf(p)))
    PROVE  /\ Len(BeforePart[p]) \in Nat /\ Len(FlattenSeq(ChunksOf(p))) \in Nat
           /\ Len(BeforePart[p + 1]) = Len(BeforePart[p]) + Len(FlattenSeq(ChunksOf(p)))
           /\ Len(BeforePart[p + 1]) <= Len(Chunks) /\ Len(Chunks) \in Nat
           /\ Chunks[Len(BeforePart[p]) + i] = FlattenSeq(ChunksOf(p))[i]
<1>1. Parts \in Nat /\ p + 1 \in 1..Parts /\ (p + 1) - 1 = p
  BY ChunksOfInput
<1>2. ChunksOfParts \in [1..Parts -> Seq(ChunkRecords)] /\ Chunks = BeforePart[Parts]
  BY ChunksOfInput
<1>3. ChunksOfParts[p + 1] = FlattenSeq(ChunksOf(p))
  BY <1>1 DEF ChunksOfParts
<1>4. Follows(ChunksOfParts, Parts, p) /\ FollowsAt(ChunksOfParts, Parts, p)
  BY <1>1, <1>2, JoinsFollow
<1>5. /\ Len(FlattenSeq(ChunksOf(p))) \in Nat /\ Len(BeforePart[p]) \in Nat
      /\ Len(BeforePart[p + 1]) = Len(BeforePart[p]) + Len(FlattenSeq(ChunksOf(p)))
      /\ Len(BeforePart[p + 1]) <= Len(Chunks)
  BY <1>2, <1>3, <1>4 DEF Follows, BeforePart
<1>6. Chunks[Len(BeforePart[p]) + i] = FlattenSeq(ChunksOf(p))[i]
  BY <1>2, <1>3, <1>4 DEF FollowsAt, BeforePart
<1>7. Len(Chunks) \in Nat
  <2>1. Parts \in 0..Parts
    BY <1>1
  <2>2. BeforePart[Parts] \in Seq(ChunkRecords)
    BY <2>1, <1>1, <1>2, JoinsTyped DEF BeforePart
  <2> QED BY <2>2, <1>2
<1> QED BY <1>5, <1>6, <1>7

(* Where the next chunk stands.                                            *)
LEMMA PositionSums ==
    ASSUME NEW x \in Nat, NEW y \in Nat, NEW w \in Nat, NEW k \in Nat, k < w,
           NEW z, z = y + w, NEW a \in Nat, z <= a, NEW t \in Nat, x + a <= t,
           NEW c, c = x + y + k, NEW d, d = x + z + 0, NEW e, e = x + a
    PROVE  /\ y + (k + 1) \in 1..a
           /\ c \in Nat /\ c < t
           /\ c + 1 = x + (y + (k + 1))
           /\ k + 1 = w => d = c + 1
           /\ k + 1 = w /\ z = a => e = c + 1
  OBVIOUS

(* The chunk at a position of the serial stream.                           *)
LEMMA ChunkAtPosition ==
    ASSUME in \in Inputs, opt \in Calls, in.len > 0, NEW p \in Nat, p < Parts,
           NEW b \in Nat, b < Blocks(PlanFor(p)),
           NEW k \in Nat, k < Pieces(PlannedBlock(in, PlanFor(p), b))
    PROVE  /\ Position(p, b, k) \in Nat /\ Position(p, b, k) < Len(Chunks) /\ Len(Chunks) \in Nat
           /\ Chunks[Position(p, b, k) + 1]
                 = [block |-> PlannedBlock(in, PlanFor(p), b), done |-> k * StoredMax]
           /\ Position(p, b, k + 1) = Position(p, b, k) + 1
           /\ k + 1 = Pieces(PlannedBlock(in, PlanFor(p), b)) =>
                 /\ b + 1 < Blocks(PlanFor(p)) => Position(p, b + 1, 0) = Position(p, b, k) + 1
                 /\ b + 1 = Blocks(PlanFor(p)) =>
                       Len(BeforePart[p + 1]) = Position(p, b, k) + 1
<1> DEFINE N == Blocks(PlanFor(p))
           pb == PlannedBlock(in, PlanFor(p), b)
           B == BeforeBlock(p)
           all == FlattenSeq(ChunksOf(p))
           n == b + 1
<1>1. /\ N \in Nat /\ N > 0 /\ pb \in PlannedBlocks /\ pb.from < pb.to
      /\ ChunksOf(p) \in [1..N -> Seq(ChunkRecords)]
      /\ all = B[N]
  <2>1. b \in 0..(Blocks(PlanFor(p)) - 1)
    BY ChunksOfPart
  <2> QED BY <2>1, ChunksOfPart
<1>2. /\ Pieces(pb) \in Nat /\ Len(SerialChunks(pb)) = Pieces(pb)
      /\ \A j \in 1..Pieces(pb) :
            SerialChunks(pb)[j] = [block |-> pb, done |-> (j - 1) * StoredMax]
  BY <1>1, ChunksOfBlock
<1>3. n \in 1..N /\ n - 1 = b
  BY <1>1
<1>4. ChunksOf(p)[b + 1] = SerialChunks(pb)
  BY <1>3 DEF ChunksOf
<1>5. Follows(ChunksOf(p), N, b) /\ FollowsAt(ChunksOf(p), N, b)
  BY <1>1, JoinsFollow
<1>6. Len(B[b]) \in Nat /\ Len(B[n]) = Len(B[b]) + Pieces(pb) /\ Len(B[n]) <= Len(all)
  BY <1>1, <1>2, <1>4, <1>5 DEF Follows, BeforeBlock
<1>7. \A j \in 1..Pieces(pb) : all[Len(B[b]) + j] = SerialChunks(pb)[j]
  BY <1>1, <1>2, <1>4, <1>5 DEF FollowsAt, BeforeBlock
<1>8. Position(p, b, k) = Len(BeforePart[p]) + Len(B[b]) + k
  BY DEF Position
<1>9. Position(p, n, 0) = Len(BeforePart[p]) + Len(B[n]) + 0
  BY DEF Position
<1> HIDE DEF N, pb, B, all, n
<1>10. k < Pieces(pb) /\ k + 1 \in 1..Pieces(pb) /\ (k + 1) - 1 = k /\ Pieces(pb) \in Nat
  BY <1>2 DEF pb
<1>11. Len(all) \in Nat
  <2>1. all \in Seq(ChunkRecords)
    BY ChunksOfPart DEF all
  <2> QED BY <2>1
<1>12. /\ Len(BeforePart[p]) \in Nat /\ Len(Chunks) \in Nat
       /\ Len(BeforePart[p + 1]) = Len(BeforePart[p]) + Len(all)
       /\ Len(BeforePart[p]) + Len(all) <= Len(Chunks)
  <2>1. Len(all) > 0
    BY <1>6, <1>10, <1>11
  <2>2. 1 \in 1..Len(all)
    BY <1>11, <2>1
  <2> QED BY <2>2, PlaceInStream DEF all
<1>13. /\ Len(B[b]) + (k + 1) \in 1..Len(all)
       /\ Position(p, b, k) \in Nat /\ Position(p, b, k) < Len(Chunks)
       /\ Position(p, b, k) + 1 = Len(BeforePart[p]) + (Len(B[b]) + (k + 1))
       /\ k + 1 = Pieces(pb) => Position(p, n, 0) = Position(p, b, k) + 1
       /\ k + 1 = Pieces(pb) /\ Len(B[n]) = Len(all) =>
             Len(BeforePart[p + 1]) = Position(p, b, k) + 1
  <2>1. PICK x \in Nat : x = Len(BeforePart[p])
    BY <1>12
  <2>2. PICK y \in Nat : y = Len(B[b])
    BY <1>6
  <2>3. PICK w \in Nat : w = Pieces(pb)
    BY <1>10
  <2>4. PICK a \in Nat : a = Len(all)
    BY <1>11
  <2>5. PICK t \in Nat : t = Len(Chunks)
    BY <1>12
  <2>6. PICK z, c, d, e : /\ z = Len(B[n]) /\ c = Position(p, b, k)
                          /\ d = Position(p, n, 0) /\ e = Len(BeforePart[p + 1])
    OBVIOUS
  <2>7. /\ k < w /\ z = y + w /\ z <= a /\ x + a <= t
        /\ c = x + y + k /\ d = x + z + 0 /\ e = x + a
    BY <2>1, <2>2, <2>3, <2>4, <2>5, <2>6, <1>8, <1>9, <1>6, <1>10, <1>12
  <2>8. /\ y + (k + 1) \in 1..a /\ c \in Nat /\ c < t
        /\ c + 1 = x + (y + (k + 1))
        /\ k + 1 = w => d = c + 1
        /\ k + 1 = w /\ z = a => e = c + 1
    BY <2>7, PositionSums
  <2> QED BY <2>1, <2>2, <2>3, <2>4, <2>5, <2>6, <2>8
<1>14. all[Len(B[b]) + (k + 1)] = [block |-> pb, done |-> k * StoredMax]
  <2>1. all[Len(B[b]) + (k + 1)] = SerialChunks(pb)[k + 1]
    BY <1>7, <1>10
  <2> QED BY <2>1, <1>2, <1>10
<1>15. Chunks[Len(BeforePart[p]) + (Len(B[b]) + (k + 1))] = all[Len(B[b]) + (k + 1)]
  BY <1>13, PlaceInStream DEF all
<1>16. Chunks[Position(p, b, k) + 1] = [block |-> pb, done |-> k * StoredMax]
  BY <1>13, <1>14, <1>15
<1>17. n = N => Len(B[n]) = Len(all)
  BY <1>1
<1>18. Position(p, b, k + 1) = Position(p, b, k) + 1
  <2>1. PICK x \in Nat, y \in Nat : x = Len(BeforePart[p]) /\ y = Len(B[b])
    BY <1>6, <1>12
  <2>2. Position(p, b, k) = x + y + k /\ Position(p, b, k + 1) = x + y + (k + 1)
    BY <2>1 DEF Position, B
  <2> QED BY <2>2
<1> QED BY <1>12, <1>13, <1>16, <1>17, <1>18 DEF pb, n, N

(* The first chunk of a part stands behind those of the parts before.      *)
LEMMA FirstPosition ==
    ASSUME in \in Inputs, opt \in Calls, in.len > 0, NEW p \in Nat, p < Parts
    PROVE  Position(p, 0, 0) = Len(BeforePart[p]) /\ Len(BeforePart[0]) = 0
<1>1. BeforePart[0] = <<>>
  BY ChunksOfInput, JoinsFromEmpty DEF BeforePart
<1>2. BeforeBlock(p)[0] = <<>>
  BY ChunksOfPart, JoinsFromEmpty DEF BeforeBlock
<1>3. Len(BeforePart[p]) \in Nat
  <2>1. p \in 0..Parts
    BY ChunksOfInput
  <2>2. BeforePart[p] \in Seq(ChunkRecords)
    BY <2>1, ChunksOfInput, JoinsTyped DEF BeforePart
  <2> QED BY <2>2
<1> QED BY <1>1, <1>2, <1>3 DEF Position

-----------------------------------------------------------------------------
(* Every step keeps what is held and what is written serial.               *)

(* The serial stream and its parts depend on the input and the arguments   *)
(* of the call alone.                                                      *)
LEMMA CallStable ==
    ASSUME in' = in, opt' = opt
    PROVE  /\ Parts' = Parts /\ BeforePart' = BeforePart /\ Chunks' = Chunks
           /\ \A p : /\ PartCuts(p)' = PartCuts(p) /\ JoinedStores(p)' = JoinedStores(p)
                     /\ PlanFor(p)' = PlanFor(p) /\ BeforeBlock(p)' = BeforeBlock(p)
<1>1. \A p : PartFrom(p)' = PartFrom(p) /\ PartTo(p)' = PartTo(p)
  BY DEF PartFrom, PartTo
<1>2. Parts' = Parts
  BY DEF Parts
<1>3. ASSUME NEW p PROVE PartCuts(p)' = PartCuts(p) /\ PartBlocks(p)' = PartBlocks(p)
  BY <1>1 DEF PartCuts, PartBlocks
<1>4. ASSUME NEW p PROVE BlockParses(p)' = BlockParses(p)
  BY <1>1, <1>3 DEF BlockParses
<1>5. ASSUME NEW p PROVE JoinedStores(p)' = JoinedStores(p)
  BY <1>3, <1>4 DEF JoinedStores
<1>6. ASSUME NEW p PROVE PlanFor(p)' = PlanFor(p)
  <2> DEFINE plan(i, c, from, to) ==
               LET cs == IF c.btype = 2 THEN FirstCuts(i, c, from, to) ELSE <<>>
                   s == CASE c.btype = 0 -> <<>>
                          [] c.btype = 1 -> FixedParse(i, from, to)
                          [] OTHER -> SerialStore(i, cs, from, to)
                   before(n) == Cardinality({m \in 1..Len(s) : s[m].pos < cs[n]})
               IN  Plan(c.btype, from, to, s,
                        IF c.splitting /\ Len(cs) > 1 /\ Cheaper(i, p)
                        THEN BlockSplitLZ77(i, s) ELSE [n \in 1..Len(cs) |-> before(n)])
  <2>1. PlanFor(p) = plan(in, opt, PartFrom(p), PartTo(p))
    BY DEF PlanFor, SerialPlan
  <2>2. PlanFor(p)' = plan(in', opt', PartFrom(p)', PartTo(p)')
    BY DEF PlanFor, SerialPlan
  <2> HIDE DEF plan
  <2> QED BY <2>1, <2>2, <1>1
<1>7. ASSUME NEW p PROVE ChunksOf(p)' = ChunksOf(p)
  BY <1>6 DEF ChunksOf
<1>8. ASSUME NEW p PROVE BeforeBlock(p)' = BeforeBlock(p)
  BY <1>6, <1>7 DEF BeforeBlock
<1>9. ChunksOfParts' = ChunksOfParts
  BY <1>2, <1>7 DEF ChunksOfParts
<1>10. BeforePart' = BeforePart
  BY <1>2, <1>9 DEF BeforePart
<1>11. Chunks' = Chunks
  BY <1>9 DEF Chunks
<1> QED BY <1>2, <1>3, <1>5, <1>6, <1>8, <1>10, <1>11

(* A slot whose frame does not change keeps what it knows.                 *)
LEMMA FrameSerialStable ==
    ASSUME NEW q \in Slots, in' = in, opt' = opt, first' = first,
           stage'[q] = stage[q], cuts'[q] = cuts[q], next'[q] = next[q],
           store'[q] = store[q], points'[q] = points[q], plans'[q] = plans[q],
           FrameIsSerial(q)
    PROVE  FrameIsSerial(q)'
<1> DEFINE p == first + q
<1>1. /\ PartCuts(p)' = PartCuts(p) /\ JoinedStores(p)' = JoinedStores(p)
      /\ PlanFor(p)' = PlanFor(p)
  BY CallStable
<1> QED BY <1>1 DEF FrameIsSerial

(* A step that changes nothing but one slot keeps the stream serial.       *)
LEMMA OtherSlotsSerial ==
    ASSUME IsSerial, UNCHANGED <<call, main>>, NEW o \in Slots,
           \A q \in Slots \ {o} :
             /\ plans'[q] = plans[q] /\ stage'[q] = stage[q] /\ cuts'[q] = cuts[q]
             /\ next'[q] = next[q] /\ store'[q] = store[q] /\ points'[q] = points[q],
           FrameIsSerial(o)'
    PROVE  IsSerial'
<1>1. /\ in' = in /\ opt' = opt /\ pc' = pc /\ first' = first /\ slot' = slot
      /\ block' = block /\ written' = written /\ out' = out
  BY DEF call, main
<1>2. OutIsSerial'
  <2>1. OutIsSerial
    BY DEF IsSerial
  <2>2. /\ BeforePart' = BeforePart /\ Chunks' = Chunks
        /\ \A p, b, k : Position(p, b, k)' = Position(p, b, k)
    BY <1>1, CallStable DEF Position
  <2> QED BY <1>1, <2>1, <2>2 DEF OutIsSerial
<1>3. ASSUME NEW q \in Slots PROVE FrameIsSerial(q)'
  <2>1. CASE q = o
    BY <2>1
  <2>2. CASE q # o
    <3>1. FrameIsSerial(q)
      BY DEF IsSerial
    <3> QED BY <1>1, <2>2, <3>1, FrameSerialStable
  <2> QED BY <2>1, <2>2
<1> QED BY <1>2, <1>3 DEF IsSerial

(* What is known of a part while it is analysed.                           *)
LEMMA PartFacts ==
    ASSUME IInv, NEW o \in Slots, stage[o] # "none"
    PROVE  /\ in \in Inputs /\ opt \in Calls /\ in.len > 0
           /\ first + o \in Nat /\ first + o < Parts
  BY BusySlot DEF IInv, TypeOK

(* Joining the parse of the next block keeps the store serial.             *)
LEMMA JoinSerial ==
    ASSUME IInv, NEW o \in Slots, FrameIsSerial(o),
           stage[o] \in {"blocks", "parse", "send", "drain", "join"},
           next[o] <= Len(cuts[o]), NEW s,
           s = Parse(in, BlockRange(o, next[o])[1], BlockRange(o, next[o])[2]),
           Join(o, s), UNCHANGED <<in, opt, first, cuts>>,
           stage'[o] \in {"blocks", "join"}
    PROVE  FrameIsSerial(o)'
<1> DEFINE p == first + o
           k == next[o]
           L == Len(cuts[o])
           J == JoinedStores(p)
<1>1. /\ in \in Inputs /\ opt \in Calls /\ in.len > 0 /\ p \in Nat /\ p < Parts
  BY PartFacts
<1>2. /\ next \in [Slots -> Nat] /\ store \in [Slots -> Seq(Tokens)]
      /\ points \in [Slots -> Seq(Nat)] /\ cuts \in [Slots -> Seq(Nat)]
  BY DEF IInv, TypeOK
<1>3. k \in Nat /\ L \in Nat /\ points[o] \in Seq(Nat) /\ k <= L
  BY <1>2
<1>4. Len(points[o]) = k
  <2>1. FrameInv(o)
    BY DEF IInv, SlotInv
  <2> QED BY <2>1, <1>3 DEF FrameInv, Smaller
<1>5. /\ cuts[o] = PartCuts(p) /\ store[o] = J[k]
      /\ \A n \in 1..Len(points[o]) : points[o][n] = Len(J[n])
  BY DEF FrameIsSerial
<1>6. PartBlocks(p) = L + 1 /\ PartBlocks(p) \in Nat
  BY <1>1, <1>5, PartCutsInside
<1>7. J[k + 1] = J[k] \o s
  <2>1. k + 1 \in 1..PartBlocks(p) /\ (k + 1) - 1 = k
    BY SMTT(30), <1>3, <1>6
  <2>2. BlockParses(p)[k + 1] = s
    <3>1. BlockParses(p)[k + 1] = Parse(in, BlockFrom(PartCuts(p), k, PartFrom(p)),
                                            BlockTo(PartCuts(p), k, PartTo(p)))
      BY <2>1 DEF BlockParses
    <3>2. BlockRange(o, k) = <<BlockFrom(PartCuts(p), k, PartFrom(p)),
                               BlockTo(PartCuts(p), k, PartTo(p))>>
      BY <1>5 DEF BlockRange
    <3> QED BY <3>1, <3>2
  <2>3. BlockParses(p) \in [1..PartBlocks(p) -> Seq(Tokens)]
    BY <1>1, ParsesOfPart
  <2>4. \A n \in 1..PartBlocks(p) : J[n] = J[n - 1] \o BlockParses(p)[n]
    BY <2>3, <1>6, JoinsOneMore DEF JoinedStores
  <2> HIDE DEF J, k
  <2> QED BY <2>1, <2>2, <2>4
<1> DEFINE u == store[o] \o s
           pts == IF k < L THEN Append(points[o], Len(u)) ELSE points[o]
<1>8. /\ store' = [store EXCEPT ![o] = u]
      /\ points' = [points EXCEPT ![o] = pts]
      /\ next' = [next EXCEPT ![o] = k + 1]
  BY <1>2 DEF Join
<1>9. u = J[k + 1]
  BY <1>5, <1>7
<1> HIDE DEF u, J, k, L
<1>10. \A n \in 1..Len(pts) : pts[n] = Len(J[n])
  <2>1. CASE k < L
    <3>1. Len(u) \in Nat
      <4>1. k + 1 \in 0..PartBlocks(p)
        BY <1>3, <1>6
      <4>2. BlockParses(p) \in [1..PartBlocks(p) -> Seq(Tokens)]
        BY <1>1, ParsesOfPart
      <4>3. J[k + 1] \in Seq(Tokens)
        BY <4>1, <4>2, <1>6, JoinsTyped DEF J, JoinedStores
      <4> QED BY <4>3, <1>9
    <3>2. /\ Len(Append(points[o], Len(u))) = k + 1
          /\ Append(points[o], Len(u))[k + 1] = Len(u)
          /\ \A n \in 1..k : Append(points[o], Len(u))[n] = points[o][n]
      BY <3>1, <1>3, <1>4, AppendElements
    <3>3. pts = Append(points[o], Len(u))
      BY <2>1
    <3> HIDE DEF pts
    <3>4. \A n \in 1..(k + 1) : n \in 1..k \/ n = k + 1
      BY <1>3
    <3>5. \A n \in 1..k : pts[n] = Len(J[n])
      BY <3>2, <3>3, <1>4, <1>5
    <3> QED BY <3>2, <3>3, <3>4, <3>5, <1>9
  <2>2. CASE ~(k < L)
    BY <2>2, <1>5
  <2> QED BY <2>1, <2>2
<1> HIDE DEF pts
<1>11. store'[o] = J[k + 1] /\ points'[o] = pts /\ next'[o] = k + 1 /\ cuts'[o] = PartCuts(p)
  BY <1>2, <1>5, <1>8, <1>9
<1>12. p' = p /\ PartCuts(p)' = PartCuts(p) /\ JoinedStores(p)' = J
  BY CallStable DEF J
<1> QED BY <1>10, <1>11, <1>12 DEF FrameIsSerial

(* Steps that read the frame of a part and leave it as it is: loading      *)
(* scratch memory, and starting, serving and ending a pool.                *)
LEMMA FrameKept ==
    ASSUME IInv, IsSerial, NEW o \in Slots,
           UNCHANGED <<call, main, plans, cuts, next, store, points>>,
           stage'[o] = stage[o] \/ {stage[o], stage'[o]} \subseteq
                                      {"blocks", "parse", "send", "drain", "join"},
           \A q \in Slots \ {o} : stage'[q] = stage[q]
    PROVE  IsSerial'
<1> DEFINE p == first + o
<1>1. in' = in /\ opt' = opt /\ first' = first
  BY DEF call, main
<1>2. FrameIsSerial(o)
  BY DEF IsSerial
<1>3. /\ PartCuts(p)' = PartCuts(p) /\ JoinedStores(p)' = JoinedStores(p)
      /\ PlanFor(p)' = PlanFor(p)
  BY <1>1, CallStable
<1>4. FrameIsSerial(o)'
  <2>1. CASE stage'[o] = stage[o]
    BY <1>1, <1>2, <2>1, FrameSerialStable
  <2>2. CASE {stage[o], stage'[o]} \subseteq {"blocks", "parse", "send", "drain", "join"}
    <3>1. /\ stage[o] \in {"blocks", "parse", "send", "drain", "join"}
          /\ stage'[o] # "done"
      BY <2>2
    <3> QED BY <1>1, <1>2, <1>3, <3>1 DEF FrameIsSerial
  <2> QED BY <2>1, <2>2
<1> QED BY <1>4, OtherSlotsSerial

(* A part that is not split is planned as the serial algorithm plans it.   *)
LEMMA PlanWholeSerial ==
    ASSUME IInv, IsSerial, NEW o \in Slots, PlanWhole(o)
    PROVE  IsSerial'
<1> DEFINE p == first + o
           s == IF opt.btype = 0 THEN <<>> ELSE FixedParse(in, PartFrom(p), PartTo(p))
<1>1. stage[o] = "split" /\ opt.btype # 2
  BY DEF PlanWhole
<1>2. /\ in \in Inputs /\ opt \in Calls /\ in.len > 0 /\ p \in Nat /\ p < Parts
  BY <1>1, PartFacts
<1>3. opt.btype \in 0..2
  BY <1>2, CallFields
<1>4. Plan(opt.btype, PartFrom(p), PartTo(p), s, <<>>) = PlanFor(p)
  BY <1>1, <1>2, <1>3, SerialPlanOf
<1>5. /\ plans' = [plans EXCEPT ![o] = PlanFor(p)] /\ stage' = [stage EXCEPT ![o] = "done"]
      /\ UNCHANGED <<call, main, cuts, next, store, points>>
  BY <1>4 DEF PlanWhole, Deliver
<1>6. plans \in [Slots -> Plans] /\ stage \in [Slots -> Stages]
  BY DEF IInv, TypeOK
<1>7. in' = in /\ opt' = opt /\ p' = p
  BY <1>5 DEF call, main
<1>8. PlanFor(p)' = PlanFor(p)
  BY <1>7, CallStable
<1>9. FrameIsSerial(o)'
  BY <1>5, <1>6, <1>7, <1>8 DEF FrameIsSerial
<1> QED BY <1>5, <1>6, <1>9, OtherSlotsSerial

(* The first splitter's cuts are the serial ones, and nothing is joined.   *)
LEMMA SplitPartSerial ==
    ASSUME IInv, IsSerial, NEW o \in Slots, SplitPart(o)
    PROVE  IsSerial'
<1> DEFINE p == first + o
<1>1. stage[o] = "split" /\ opt.btype = 2
  BY DEF SplitPart
<1>2. /\ in \in Inputs /\ opt \in Calls /\ in.len > 0 /\ p \in Nat /\ p < Parts
  BY <1>1, PartFacts
<1>3. next[o] = 0 /\ store[o] = <<>> /\ points[o] = <<>>
  BY <1>1 DEF IInv, SlotInv, FrameInv
<1>4. /\ cuts' = [cuts EXCEPT ![o] = PartCuts(p)] /\ stage' = [stage EXCEPT ![o] = "blocks"]
      /\ UNCHANGED <<call, main, plans, next, store, points>>
  BY <1>1 DEF SplitPart, PartCuts
<1>5. cuts \in [Slots -> Seq(Nat)] /\ stage \in [Slots -> Stages]
  BY DEF IInv, TypeOK
<1>6. in' = in /\ opt' = opt /\ p' = p
  BY <1>4 DEF call, main
<1>7. PartCuts(p)' = PartCuts(p) /\ JoinedStores(p)' = JoinedStores(p)
  BY <1>6, CallStable
<1>8. JoinedStores(p)[0] = <<>>
  <2>1. BlockParses(p) \in [1..PartBlocks(p) -> Seq(Tokens)] /\ PartBlocks(p) \in Nat
    BY <1>2, ParsesOfPart, PartCutsInside
  <2> QED BY <2>1, JoinsFromEmpty DEF JoinedStores
<1>9. cuts'[o] = PartCuts(p) /\ stage'[o] = "blocks" /\ store'[o] = <<>> /\ next'[o] = 0
      /\ points'[o] = <<>>
  BY <1>3, <1>4, <1>5
<1>10. \A n \in 1..Len(points'[o]) : FALSE
  BY <1>9
<1>11. FrameIsSerial(o)'
  BY <1>6, <1>7, <1>8, <1>9, <1>10 DEF FrameIsSerial
<1> QED BY <1>4, <1>5, <1>11, OtherSlotsSerial

(* What the worker of slot o reads from its own scratch memory is the      *)
(* parse of its block.                                                     *)
LEMMA ParseBlockSerial ==
    ASSUME IInv, IsSerial, NEW o \in Slots, ParseBlock(o)
    PROVE  IsSerial'
<1>1. stage[o] = "parse" /\ SlotInv(o) /\ FrameIsSerial(o)
  BY DEF ParseBlock, IInv, IsSerial
<1>2. next[o] <= Len(cuts[o])
  BY <1>1 DEF SlotInv, FrameInv
<1>3. scratch[ScratchOf(o, Own)] = BlockRange(o, next[o])
  BY <1>1 DEF SlotInv, OwnScratch
<1>4. /\ Join(o, Parse(in, BlockRange(o, next[o])[1], BlockRange(o, next[o])[2]))
      /\ stage' = [stage EXCEPT ![o] = "blocks"]
      /\ UNCHANGED <<call, main, plans, cuts, pool, scratch>>
  BY <1>3 DEF ParseBlock, Optimized
<1>5. /\ in' = in /\ opt' = opt /\ first' = first /\ cuts' = cuts /\ stage'[o] = "blocks"
  BY <1>4 DEF call, main, IInv, TypeOK
<1>6. FrameIsSerial(o)'
  BY <1>1, <1>2, <1>4, <1>5, JoinSerial
<1>7. \A q \in Slots \ {o} :
         /\ store'[q] = store[q] /\ points'[q] = points[q] /\ next'[q] = next[q]
         /\ stage'[q] = stage[q]
  BY <1>4 DEF Join, IInv, TypeOK
<1> QED BY <1>4, <1>6, <1>7, OtherSlotsSerial

(* What is joined of a pool's results is the parse of the next block,      *)
(* whichever worker computed it.                                           *)
LEMMA JoinResultSerial ==
    ASSUME IInv, IsSerial, NEW o \in Slots, JoinResult(o)
    PROVE  IsSerial'
<1>1. /\ stage[o] = "join" /\ SlotInv(o) /\ FrameIsSerial(o)
      /\ next[o] \in Nat /\ base[o] \in Nat /\ Len(cuts[o]) \in Nat
  BY NatElements DEF JoinResult, IInv, TypeOK, IsSerial
<1>2. /\ base[o] <= Len(cuts[o]) /\ base[o] + PoolSize(o) <= Len(cuts[o]) + 1
      /\ base[o] <= next[o] /\ next[o] < base[o] + PoolSize(o) /\ sent[o] = PoolSize(o)
      /\ \A w \in Workers : task[o][w] = Off
  BY <1>1 DEF SlotInv, PoolInv
<1>3. PoolSize(o) \in Nat
  BY <1>2, PoolBounds, SizesAssumption
<1>4. next[o] <= Len(cuts[o]) /\ next[o] - base[o] \in 0..(sent[o] - 1)
  BY <1>1, <1>2, <1>3
<1>5. results[o][next[o] - base[o]] =
        Parse(in, BlockRange(o, next[o])[1], BlockRange(o, next[o])[2])
  <2>1. base[o] + (next[o] - base[o]) = next[o]
    BY <1>1
  <2>2. ~ \E w \in Workers : task[o][w] = next[o] - base[o]
    BY <1>2, <1>4 DEF Off
  <2> QED BY <1>1, <1>4, <2>1, <2>2 DEF SlotInv, PoolInv
<1>6. /\ Join(o, Parse(in, BlockRange(o, next[o])[1], BlockRange(o, next[o])[2]))
      /\ stage' = [stage EXCEPT ![o] =
                     IF next'[o] = base[o] + PoolSize(o) THEN "blocks" ELSE "join"]
      /\ UNCHANGED <<call, main, plans, cuts, pool, scratch>>
  BY <1>1, <1>5 DEF JoinResult
<1>7. /\ in' = in /\ opt' = opt /\ first' = first /\ cuts' = cuts
      /\ stage'[o] \in {"blocks", "join"}
  BY <1>6 DEF call, main, IInv, TypeOK
<1>8. FrameIsSerial(o)'
  BY <1>1, <1>4, <1>6, <1>7, JoinSerial
<1>9. \A q \in Slots \ {o} :
         /\ store'[q] = store[q] /\ points'[q] = points[q] /\ next'[q] = next[q]
         /\ stage'[q] = stage[q]
  BY <1>6 DEF Join, IInv, TypeOK
<1> QED BY <1>6, <1>8, <1>9, OtherSlotsSerial

(* The plan delivered when all blocks are joined is the serial one.        *)
LEMMA SplitAgainSerial ==
    ASSUME IInv, IsSerial, NEW o \in Slots, SplitAgain(o)
    PROVE  IsSerial'
<1> DEFINE p == first + o
           pts == IF opt.splitting /\ Len(cuts[o]) > 1 /\ Cheaper(in, first + o)
                  THEN BlockSplitLZ77(in, store[o]) ELSE points[o]
<1>1. /\ stage[o] = "blocks" /\ next[o] > Len(cuts[o]) /\ SlotInv(o) /\ FrameIsSerial(o)
      /\ next[o] \in Nat /\ Len(cuts[o]) \in Nat /\ points[o] \in Seq(Nat)
  BY NatElements DEF SplitAgain, IInv, TypeOK, IsSerial
<1>2. /\ in \in Inputs /\ opt \in Calls /\ in.len > 0 /\ p \in Nat /\ p < Parts
  BY <1>1, PartFacts
<1>3. opt.btype = 2 /\ next[o] = Len(cuts[o]) + 1 /\ Len(points[o]) = Len(cuts[o])
  BY <1>1 DEF SlotInv, FrameInv, Smaller
<1>4. cuts[o] = PartCuts(p) /\ store[o] = PartStore(p)
  <2>1. PartBlocks(p) = Len(PartCuts(p)) + 1
    BY DEF PartBlocks
  <2> QED BY <1>1, <1>3, <2>1 DEF FrameIsSerial, PartStore
<1>5. points[o] = [n \in 1..Len(PartCuts(p)) |-> Len(JoinedStores(p)[n])]
  <2>1. points[o] \in [1..Len(points[o]) -> Nat]
    BY <1>1
  <2>2. \A n \in 1..Len(points[o]) : points[o][n] = Len(JoinedStores(p)[n])
    BY <1>1 DEF FrameIsSerial
  <2>3. Len(points[o]) = Len(PartCuts(p))
    BY <1>3, <1>4
  <2> QED BY <2>1, <2>2, <2>3
<1>6. pts = PlanPoints(p)
  BY <1>4, <1>5 DEF PlanPoints
<1>7. Plan(opt.btype, PartFrom(p), PartTo(p), store[o], pts) = PlanFor(p)
  BY <1>2, <1>3, <1>4, <1>6, SerialPlanOf
<1>8. /\ plans' = [plans EXCEPT ![o] = PlanFor(p)] /\ stage' = [stage EXCEPT ![o] = "done"]
      /\ UNCHANGED <<call, main, cuts, next, store, points>>
  BY <1>7 DEF SplitAgain, Deliver
<1>9. plans \in [Slots -> Plans] /\ stage \in [Slots -> Stages]
  BY DEF IInv, TypeOK
<1>10. in' = in /\ opt' = opt /\ p' = p
  BY <1>8 DEF call, main
<1>11. PlanFor(p)' = PlanFor(p)
  BY <1>10, CallStable
<1>12. FrameIsSerial(o)'
  BY <1>8, <1>9, <1>10, <1>11 DEF FrameIsSerial
<1> QED BY <1>8, <1>9, <1>12, OtherSlotsSerial

(* Every step of a goroutine that analyses a part, and of its pool.        *)
LEMMA AnalysisSerial ==
    ASSUME IInv, IsSerial, NEW o \in Slots,
           Prepare(o) \/ \E w \in Workers : Worker(o, w)
    PROVE  IsSerial'
<1>1. stage \in [Slots -> Stages]
  BY DEF IInv, TypeOK
<1>2. CASE LoadBlock(o)
  BY <1>1, <1>2, FrameKept DEF LoadBlock
<1>3. CASE OpenPool(o)
  BY <1>1, <1>3, FrameKept DEF OpenPool
<1>4. CASE CloseTasks(o)
  BY <1>1, <1>4, FrameKept DEF CloseTasks
<1>5. CASE Collect(o)
  BY <1>1, <1>5, FrameKept DEF Collect
<1>6. ASSUME NEW w \in Workers, Worker(o, w) PROVE IsSerial'
  BY <1>6, FrameKept DEF Worker, Send, ParseTask, StopWorker, frame
<1> QED BY <1>2, <1>3, <1>4, <1>5, <1>6, PlanWholeSerial, SplitPartSerial, ParseBlockSerial,
        JoinResultSerial, SplitAgainSerial DEF Prepare

(* A slot with no part, or with one that is not split yet, holds nothing   *)
(* of it.                                                                  *)
LEMMA NothingHeld ==
    ASSUME NEW o \in Slots, stage'[o] \in {"none", "split"}
    PROVE  FrameIsSerial(o)'
  BY DEF FrameIsSerial

(* Where no part is analysed nothing is held.                              *)
LEMMA InitSerial == Init => IsSerial
<1> SUFFICES ASSUME Init PROVE IsSerial
  OBVIOUS
<1>1. OutIsSerial
  <2>1. out = <<>> /\ pc = "begin"
    BY DEF Init
  <2>2. ASSUME NEW n \in 1..Len(out) PROVE FALSE
    BY <2>1
  <2> QED BY <2>1, <2>2 DEF OutIsSerial
<1>2. \A o \in Slots : FrameIsSerial(o)
  BY DEF Init, FrameIsSerial
<1> QED BY <1>1, <1>2 DEF IsSerial

(* The empty input is the chunk of the empty block.                        *)
LEMMA WriteEmptySerial ==
    ASSUME IInv, WriteEmpty
    PROVE  IsSerial'
<1>1. /\ in' = in /\ opt' = opt /\ in.len = 0 /\ pc = "begin" /\ pc' = "done" /\ stage' = stage
      /\ out' = <<Piece(EmptyBlock, 0, TRUE)>>
  BY DEF WriteEmpty, call, frame
<1>2. \A o \in Slots : stage[o] = "none"
  BY <1>1 DEF IInv, BatchInv, Busy
<1>3. Chunks' = <<[block |-> EmptyBlock, done |-> 0]>>
  <2>1. Chunks = SerialChunks(EmptyBlock)
    BY <1>1 DEF Chunks
  <2>2. SerialChunks(EmptyBlock) = [n \in 1..1 |-> [block |-> EmptyBlock,
                                                     done |-> (n - 1) * StoredMax]]
    BY DEF SerialChunks, EmptyBlock
  <2>3. \A n \in 1..1 : n = 1 /\ (n - 1) * StoredMax = 0
    BY SizesAssumption
  <2> QED BY <1>1, <2>1, <2>2, <2>3, CallStable
<1> DEFINE b == Piece(EmptyBlock, 0, TRUE)
<1>4. b.final = TRUE
  BY DEF Piece
<1>5. Piece(Chunks'[1].block, Chunks'[1].done, b.final) = b
  <2>1. Chunks'[1].block = EmptyBlock /\ Chunks'[1].done = 0 /\ Len(Chunks') = 1
    BY <1>3
  <2> QED BY <2>1, <1>4
<1> HIDE DEF b
<1>6. Len(out') = 1 /\ Len(Chunks') = 1 /\ out'[1] = b
  BY <1>1, <1>3 DEF b
<1>7. OutIsSerial'
  <2>1. ASSUME NEW n \in 1..Len(out')
        PROVE  out'[n] = Piece(Chunks'[n].block, Chunks'[n].done, out'[n].final)
    <3>1. n = 1
      BY <1>6
    <3> QED BY <3>1, <1>5, <1>6
  <2>2. pc' = "done"
    BY <1>1
  <2> QED BY <2>1, <2>2, <1>6 DEF OutIsSerial
<1>8. \A o \in Slots : FrameIsSerial(o)'
  BY <1>1, <1>2, NothingHeld
<1> QED BY <1>7, <1>8 DEF IsSerial

(* Nothing is written before the first part.                               *)
LEMMA BeginSerial ==
    ASSUME IInv, Begin
    PROVE  IsSerial'
<1>1. /\ in' = in /\ opt' = opt /\ in.len > 0 /\ pc = "begin" /\ pc' = "spawn"
      /\ stage' = stage /\ out' = out /\ first' = first
  BY DEF Begin, call, frame
<1>2. /\ in \in Inputs /\ opt \in Calls /\ out = <<>> /\ first = 0
      /\ \A o \in Slots : stage[o] = "none"
  BY <1>1 DEF IInv, TypeOK, OutInv, BatchInv, Busy
<1>3. Len(BeforePart'[first']) = 0
  <2>1. 0 < Parts
    BY <1>1, <1>2, PartsPositive
  <2>2. Len(BeforePart[0]) = 0
    BY <1>1, <1>2, <2>1, FirstPosition
  <2> QED BY <1>1, <1>2, <2>2, CallStable
<1>4. OutIsSerial'
  BY <1>1, <1>2, <1>3 DEF OutIsSerial
<1>5. \A o \in Slots : FrameIsSerial(o)'
  BY <1>1, <1>2, NothingHeld
<1> QED BY <1>4, <1>5 DEF IsSerial

(* Starting on a part writes nothing and holds nothing of it.              *)
LEMMA SpawnSerial ==
    ASSUME IInv, IsSerial, Spawn
    PROVE  IsSerial'
<1>1. /\ in' = in /\ opt' = opt /\ pc = "spawn" /\ pc' \in {"spawn", "wait"}
      /\ out' = out /\ first' = first /\ cuts' = cuts /\ plans' = plans
      /\ stage' = [stage EXCEPT ![slot] = "split"] /\ next' = [next EXCEPT ![slot] = 0]
      /\ store' = [store EXCEPT ![slot] = <<>>] /\ points' = [points EXCEPT ![slot] = <<>>]
  BY DEF Spawn, call
<1>2. /\ stage \in [Slots -> Stages] /\ next \in [Slots -> Nat]
      /\ store \in [Slots -> Seq(Tokens)] /\ points \in [Slots -> Seq(Nat)]
  BY DEF IInv, TypeOK
<1>3. OutIsSerial'
  <2>1. BeforePart' = BeforePart /\ Chunks' = Chunks
    BY <1>1, CallStable
  <2> QED BY <1>1, <2>1 DEF IsSerial, OutIsSerial
<1>4. ASSUME NEW o \in Slots PROVE FrameIsSerial(o)'
  <2>1. CASE o = slot
    BY <1>1, <1>2, <2>1, NothingHeld
  <2>2. CASE o # slot
    <3>1. /\ stage'[o] = stage[o] /\ cuts'[o] = cuts[o] /\ next'[o] = next[o]
          /\ store'[o] = store[o] /\ points'[o] = points[o] /\ plans'[o] = plans[o]
      BY <1>1, <1>2, <2>2
    <3> QED BY <1>1, <3>1, FrameSerialStable DEF IsSerial
  <2> QED BY <2>1, <2>2
<1> QED BY <1>3, <1>4 DEF IsSerial

(* The first chunk to be written is the first one of the batch.            *)
LEMMA WaitSerial ==
    ASSUME IInv, IsSerial, Wait
    PROVE  IsSerial'
<1>1. /\ in' = in /\ opt' = opt /\ pc = "wait" /\ pc' = "write" /\ out' = out /\ first' = first
      /\ slot' = 0 /\ block' = 0 /\ written' = 0 /\ plans' = plans
      /\ stage' = stage /\ cuts' = cuts /\ next' = next /\ store' = store /\ points' = points
  BY DEF Wait, call, frame
<1>2. /\ in \in Inputs /\ opt \in Calls /\ first \in Nat /\ first < Parts
  BY <1>1 DEF IInv, TypeOK, BatchInv
<1>3. in.len > 0
  <2>1. in.len \in Nat
    BY <1>2, CallAssumption
  <2>2. in.len = 0 => Parts = 0
    BY DEF Parts
  <2> QED BY <1>2, <2>1, <2>2
<1>4. Len(out) = Len(BeforePart[first])
  BY <1>1 DEF IsSerial, OutIsSerial
<1>5. Position(first, 0, 0) = Len(BeforePart[first])
  BY <1>2, <1>3, FirstPosition
<1>6. /\ BeforePart' = BeforePart /\ Chunks' = Chunks
      /\ \A p, b, k : Position(p, b, k)' = Position(p, b, k)
  BY <1>1, CallStable DEF Position
<1>7. 0 \in Nat /\ written' = 0 * StoredMax /\ first' + slot' = first
  BY <1>1, <1>2, SizesAssumption
<1>8. Len(out') = Position(first + slot, block, 0)'
  BY <1>1, <1>4, <1>5, <1>6, <1>7
<1>9. OutIsSerial'
  <2>1. \A n \in 1..Len(out) : out[n] = Piece(Chunks[n].block, Chunks[n].done, out[n].final)
    BY DEF IsSerial, OutIsSerial
  <2> QED BY <1>1, <1>6, <1>7, <1>8, <2>1 DEF OutIsSerial
<1>10. \A o \in Slots : FrameIsSerial(o)'
  BY <1>1, FrameSerialStable DEF IsSerial
<1> QED BY <1>9, <1>10 DEF IsSerial

(* The piece of a block that is written next is the next chunk of the      *)
(* serial stream.                                                          *)
LEMMA NextChunk ==
    ASSUME IInv, IsSerial, pc = "write", NEW p, p = first + slot
    PROVE  /\ p \in Nat /\ p < Parts /\ plans[slot] = PlanFor(p)
           /\ \E k \in Nat :
                 /\ written = k * StoredMax /\ Len(out) = Position(p, block, k)
                 /\ k < Pieces(Pending)
                 /\ LastChunk(Pending, written) <=> k + 1 = Pieces(Pending)
                 /\ ~LastChunk(Pending, written) =>
                       ChunkTo(Pending, written) - Pending.from = (k + 1) * StoredMax
<1>1. /\ in \in Inputs /\ opt \in Calls /\ in.len > 0 /\ p \in Nat /\ p < Parts
      /\ slot \in Slots /\ slot < BatchSize
      /\ plans[slot] \in Plans /\ PlanOf(plans[slot], p)
      /\ block \in Nat /\ block < Blocks(plans[slot])
      /\ Pending.from \in Nat /\ Pending.to \in Nat /\ written \in Nat
      /\ Pending.kind # "stored" => LastChunk(Pending, written)
  BY WriteFacts
<1>2. plans[slot] = PlanFor(p)
  <2>1. slot \in Nat /\ BatchSize \in Nat
    BY WriteFacts DEF IInv, TypeOK
  <2>2. slot \in slot..(BatchSize - 1)
    BY <1>1, <2>1
  <2>3. stage[slot] = "done"
    BY <1>1, <2>2 DEF IInv, BatchInv, Busy
  <2> QED BY <1>1, <2>3 DEF IsSerial, FrameIsSerial
<1>3. PICK k \in Nat : written = k * StoredMax /\ Len(out) = Position(p, block, k)
  BY DEF IsSerial, OutIsSerial
<1>4. written < Pending.to - Pending.from /\ (Pending.kind # "stored" => written = 0)
  BY DEF IInv, OutInv
<1>5. Pending.kind # "stored" => k = 0
  <2>1. k = 0 \/ StoredMax <= k * StoredMax
    BY SizesAssumption, MultipleBelow
  <2>2. StoredMax \in Nat /\ StoredMax > 0
    BY SizesAssumption
  <2> QED BY <1>3, <1>4, <2>1, <2>2
<1>6. Pending \in PlannedBlocks
  <2>1. block \in 0..(Blocks(PlanFor(p)) - 1)
    BY <1>1, <1>2, ChunksOfPart
  <2>2. Pending = PlannedBlock(in, PlanFor(p), block)
    BY <1>2 DEF Pending
  <2> QED BY <1>1, <2>1, <2>2, ChunksOfPart
<1>7. k < Pieces(Pending) /\ (LastChunk(Pending, written) <=> k + 1 = Pieces(Pending))
  BY <1>3, <1>4, <1>5, <1>6, ChunkIsPiece
<1>8. ASSUME ~LastChunk(Pending, written)
      PROVE  ChunkTo(Pending, written) - Pending.from = (k + 1) * StoredMax
  <2>1. ChunkTo(Pending, written) = Smaller(Pending.to, Pending.from + written + StoredMax)
    BY <1>1, <1>8 DEF ChunkTo
  <2>2. ~(ChunkTo(Pending, written) >= Pending.to)
    BY <1>8 DEF LastChunk
  <2>3. ChunkTo(Pending, written) = Pending.from + written + StoredMax
    BY <1>1, <2>1, <2>2 DEF Smaller
  <2>4. (k + 1) * StoredMax = written + StoredMax
    BY <1>3, SizesAssumption, MultipleBelow
  <2> QED BY <1>1, <2>3, <2>4, SizesAssumption
<1> QED BY <1>1, <1>2, <1>3, <1>7, <1>8

(* Writing a piece of a block leaves the next one to be the next chunk of  *)
(* the serial stream: of the block, the plan, the batch or the next batch. *)
LEMMA WriteSerial ==
    ASSUME IInv, IsSerial, Write
    PROVE  IsSerial'
<1> DEFINE p == first + slot
           piece == Piece(Pending, written, IsFinal)
           lastOfBlock == LastChunk(Pending, written)
           lastOfPlan == lastOfBlock /\ block = Blocks(plans[slot]) - 1
           lastOfBatch == lastOfPlan /\ slot = BatchSize - 1
<1>1. /\ pc = "write"
      /\ out' = Append(out, piece)
      /\ written' = IF lastOfBlock THEN 0 ELSE ChunkTo(Pending, written) - Pending.from
      /\ block' = IF lastOfPlan THEN 0 ELSE IF lastOfBlock THEN block + 1 ELSE block
      /\ plans' = IF lastOfPlan THEN [plans EXCEPT ![slot] = ZeroPlan] ELSE plans
      /\ stage' = IF lastOfPlan THEN [stage EXCEPT ![slot] = "none"] ELSE stage
      /\ slot' = IF lastOfBatch THEN 0 ELSE IF lastOfPlan THEN slot + 1 ELSE slot
      /\ first' = IF lastOfBatch THEN first + BatchWorkers ELSE first
      /\ pc' = IF ~lastOfBatch THEN "write" ELSE IF first' < Parts THEN "spawn" ELSE "done"
      /\ in' = in /\ opt' = opt /\ cuts' = cuts /\ next' = next /\ store' = store
      /\ points' = points
  BY DEF Write, call
<1>2. /\ in \in Inputs /\ opt \in Calls /\ in.len > 0 /\ p \in Nat /\ p < Parts
      /\ first \in Nat /\ first < Parts /\ slot \in Slots /\ slot < BatchSize
      /\ block \in Nat /\ block < Blocks(plans[slot]) /\ Blocks(plans[slot]) \in Nat
      /\ slot \in Nat /\ BatchSize \in Nat
      /\ plans \in [Slots -> Plans] /\ stage \in [Slots -> Stages]
  <2>1. /\ in \in Inputs /\ opt \in Calls /\ in.len > 0 /\ p \in Nat /\ p < Parts
        /\ first \in Nat /\ first < Parts /\ slot \in Slots /\ slot < BatchSize
    BY <1>1, WriteFacts
  <2>2. /\ block \in Nat /\ block < Blocks(plans[slot]) /\ Blocks(plans[slot]) \in Nat
        /\ BatchSize \in 1..MaxCompressionWorkers
    BY <1>1, WriteFacts
  <2>3. slot \in Nat /\ plans \in [Slots -> Plans] /\ stage \in [Slots -> Stages]
    BY <2>1 DEF Slots, IInv, TypeOK
  <2> QED BY <2>1, <2>2, <2>3
<1>3. plans[slot] = PlanFor(p)
  BY <1>1, NextChunk
<1>4. PICK k \in Nat :
         /\ written = k * StoredMax /\ Len(out) = Position(p, block, k)
         /\ k < Pieces(Pending)
         /\ lastOfBlock <=> k + 1 = Pieces(Pending)
         /\ ~lastOfBlock =>
               ChunkTo(Pending, written) - Pending.from = (k + 1) * StoredMax
  BY <1>1, NextChunk
<1>5. Pending = PlannedBlock(in, PlanFor(p), block)
  BY <1>3 DEF Pending
<1>6. /\ Len(out) \in Nat
      /\ Chunks[Len(out) + 1] = [block |-> Pending, done |-> written]
      /\ Position(p, block, k + 1) = Len(out) + 1
      /\ lastOfBlock => /\ block + 1 < Blocks(plans[slot]) =>
                              Position(p, block + 1, 0) = Len(out) + 1
                        /\ block + 1 = Blocks(plans[slot]) =>
                              Len(BeforePart[p + 1]) = Len(out) + 1
  <2>1. block < Blocks(PlanFor(p)) /\ k < Pieces(PlannedBlock(in, PlanFor(p), block))
    BY <1>2, <1>3, <1>4, <1>5
  <2> HIDE DEF p
  <2>2. /\ Position(p, block, k) \in Nat
        /\ Chunks[Position(p, block, k) + 1]
              = [block |-> PlannedBlock(in, PlanFor(p), block), done |-> k * StoredMax]
        /\ Position(p, block, k + 1) = Position(p, block, k) + 1
    BY <1>2, <2>1, ChunkAtPosition
  <2>3. k + 1 = Pieces(PlannedBlock(in, PlanFor(p), block)) =>
           /\ block + 1 < Blocks(PlanFor(p)) =>
                 Position(p, block + 1, 0) = Position(p, block, k) + 1
           /\ block + 1 = Blocks(PlanFor(p)) =>
                 Len(BeforePart[p + 1]) = Position(p, block, k) + 1
    BY ZenonT(60), <1>2, <2>1, ChunkAtPosition
  <2> HIDE DEF lastOfBlock
  <2> QED BY <1>3, <1>4, <1>5, <2>2, <2>3
<1>7. /\ BeforePart' = BeforePart /\ Chunks' = Chunks /\ Parts' = Parts
      /\ \A q, b, j : Position(q, b, j)' = Position(q, b, j)
  BY <1>1, CallStable DEF Position
<1>8. /\ Parts \in Nat /\ BatchWorkers \in Nat
      /\ p = Parts - 1 <=> slot = BatchSize - 1 /\ first + BatchWorkers >= Parts
      /\ slot = BatchSize - 1 /\ first + BatchWorkers < Parts => first + BatchWorkers = p + 1
      /\ slot # BatchSize - 1 => p + 1 < Parts /\ first + (slot + 1) = p + 1
  <2>1. /\ Parts \in Nat /\ BatchWorkers \in Nat /\ BatchSize <= Parts - first
        /\ first + BatchWorkers < Parts => BatchSize = BatchWorkers
        /\ first + BatchWorkers >= Parts => BatchSize = Parts - first
    BY <1>2, PartsPositive, BatchBounds
  <2> QED BY <1>2, <2>1, LastOfBatch
<1>9. \A n \in 1..Len(out') : out'[n] = Piece(Chunks[n].block, Chunks[n].done, out'[n].final)
  <2>1. out \in Seq(OutBlocks)
    BY DEF IInv, TypeOK
  <2>2. /\ Len(out') = Len(out) + 1 /\ out'[Len(out) + 1] = piece
        /\ \A n \in 1..Len(out) : out'[n] = out[n]
    BY <1>1, <2>1
  <2>3. piece = Piece(Pending, written, piece.final)
    BY DEF Piece
  <2>4. \A n \in 1..Len(out) : out[n] = Piece(Chunks[n].block, Chunks[n].done, out[n].final)
    BY DEF IsSerial, OutIsSerial
  <2>5. Chunks[Len(out) + 1].block = Pending /\ Chunks[Len(out) + 1].done = written
    BY <1>6
  <2> HIDE DEF piece
  <2> SUFFICES ASSUME NEW n \in 1..Len(out')
               PROVE  out'[n] = Piece(Chunks[n].block, Chunks[n].done, out'[n].final)
    OBVIOUS
  <2>6. CASE n = Len(out) + 1
    BY <2>2, <2>3, <2>5, <2>6
  <2>7. CASE n # Len(out) + 1
    <3>1. n \in 1..Len(out)
      BY <1>6, <2>2, <2>7
    <3> QED BY <2>2, <2>4, <3>1
  <2> QED BY <2>6, <2>7
<1>10. Len(out') = Len(out) + 1
  BY <1>1 DEF IInv, TypeOK
<1> HIDE DEF p, piece, lastOfBlock
(* The next piece of the same block. *)
<1>11. CASE ~lastOfBlock
  <2>1. /\ written' = (k + 1) * StoredMax /\ block' = block /\ plans' = plans /\ stage' = stage
        /\ slot' = slot /\ first' = first /\ pc' = "write"
    BY <1>1, <1>4, <1>11
  <2>2. k + 1 \in Nat /\ Len(out') = Position(first + slot, block, k + 1)'
    BY <1>6, <1>7, <1>10, <2>1 DEF p
  <2>3. OutIsSerial'
    BY <1>7, <1>9, <2>1, <2>2 DEF OutIsSerial
  <2>4. \A o \in Slots : FrameIsSerial(o)'
    BY <1>1, <2>1, FrameSerialStable DEF IsSerial
  <2> QED BY <2>3, <2>4 DEF IsSerial
(* The next block of the same plan. *)
<1>12. CASE lastOfBlock /\ ~lastOfPlan
  <2>1. /\ written' = 0 /\ block' = block + 1 /\ plans' = plans /\ stage' = stage
        /\ slot' = slot /\ first' = first /\ pc' = "write"
    BY <1>1, <1>12
  <2>2. block + 1 < Blocks(plans[slot])
    BY <1>2, <1>12
  <2>3. Len(out') = Position(first + slot, block, 0)'
    BY <1>6, <1>7, <1>10, <1>12, <2>1, <2>2 DEF p
  <2>4. 0 \in Nat /\ written' = 0 * StoredMax
    BY <2>1, SizesAssumption
  <2>5. OutIsSerial'
    BY <1>7, <1>9, <2>1, <2>3, <2>4 DEF OutIsSerial
  <2>6. \A o \in Slots : FrameIsSerial(o)'
    BY <1>1, <2>1, FrameSerialStable DEF IsSerial
  <2> QED BY <2>5, <2>6 DEF IsSerial
<1>13. lastOfPlan => Len(out') = Len(BeforePart[p + 1])
  <2>1. lastOfPlan => block + 1 = Blocks(plans[slot])
    BY <1>2
  <2> QED BY <2>1, <1>6, <1>10
(* The next plan of the batch. *)
<1>14. CASE lastOfPlan /\ ~lastOfBatch
  <2>1. /\ written' = 0 /\ block' = 0 /\ slot' = slot + 1 /\ first' = first /\ pc' = "write"
        /\ plans' = [plans EXCEPT ![slot] = ZeroPlan]
        /\ stage' = [stage EXCEPT ![slot] = "none"]
    BY <1>1, <1>14
  <2>2. p + 1 < Parts /\ first + (slot + 1) = p + 1 /\ p + 1 \in Nat
    BY <1>2, <1>8, <1>14 DEF p
  <2>3. Position(p + 1, 0, 0) = Len(BeforePart[p + 1])
    BY <1>2, <2>2, FirstPosition
  <2>4. Len(out') = Position(first + slot, block, 0)'
    BY <1>7, <1>13, <1>14, <2>1, <2>2, <2>3
  <2>5. 0 \in Nat /\ written' = 0 * StoredMax
    BY <2>1, SizesAssumption
  <2>6. OutIsSerial'
    BY <1>7, <1>9, <2>1, <2>4, <2>5 DEF OutIsSerial
  <2>7. ASSUME NEW o \in Slots PROVE FrameIsSerial(o)'
    <3>1. CASE o = slot
      BY <1>2, <2>1, <3>1, NothingHeld
    <3>2. CASE o # slot
      <4>1. stage'[o] = stage[o] /\ plans'[o] = plans[o]
        BY <1>2, <2>1, <3>2
      <4> QED BY <1>1, <2>1, <4>1, FrameSerialStable DEF IsSerial
    <3> QED BY <3>1, <3>2
  <2> QED BY <2>6, <2>7 DEF IsSerial
(* The next batch, or the end. *)
<1>15. CASE lastOfBatch
  <2>1. /\ first' = first + BatchWorkers
        /\ pc' = IF first' < Parts THEN "spawn" ELSE "done"
        /\ stage' = [stage EXCEPT ![slot] = "none"]
    BY <1>1, <1>15
  <2>2. Len(out') = Len(BeforePart[p + 1])
    BY <1>13, <1>15
  <2>3. first' < Parts => first' = p + 1 /\ pc' = "spawn"
    BY <1>8, <1>15, <2>1
  <2>4. ~(first' < Parts) => pc' = "done" /\ Len(out') = Len(Chunks')
    <3>1. ~(first' < Parts) => p + 1 = Parts
      BY <1>2, <1>8, <1>15, <2>1 DEF p
    <3>2. Chunks = BeforePart[Parts]
      BY <1>2, ChunksOfInput
    <3> QED BY <1>7, <2>1, <2>2, <3>1, <3>2
  <2>5. OutIsSerial'
    BY <1>7, <1>9, <2>2, <2>3, <2>4 DEF OutIsSerial
  <2>6. ASSUME NEW o \in Slots PROVE stage'[o] = "none"
    <3>1. o # slot => o \notin slot..(BatchSize - 1)
      BY <1>2, <1>15
    <3>2. o # slot => stage[o] = "none"
      BY <1>1, <3>1 DEF IInv, BatchInv, Busy
    <3> QED BY <1>2, <2>1, <3>2
  <2>7. \A o \in Slots : FrameIsSerial(o)'
    BY <2>6, NothingHeld
  <2> QED BY <2>5, <2>7 DEF IsSerial
<1> QED BY <1>11, <1>12, <1>14, <1>15

(* The serial stream is the chunks, the last one final.                    *)
LEMMA StreamOfChunks ==
    SerialStream = [n \in 1..Len(Chunks) |->
                      Piece(Chunks[n].block, Chunks[n].done, n = Len(Chunks))]
  BY DEF SerialStream, Chunks, ChunksOfParts, ChunksOf, PlanFor

(* Until the call returns there are more chunks than are written.          *)
LEMMA MoreChunks ==
    ASSUME IInv, IsSerial
    PROVE  /\ Len(Chunks) \in Nat /\ Len(out) <= Len(Chunks)
           /\ out # <<>> => (Len(out) = Len(Chunks) <=> pc = "done")
<1>1. /\ in \in Inputs /\ opt \in Calls /\ in.len \in Nat /\ first \in Nat
      /\ pc \in {"begin", "spawn", "wait", "write", "done"}
  BY CallAssumption DEF IInv, TypeOK
<1>2. CASE in.len = 0
  <2>1. Chunks = SerialChunks(EmptyBlock)
    BY <1>2 DEF Chunks
  <2>2. Len(Chunks) = 1
    BY <2>1 DEF SerialChunks, EmptyBlock
  <2>3. pc \in {"begin", "done"}
    <3>1. Parts = 0
      BY <1>2 DEF Parts
    <3> QED BY <1>1, <3>1 DEF IInv, BatchInv
  <2>4. pc = "begin" => out = <<>> /\ Len(out) = 0
    BY DEF IInv, OutInv
  <2>5. pc = "done" => Len(out) = Len(Chunks)
    BY DEF IsSerial, OutIsSerial
  <2>6. Len(Chunks) \in Nat /\ Len(out) <= Len(Chunks)
    <3>1. Len(out) = 0 \/ Len(out) = 1
      BY <2>2, <2>3, <2>4, <2>5
    <3>2. 1 \in Nat /\ 0 <= 1 /\ 1 <= 1
      OBVIOUS
    <3> QED BY <2>2, <3>1, <3>2
  <2>7. out # <<>> => (Len(out) = Len(Chunks) <=> pc = "done")
    BY <2>3, <2>4, <2>5
  <2> QED BY <2>6, <2>7
<1>3. CASE in.len > 0
  <2>1. ASSUME NEW p \in Nat, p < Parts
        PROVE  Len(BeforePart[p]) < Len(Chunks) /\ Len(BeforePart[p]) \in Nat /\ Len(Chunks) \in Nat
    <3>1. /\ 0 < Blocks(PlanFor(p)) /\ 0 \in 0..(Blocks(PlanFor(p)) - 1)
      BY <1>1, <1>3, <2>1, ChunksOfPart
    <3>2. 0 < Pieces(PlannedBlock(in, PlanFor(p), 0))
      <4>1. /\ PlannedBlock(in, PlanFor(p), 0) \in PlannedBlocks
            /\ PlannedBlock(in, PlanFor(p), 0).from < PlannedBlock(in, PlanFor(p), 0).to
        BY <1>1, <1>3, <2>1, <3>1, ChunksOfPart
      <4> QED BY <4>1, ChunksOfBlock
    <3>3. /\ Position(p, 0, 0) \in Nat /\ Position(p, 0, 0) < Len(Chunks)
          /\ Len(Chunks) \in Nat
      BY <1>1, <1>3, <2>1, <3>1, <3>2, ChunkAtPosition
    <3>4. Position(p, 0, 0) = Len(BeforePart[p])
      BY <1>1, <1>3, <2>1, FirstPosition
    <3> QED BY <3>3, <3>4
  <2>2. Len(Chunks) \in Nat
    <3>1. 0 \in Nat /\ 0 < Parts
      BY <1>1, <1>3, PartsPositive
    <3> QED BY <2>1, <3>1
  <2>3. CASE pc = "begin"
    BY <2>2, <2>3 DEF IInv, OutInv
  <2>4. CASE pc \in {"spawn", "wait"}
    <3>1. first < Parts
      BY <2>4 DEF IInv, BatchInv
    <3>2. Len(out) = Len(BeforePart[first])
      BY <2>4 DEF IsSerial, OutIsSerial
    <3> QED BY <1>1, <2>1, <2>4, <3>1, <3>2
  <2>5. CASE pc = "write"
    <3> DEFINE p == first + slot
    <3>1. /\ p \in Nat /\ p < Parts /\ plans[slot] = PlanFor(p)
          /\ block \in Nat /\ block < Blocks(plans[slot])
      BY <2>5, NextChunk, WriteFacts
    <3>2. PICK k \in Nat : Len(out) = Position(p, block, k) /\ k < Pieces(Pending)
      BY <2>5, NextChunk
    <3>3. k < Pieces(PlannedBlock(in, PlanFor(p), block))
      BY <3>1, <3>2 DEF Pending
    <3>4. block < Blocks(PlanFor(p))
      BY <3>1
    <3> HIDE DEF p
    <3>5. Position(p, block, k) < Len(Chunks) /\ Position(p, block, k) \in Nat
      BY <1>1, <1>3, <3>1, <3>3, <3>4, ChunkAtPosition
    <3> QED BY <2>2, <2>5, <3>2, <3>5
  <2>6. CASE pc = "done"
    BY <2>2, <2>6 DEF IsSerial, OutIsSerial
  <2> QED BY <1>1, <2>3, <2>4, <2>5, <2>6
<1> QED BY <1>1, <1>2, <1>3

(* What is written is the beginning of the serial stream.                  *)
LEMMA SerialMatches ==
    ASSUME IInv, IsSerial
    PROVE  MatchesSerial
<1>1. out \in Seq(OutBlocks) /\ Len(out) \in Nat
  BY DEF IInv, TypeOK
<1>2. /\ Len(Chunks) \in Nat /\ Len(out) <= Len(Chunks)
      /\ out # <<>> => (Len(out) = Len(Chunks) <=> pc = "done")
  BY MoreChunks
<1>3. /\ Len(SerialStream) = Len(Chunks) /\ DOMAIN SerialStream = 1..Len(Chunks)
      /\ SerialStream = [n \in 1..Len(Chunks) |-> SerialStream[n]]
      /\ \A n \in 1..Len(Chunks) :
            SerialStream[n] = Piece(Chunks[n].block, Chunks[n].done, n = Len(Chunks))
  BY <1>2, StreamOfChunks
<1>4. ASSUME NEW n \in 1..Len(out) PROVE out[n] = SerialStream[n]
  <2>1. out # <<>> /\ n \in 1..Len(Chunks)
    BY <1>1, <1>2
  <2>2. out[n] \in OutBlocks
    BY <1>1
  <2>3. out[n].final \in BOOLEAN
    BY <2>2 DEF OutBlocks
  <2>4. out[n].final <=> n = Len(out) /\ pc = "done"
    BY DEF IInv, OutInv
  <2>5. out[n].final <=> n = Len(Chunks)
    <3>1. n = Len(Chunks) => Len(out) = Len(Chunks)
      BY <1>1, <1>2
    <3> QED BY <1>2, <2>1, <2>4, <3>1
  <2>6. out[n].final = (n = Len(Chunks))
    BY <2>3, <2>5
  <2>7. out[n] = Piece(Chunks[n].block, Chunks[n].done, out[n].final)
    BY DEF IsSerial, OutIsSerial
  <2> QED BY <1>3, <2>1, <2>6, <2>7
<1>5. IsPrefix(out, SerialStream)
  <2>1. SubSeq(out, 1, Len(out)) = [n \in 1..Len(out) |-> out[n]]
    BY <1>1
  <2>2. SubSeq(SerialStream, 1, Len(out)) = [n \in 1..Len(out) |-> SerialStream[n]]
    BY <1>1, <1>2, <1>3
  <2> QED BY <1>2, <1>3, <1>4, <2>1, <2>2 DEF IsPrefix
<1>6. pc = "done" => out = SerialStream
  <2> SUFFICES ASSUME pc = "done" PROVE out = SerialStream
    OBVIOUS
  <2>1. Len(out) = Len(Chunks)
    BY DEF IsSerial, OutIsSerial
  <2>2. out = [n \in 1..Len(out) |-> out[n]]
    BY <1>1
  <2> QED BY <1>3, <1>4, <2>1, <2>2
<1> QED BY <1>5, <1>6 DEF MatchesSerial

(* The output is deterministic: whatever number of workers analyses the    *)
(* parts and blocks of any input, and in whatever order they finish, what  *)
(* is written is the stream of the serial algorithm (README, deflate).     *)
THEOREM StreamIsSerial == Spec => []MatchesSerial
<1>1. Init => IsSerial
  BY InitSerial
<1>2. IInv /\ IsSerial /\ [Next]_vars => IsSerial'
  <2> SUFFICES ASSUME IInv, IsSerial, [Next]_vars PROVE IsSerial'
    OBVIOUS
  <2>1. CASE Main
    BY <2>1, WriteEmptySerial, BeginSerial, SpawnSerial, WaitSerial, WriteSerial DEF Main
  <2>2. ASSUME NEW o \in Slots, Prepare(o) PROVE IsSerial'
    BY <2>2, AnalysisSerial
  <2>3. ASSUME NEW o \in Slots, NEW w \in Workers, Worker(o, w) PROVE IsSerial'
    BY <2>3, AnalysisSerial
  <2>4. CASE UNCHANGED vars
    <3>1. /\ in' = in /\ opt' = opt /\ UNCHANGED main
          /\ stage' = stage /\ cuts' = cuts /\ next' = next /\ store' = store
          /\ points' = points /\ plans' = plans /\ first' = first
      BY <2>4 DEF vars, call, main, frame
    <3>2. \A o \in Slots : FrameIsSerial(o)'
      BY <3>1, FrameSerialStable DEF IsSerial
    <3>3. /\ BeforePart' = BeforePart /\ Chunks' = Chunks
          /\ \A q, b, j : Position(q, b, j)' = Position(q, b, j)
      BY <3>1, CallStable DEF Position
    <3>4. OutIsSerial'
      BY <3>1, <3>3 DEF IsSerial, OutIsSerial, main
    <3> QED BY <3>2, <3>4 DEF IsSerial
  <2> QED BY <2>1, <2>2, <2>3, <2>4 DEF Next, Returned
<1>3. IInv /\ IsSerial => MatchesSerial
  BY SerialMatches
<1> QED BY <1>1, <1>2, <1>3, Invariant, PTL DEF Spec

=============================================================================
