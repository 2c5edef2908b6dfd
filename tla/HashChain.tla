------------------------------ MODULE HashChain ------------------------------
(***************************************************************************)
(* The hash chains of the sliding window (hash.go) and the search that     *)
(* walks them (findLongestMatch, lz77.go), without the match cache that    *)
(* may answer before it (LongestMatchCache).  Two blocks of an array are   *)
(* parsed one after the other with the same memory; the second one starts  *)
(* from the window before it.                                              *)
(*                                                                         *)
(* A position is kept modulo WindowSize: head has the last slot of a hash  *)
(* value, prev links a slot to the one before it with the same value.  The *)
(* second chain links slots by the value and the length of the run of one  *)
(* byte they start.  Nothing is ever removed, so that every link may lead  *)
(* to a slot that is by now another position's.                            *)
(*                                                                         *)
(* The bytes and the hash are scaled: HashShift and HashMask are chosen,   *)
(* as 5 and 32767 are, so that the value depends on three bytes.  getMatch *)
(* compares eight bytes at a time where it can, with the same result.      *)
(***************************************************************************)
EXTENDS Integers, Sequences, FiniteSetsExt

CONSTANTS
    WindowSize,             \* a power of two, 32768
    MinMatch, MaxMatch,     \* 3, 258
    HashShift, HashMask,    \* 5, 32767
    SameMask,               \* 255
    SameMax,                \* 65535, the longest run that is counted
    ChainHits,              \* values for maxChainHits, 8192
    Inputs,                 \* [array, cut]: bytes, and where the second block starts
    BitXor(_, _)               \* of two numbers, bit by bit

Slots == 0..(WindowSize - 1)
Values == 0..HashMask
NoSlot == -1

(* The hash value with one more byte. *)
Rolled(val, byte) == BitXor((val * 2 ^ HashShift) % (HashMask + 1), byte)

(* The two bytes of warmup, and the numbers 258 and 255, depend on MinMatch *)
(* being 3: a longest match with a run of its own must not have the second *)
(* value of a run that is shorter by SameMask + 1.                         *)
ASSUME SizesAssumption ==
    /\ WindowSize \in Nat /\ WindowSize # 0
    /\ MaxMatch \in Nat /\ SameMax \in Nat /\ SameMask \in Nat /\ HashMask \in Nat
    /\ MinMatch = 3 /\ MinMatch < MaxMatch /\ MaxMatch < SameMax
    /\ SameMask <= HashMask /\ MaxMatch <= SameMask + MinMatch
    /\ \A n \in ChainHits : n \in Nat /\ n # 0
    /\ \A i \in Inputs : i.array \in Seq(Values) /\ i.cut \in 1..(Len(i.array) - 1)

(* Three bytes shift whatever was hashed before them out of the value.     *)
ASSUME HashAssumption ==
    /\ \A a, b \in Values : BitXor(a, b) \in Values /\ Rolled(a, b) \in Values
    /\ \A a, b, c \in Values : BitXor(a, b) = BitXor(c, b) => a = c
    /\ \A v, a, b, c \in Values :
          Rolled(Rolled(Rolled(v, a), b), c) = Rolled(Rolled(Rolled(0, a), b), c)

VARIABLES
    in,             \* an element of Inputs
    maxChainHits,
    parse,          \* 1 and 2 for the first block, 3 for the second
    pos,            \* the next position
    h,              \* the hash
    found           \* the result of the last search, and its limit

vars == <<in, maxChainHits, parse, pos, h, found>>

-----------------------------------------------------------------------------
Smaller(a, b) == IF a < b THEN a ELSE b
Larger(a, b) == IF a > b THEN a ELSE b

Start(i, n) == IF n = 3 THEN i.cut ELSE 0
End(i, n) == IF n = 3 THEN Len(i.array) ELSE i.cut

Instart == Start(in, parse)
Inend == End(in, parse)

WindowStart(p) == Larger(0, p - WindowSize)

(* A read outside of the array is none of its bytes. *)
Byte(array, p) == IF p \in 0..(Len(array) - 1) THEN array[p + 1] ELSE -1

Slot(p) == p % WindowSize

(* New memory is zero. *)
Allocated ==
    [val |-> 0, val2 |-> 0, head |-> [v \in Values |-> 0], head2 |-> [v \in Values |-> 0],
     prev |-> [s \in Slots |-> 0], prev2 |-> [s \in Slots |-> 0],
     hashval |-> [s \in Slots |-> 0], hashval2 |-> [s \in Slots |-> 0],
     same |-> [s \in Slots |-> 0]]

Reset(old) ==
    [old EXCEPT !.val = 0, !.val2 = 0,
                !.head = [v \in Values |-> NoSlot], !.head2 = [v \in Values |-> NoSlot],
                !.prev = [s \in Slots |-> s], !.prev2 = [s \in Slots |-> s],
                !.hashval = [s \in Slots |-> -1], !.hashval2 = [s \in Slots |-> -1],
                !.same = [s \in Slots |-> 0]]

(* The first two bytes of the window, or the only one. *)
Warmup(g, array, p, end) ==
    LET one == Rolled(g.val, Byte(array, p))
    IN  [g EXCEPT !.val = IF p + 1 < end THEN Rolled(one, Byte(array, p + 1)) ELSE one]

MutLink(head, hashval, val, slot) == IF head[val] # NoSlot THEN head[val] ELSE slot

(* The slot a new entry is linked to: the last one with its value, unless  *)
(* that slot has been overwritten; or itself, the end of a chain.          *)
Link(head, hashval, val, slot) ==
    IF head[val] # NoSlot /\ hashval[head[val]] = val THEN head[val] ELSE slot

(* Bytes after p that repeat its byte, counted on from the run of p - 1. *)
Run(array, p, end, before) ==
    LET known == IF before > 1 THEN before - 1 ELSE 0
        last == Smaller(end - p - 1, Larger(known, SameMax))
        ends == {l \in known..last : l = last \/ Byte(array, p + l + 1) # Byte(array, p)}
    IN  IF ends = {} THEN known ELSE Min(ends)

(* The value of the second chain. *)
Second(run, val) == BitXor((run - MinMatch) % (SameMask + 1), val)

(* One position enters the window; behind the last bytes zeros are hashed. *)
Update(g, array, p, end) ==
    LET slot == Slot(p)
        val == Rolled(g.val, IF p + MinMatch <= end THEN Byte(array, p + MinMatch - 1) ELSE 0)
        run == Run(array, p, end, g.same[Slot(p - 1)])
        val2 == Second(run, val)
        hashval == [g.hashval EXCEPT ![slot] = val]
        hashval2 == [g.hashval2 EXCEPT ![slot] = val2]
    IN  [val |-> val, val2 |-> val2, hashval |-> hashval, hashval2 |-> hashval2,
         prev |-> [g.prev EXCEPT ![slot] = Link(g.head, hashval, val, slot)],
         prev2 |-> [g.prev2 EXCEPT ![slot] = Link(g.head2, hashval2, val2, slot)],
         head |-> [g.head EXCEPT ![val] = slot],
         head2 |-> [g.head2 EXCEPT ![val2] = slot],
         same |-> [g.same EXCEPT ![slot] = run]]

-----------------------------------------------------------------------------
(* How far back it is from a slot to the one before it in a chain. *)
Back(from, to) == IF to < from THEN from - to ELSE WindowSize - to + from

MutSkip(g, array, p, dist, limit) ==
    LET same0 == g.same[Slot(p)]
    IN  IF same0 > 2 THEN Smaller(same0, limit) ELSE 0

(* Bytes that need no comparison since both positions start a run. *)
Skip(g, array, p, dist, limit) ==
    LET same0 == g.same[Slot(p)]
    IN  IF same0 > 2 /\ Byte(array, p) = Byte(array, p - dist)
        THEN Smaller(Smaller(g.same[Slot(p - dist)], same0), limit) ELSE 0

(* The match that many bytes back. *)
MatchLength(g, array, p, dist, limit) ==
    LET skip == Skip(g, array, p, dist, limit)
    IN  Min({l \in skip..limit :
               l = limit \/ Byte(array, p + l) # Byte(array, p - dist + l)})

MutSwitches(g, slot, p, best) == best >= g.same[Slot(p)]

(* Whether the walk goes on along the second chain: the best match covers  *)
(* the run at p, and slot starts a run of that length too.                 *)
Switches(g, slot, p, best) == best >= g.same[Slot(p)] /\ g.val2 = g.hashval2[slot]

MutFilled(sublen, from, to, dist) ==
    [k \in 1..MaxMatch |-> IF k \in 2..to THEN dist ELSE sublen[k]]

(* The lengths a better match adds take its distance. *)
Filled(sublen, from, to, dist) ==
    [k \in 1..MaxMatch |-> IF k \in from..to THEN dist ELSE sublen[k]]

(* One turn of the walk: w.slot is w.dist bytes back.  sublen[k] is the    *)
(* distance of the first match of k bytes; probes are the distances that   *)
(* were tried.  The best length is below the limit, so that the byte       *)
(* behind it is in the block.                                              *)
Visit(g, array, p, limit, w) ==
    LET worth == Byte(array, p + w.length) = Byte(array, p - w.dist + w.length)
        length == IF w.dist > 0 /\ worth THEN MatchLength(g, array, p, w.dist, limit) ELSE 0
        better == length > w.length
        best == IF better THEN length ELSE w.length
        second == w.second \/ Switches(g, w.slot, p, best)
        next == IF second THEN g.prev2[w.slot] ELSE g.prev[w.slot]
    IN  [slot |-> next, dist |-> w.dist + Back(w.slot, next), second |-> second,
         over |-> (better /\ length >= limit) \/ next = w.slot,
         length |-> best, best |-> IF better THEN w.dist ELSE w.best,
         sublen |-> Filled(w.sublen, w.length + 1, length, w.dist),
         probes |-> w.probes \cup {w.dist}]

Over(w) == w.over \/ w.dist >= WindowSize

NoMatch == [length |-> 0, dist |-> 0, sublen |-> [k \in 1..MaxMatch |-> 0], probes |-> {}]

(* The walk begins at the position itself. *)
First(g) ==
    LET head == g.head[g.val]
    IN  [slot |-> g.prev[head], dist |-> Back(head, g.prev[head]), second |-> FALSE,
         over |-> FALSE, length |-> 1, best |-> 0,
         sublen |-> NoMatch.sublen, probes |-> {}]

(* At most so many turns. *)
Walk(g, array, p, limit, hits) ==
    LET after[n \in 0..hits] ==
          IF n = 0 THEN First(g)
          ELSE LET w == after[n - 1]
               IN  IF Over(w) THEN w ELSE Visit(g, array, p, limit, w)
    IN  after[hits]

(* A search of at most asked bytes at p, the last position that entered.   *)
FindLongestMatch(g, array, p, size, asked, hits) ==
    LET w == Walk(g, array, p, Smaller(asked, size - p), hits)
    IN  IF size - p < MinMatch THEN NoMatch
        ELSE [length |-> w.length, dist |-> w.best, sublen |-> w.sublen, probes |-> w.probes]

-----------------------------------------------------------------------------
NotFound == [limit |-> MaxMatch, match |-> NoMatch]

(* The hash at the start of the window before a block. *)
Prepared(old, i, n) ==
    Warmup(Reset(old), i.array, WindowStart(Start(i, n)), End(i, n))

Init ==
    /\ in \in Inputs /\ maxChainHits \in ChainHits
    /\ parse = 1 /\ pos = 0
    /\ h = Prepared(Allocated, in, 1)
    /\ found = NotFound

(* What a parser does before its first position: the bytes of the window   *)
(* before the block enter.                                                 *)
Enter ==
    /\ pos < Instart
    /\ h' = Update(h, in.array, pos, Inend)
    /\ pos' = pos + 1
    /\ UNCHANGED <<in, maxChainHits, parse, found>>

(* The next position enters, and a parser asks for a match there.          *)
Step(limit) ==
    /\ pos \in Instart..(Inend - 1)
    /\ h' = Update(h, in.array, pos, Inend)
    /\ found' = [limit |-> limit,
                 match |-> FindLongestMatch(h', in.array, pos, Inend, limit, maxChainHits)]
    /\ pos' = pos + 1
    /\ UNCHANGED <<in, maxChainHits, parse>>

(* The next parse, with the memory of the one before. *)
NextParse ==
    /\ pos = Inend /\ parse < 3
    /\ parse' = parse + 1
    /\ h' = Prepared(h, in, parse + 1)
    /\ pos' = WindowStart(Start(in, parse + 1))
    /\ found' = NotFound
    /\ UNCHANGED <<in, maxChainHits>>

Done == parse = 3 /\ pos = Inend /\ UNCHANGED vars

Next == Enter \/ (\E limit \in MinMatch..MaxMatch : Step(limit)) \/ NextParse \/ Done

Spec == Init /\ [][Next]_vars

-----------------------------------------------------------------------------
(* The position that was asked for last. *)
Asked == pos - 1
Searched == found.match # NoMatch

(* The three bytes at p, and their hash value. *)
Trigram(array, p) == <<Byte(array, p), Byte(array, p + 1), Byte(array, p + 2)>>
Hashed(t) == Rolled(Rolled(Rolled(0, t[1]), t[2]), t[3])
HashOf(array, p) == Hashed(Trigram(array, p))

(* Bytes that agree at p and d before it. *)
Common(array, p, d, size) ==
    Min({l \in 0..(size - p) : l = size - p \/ Byte(array, p + l) # Byte(array, p - d + l)})

(* The run at p that is counted. *)
RunOf(array, p, size) == Smaller(Common(array, p + 1, 1, size), SameMax)
SecondOf(array, p, size) == Second(RunOf(array, p, size), HashOf(array, p))

(* Distances a match at p may have. *)
Reach(p) == 1..Smaller(WindowSize - 1, p - WindowStart(Instart))

(* The chains wrap with the window, and the memory is that of the block    *)
(* before: still the walk visits no other positions than those of the      *)
(* window that share one of its two hash values, each at its distance      *)
(* (hash.update, findLongestMatch).                                        *)
ProbesAreAlike ==
    \A d \in found.match.probes :
        /\ d \in Reach(Asked)
        /\ \/ HashOf(in.array, Asked - d) = HashOf(in.array, Asked)
           \/ SecondOf(in.array, Asked - d, Inend) = SecondOf(in.array, Asked, Inend)

(* Whatever a search returns is there: sublen names for each length up to  *)
(* the one found a distance at which that many bytes agree, within the     *)
(* block and the limit.  The bytes a common run lets the search skip were  *)
(* never compared, and the assertion that would look at them               *)
(* (verifyLenDist) is off in the code as it is built.                      *)
MatchesAreReal ==
    LET m == found.match
    IN  /\ m.length <= found.limit
        /\ m.dist # 0 => m.sublen[m.length] = m.dist
        /\ \A k \in 2..m.length : /\ m.sublen[k] \in Reach(Asked)
                                  /\ k <= Common(in.array, Asked, m.sublen[k], Inend)

(* When the hash tells the three bytes of any two positions apart and the  *)
(* walk is not cut off, the search misses nothing: it finds the longest    *)
(* match of the window, and for each length the nearest one, though it     *)
(* leaves the first chain for the second on the way (findLongestMatch).    *)
Apart ==
    [i \in Inputs |->
        LET at == {Trigram(i.array, p) : p \in 0..(Len(i.array) - MinMatch)}
        IN  \A s, t \in at : s # t => Hashed(s) # Hashed(t)]

FindsNearest ==
    Searched /\ maxChainHits >= WindowSize /\ Apart[in] =>
        \A k \in MinMatch..Smaller(found.limit, Inend - Asked) :
            LET ds == {d \in Reach(Asked) : Common(in.array, Asked, d, Inend) >= k}
            IN  IF ds = {} THEN found.match.length < k
                ELSE found.match.length >= k /\ found.match.sublen[k] = Min(ds)

(* followPath asks for one length of the path and takes the distance       *)
(* without a look at the length (squeeze.go:438): a search limited to k    *)
(* bytes finds the distance the full search has for k bytes, even when     *)
(* chains are cut off.                                                     *)
LimitedAgrees ==
    Searched =>
        LET full == FindLongestMatch(h, in.array, Asked, Inend, MaxMatch, maxChainHits)
        IN  full.length >= found.limit =>
                /\ found.match.length = found.limit
                /\ found.match.dist = full.sublen[found.limit]

=============================================================================
