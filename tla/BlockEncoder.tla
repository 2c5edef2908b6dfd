----------------------------- MODULE BlockEncoder -----------------------------
(***************************************************************************)
(* One block of the stream (addLZ77BlockAutoType, addLZ77Block, deflate.go *)
(* and tree.go): its size as a stored, a fixed and a dynamic block, the    *)
(* choice among them, the code lengths and their own encoding, and the     *)
(* bits of the tokens.                                                     *)
(*                                                                         *)
(* The tokens are the store of the block; the stream is its bits, in the   *)
(* order a decoder reads them, without their packing into bytes.  Stored   *)
(* blocks are written as DeflateParallel has it.                           *)
(***************************************************************************)
EXTENDS HuffmanCodes, SymbolTables, SequencesExt

CONSTANTS
    Blocks,         \* blocks: the tokens, and those of the parse for fixed codes
    ShortRange,     \* 3 * numLL tokens; shorter ranges are summed up token by token
    SmallStore      \* 1000 tokens; smaller stores are parsed again for fixed codes

(* A literal has distance 0. *)
IsToken(t) ==
    \/ t.dist = 0 /\ t.litlen \in 0..255
    \/ t.dist \in 1..32768 /\ t.litlen \in 3..258

Bytes(tokens) ==
    LET upto[n \in 0..Len(tokens)] ==
          IF n = 0 THEN 0
          ELSE upto[n - 1] + IF tokens[n].dist = 0 THEN 1 ELSE tokens[n].litlen
    IN  upto[Len(tokens)]

ASSUME BlocksAssumption ==
    /\ ShortRange \in Nat /\ SmallStore \in Nat
    /\ \A b \in Blocks : /\ \A n \in DOMAIN b.tokens : IsToken(b.tokens[n])
                         /\ \A n \in DOMAIN b.fixed : IsToken(b.fixed[n])
                         /\ Bytes(b.tokens) = Bytes(b.fixed)

VARIABLES
    block, final,
    pc,         \* measure, choose, codes, tree, data, done, stored
    costs,      \* of the three types
    btype,      \* 0 stored, 1 fixed, 2 dynamic
    tokens,     \* the store that is written
    lengths,    \* code lengths in the scratch memory
    bits        \* the stream

vars == <<block, final, pc, costs, btype, tokens, lengths, bits>>

LLSymbols == 0..287
DSymbols == 0..31
EndSymbol == 256

Larger(a, b) == IF a > b THEN a ELSE b

(* boundaryPM: one more chain in a list; a package makes two in the list   *)
(* below.                                                                  *)
RECURSIVE BoundaryPM(_, _, _)
BoundaryPM(pm, leaves, list) ==
    IF TakesLeaf(pm, leaves, list, LastChain(pm, list).count) THEN NextLeaf(pm, leaves, list)
    ELSE IF list = 1 THEN pm
    ELSE BoundaryPM(BoundaryPM(NextPackage(pm, list), leaves, list - 1), leaves, list - 1)

(* lengthLimitedCodeLengths, where the bits are enough. *)
Merged(leaves, limit) ==
    LET after[n \in 0..(NumRuns(leaves) - 1)] ==
            IF n = 0 THEN InitLists(leaves, limit) ELSE BoundaryPM(after[n - 1], leaves, limit)
    IN  BoundaryPMFinal(after[NumRuns(leaves) - 1], leaves, limit)

LengthsOf(freq, leaves, limit) ==
    IF Len(leaves) <= 2 THEN FewSymbols(freq)
    ELSE BitLengths(freq, leaves, Merged(leaves, limit), limit)

LengthsLimited(freq, leaves, maxBits) == LengthsOf(freq, leaves, Limit(leaves, maxBits))
CodeLengths(freq, maxBits) == LengthsLimited(freq, Leaves(freq), maxBits)

(* Sums, and below the loops over an alphabet, go by halves: the recursion *)
(* is as deep as the logarithm of the alphabet only.                       *)
RECURSIVE Sum(_, _, _)
Sum(f, from, to) ==
    IF from = to THEN f[from]
    ELSE LET half == (from + to) \div 2
         IN  Sum(f, from, half) + Sum(f, half + 1, to)

Total(f) == Sum(f, 0, Cardinality(DOMAIN f) - 1)     \* of a function on 0..n

-----------------------------------------------------------------------------
(* addBits and addHuffmanBits: numbers go out from their low bit, code     *)
(* words from their high bit.                                              *)
AddBits(n, width) == [i \in 1..width |-> (n \div 2 ^ (i - 1)) % 2]
AddHuffmanBits(code, width) == Reverse(AddBits(code, width))

LLSymbol(t) == IF t.dist = 0 THEN t.litlen ELSE LengthCode(t.litlen).symbol

(* The histogram of the tokens. *)
Counts(ts) ==
    LET at == DOMAIN ts
        matches == {n \in at : ts[n].dist # 0}
        ll == [n \in at |-> LLSymbol(ts[n])]
        d == [n \in matches |-> DistCode(ts[n].dist).symbol]
    IN  [ll |-> [s \in LLSymbols |-> Cardinality({n \in at : ll[n] = s})],
         d |-> [s \in DSymbols |-> Cardinality({n \in matches : d[n] = s})]]

FixedTree ==    \* getFixedTree
    [ll |-> [s \in LLSymbols |-> IF s < 144 THEN 8 ELSE IF s < 256 THEN 9
                                 ELSE IF s < 280 THEN 7 ELSE 8],
     d |-> [s \in DSymbols |-> 5]]

-----------------------------------------------------------------------------
(* patchDistanceCodesForBuggyDecoders: two distances have a code.          *)
Patched(d) ==
    LET used == {s \in 0..29 : d[s] # 0}
    IN  IF Cardinality(used) >= 2 THEN d
        ELSE IF used = {} THEN [d EXCEPT ![0] = 1, ![1] = 1]
        ELSE IF d[0] # 0 THEN [d EXCEPT ![1] = 1]
        ELSE [d EXCEPT ![0] = 1]

LengthsFor(counts) ==
    [ll |-> CodeLengths(counts.ll, 15), d |-> Patched(CodeLengths(counts.d, 15))]

(* optimizeHuffmanForRLE, first pass: whether a count stands in a run that *)
(* is long enough as it is.                                                *)
GoodForRLE(counts, length, i) ==
    LET enough == IF counts[i] = 0 THEN 5 ELSE 7
    IN  \E from \in Larger(0, i - enough + 1)..Smaller(i, length - enough) :
            \A j \in from..(from + enough - 1) : counts[j] = counts[i]

AbsDiff(a, b) == IF a > b THEN a - b ELSE b - a

MutEvened(sum, stride) == (sum + stride \div 2) \div stride

(* What a stride of similar counts becomes: a used symbol stays one. *)
Evened(sum, stride) ==
    IF sum = 0 THEN 0 ELSE Larger((sum + stride \div 2) \div stride, 1)

(* Second pass, at one symbol: neighbouring counts that are nearly the     *)
(* same are made so when their stride ends.                                *)
Stride(a, i, length) ==
    LET counts == a.counts
        ends == i = length \/ GoodForRLE(a.given, length, i) \/ AbsDiff(counts[i], a.limit) >= 4
        evened ==
          IF a.stride >= 4 \/ (a.stride >= 3 /\ a.sum = 0)
          THEN [s \in DOMAIN counts |-> IF s \in (i - a.stride)..(i - 1)
                                        THEN Evened(a.sum, a.stride) ELSE counts[s]]
          ELSE counts
        ahead ==
          IF i < length - 3
          THEN (counts[i] + counts[i + 1] + counts[i + 2] + counts[i + 3] + 2) \div 4
          ELSE IF i < length THEN counts[i] ELSE 0
        count == IF i = length THEN 0 ELSE counts[i]
    IN  IF ends THEN [a EXCEPT !.stride = 1, !.sum = count, !.limit = ahead, !.counts = evened]
        ELSE [a EXCEPT !.stride = @ + 1, !.sum = @ + count]

RECURSIVE Strides(_, _, _, _)
Strides(a, from, to, length) ==
    IF from = to THEN Stride(a, from, length)
    ELSE LET half == (from + to) \div 2
             left == Strides(a, from, half, length)
         IN  IF left.stride > 0     \* it is: makes TLC finish the left half first
             THEN Strides(left, half + 1, to, length) ELSE left

OptimizeForRLE(counts) ==
    LET length == 1 + Max(Used(counts))
    IN  IF Used(counts) = {} THEN counts
        ELSE Strides([given |-> counts, counts |-> counts, limit |-> counts[0],
                      stride |-> 0, sum |-> 0], 0, length, length).counts

-----------------------------------------------------------------------------
(* encodeTree.  The lengths that are sent: at least 257 and 1, trailing    *)
(* zeros left out, the two alphabets in one sequence.                      *)
Hlit(ll) == Max({0} \cup {h \in 1..29 : ll[256 + h] # 0})
Hdist(d) == Max({0} \cup {h \in 1..29 : d[h] # 0})

Sent(ls) ==
    LET hlit2 == Hlit(ls.ll) + 257
    IN  [i \in 1..(hlit2 + Hdist(ls.d) + 1) |->
            IF i <= hlit2 THEN ls.ll[i - 1] ELSE ls.d[i - 1 - hlit2]]

(* A sequence as its runs of equal lengths. *)
JoinRuns(left, right) ==
    IF Last(left).symbol # Head(right).symbol THEN left \o right
    ELSE Front(left) \o <<[Head(right) EXCEPT !.count = @ + Last(left).count]>> \o Tail(right)

RECURSIVE RunsOf(_, _, _)
RunsOf(sent, from, to) ==
    LET half == (from + to) \div 2
    IN  IF from = to THEN <<[symbol |-> sent[from], count |-> 1]>>
        ELSE JoinRuns(RunsOf(sent, from, half), RunsOf(sent, half + 1, to))

(* A symbol of the code of code lengths, with its extra bits. *)
Entry(symbol, value) == [symbol |-> symbol, value |-> value]

(* The three ways to shorten runs, in the eight combinations tried.        *)
Use16(option) == option % 2 = 1
Use17(option) == (option \div 2) % 2 = 1
Use18(option) == option \div 4 = 1

(* The repetitions a count is cut into while it is least or more, and what *)
(* they leave.                                                             *)
Repeat(symbol, count, least, most) ==
    [n \in 1..(count \div most) |-> Entry(symbol, most - least)]
    \o (IF count % most >= least THEN <<Entry(symbol, (count % most) - least)>> ELSE <<>>)

Rest(count, least, most) == IF count % most >= least THEN 0 ELSE count % most

(* A run in the code of code lengths: zeros by 18 and 17, what is left of  *)
(* them and any other length once and then by 16, the rest one by one.     *)
Shortened(run, option) ==
    LET zeros == run.symbol = 0 /\ run.count >= 3
        plain(count) == [n \in 1..count |-> Entry(run.symbol, 0)]
        by16(count) ==
          IF Use16(option) /\ count >= 4
          THEN plain(1) \o Repeat(16, count - 1, 3, 6) \o plain(Rest(count - 1, 3, 6))
          ELSE plain(count)
        by17(count) ==
          IF zeros /\ Use17(option)
          THEN Repeat(17, count, 3, 10) \o by16(Rest(count, 3, 10)) ELSE by16(count)
    IN  IF zeros /\ Use18(option)
        THEN Repeat(18, run.count, 11, 138) \o by17(Rest(run.count, 11, 138)) ELSE by17(run.count)

CodeLengthOrder == <<16, 17, 18, 0, 8, 7, 9, 6, 10, 5, 11, 4, 12, 3, 13, 2, 14, 1, 15>>
ExtraBits(symbol) == CASE symbol = 16 -> 2 [] symbol = 17 -> 3 [] symbol = 18 -> 7 [] OTHER -> 0

(* The lengths of the code of code lengths that are sent, four at least.   *)
Hclen(counts) == Max({0} \cup {h \in 1..15 : counts[CodeLengthOrder[h + 4]] # 0})

TreeWith(rle, counts, clcl, hclen) ==
    [rle |-> rle, clcl |-> clcl, hclen |-> hclen,
     size |-> 14 + (hclen + 4) * 3 + Total([s \in 0..18 |-> (clcl[s] + ExtraBits(s)) * counts[s]])]

TreeFrom(rle, counts) == TreeWith(rle, counts, CodeLengths(counts, 7), Hclen(counts))

TreeOf(rle) == TreeFrom(rle, [s \in 0..18 |-> Cardinality({n \in DOMAIN rle : rle[n].symbol = s})])

(* calculateTreeSize and addDynamicTree: the first of the smallest.        *)
First(trees) ==
    CHOOSE t \in Range(trees) : \E n \in DOMAIN trees :
        /\ trees[n] = t
        /\ \A m \in DOMAIN trees : t.size < trees[m].size \/ (t.size = trees[m].size /\ n <= m)

TreesOf(runs) ==
    [option \in 0..7 |-> TreeOf(FlattenSeq([n \in DOMAIN runs |-> Shortened(runs[n], option)]))]

BestTreeOf(sent) == First(TreesOf(RunsOf(sent, 1, Len(sent))))
BestTree(ls) == BestTreeOf(Sent(ls))

EntryBits(rle, clcl, words) ==
    FlattenSeq([n \in DOMAIN rle |->
        AddHuffmanBits(words[rle[n].symbol], clcl[rle[n].symbol])
        \o AddBits(rle[n].value, ExtraBits(rle[n].symbol))])

TreeBits(ls, tree) ==
    AddBits(Hlit(ls.ll), 5) \o AddBits(Hdist(ls.d), 5) \o AddBits(tree.hclen, 4)
    \o FlattenSeq([i \in 1..(tree.hclen + 4) |-> AddBits(tree.clcl[CodeLengthOrder[i]], 3)])
    \o EntryBits(tree.rle, tree.clcl, LengthsToSymbols(tree.clcl, 7))

-----------------------------------------------------------------------------
(* calculateBlockSymbolSizeSmall: token by token.                          *)
TokenSize(ls, t) ==
    LET l == LLSymbol(t)
        d == DistCode(t.dist).symbol
    IN  IF t.dist = 0 THEN ls.ll[l]
        ELSE ls.ll[l] + ls.d[d] + LengthExtraBits(l) + DistExtraBits(d)

(* calculateBlockSymbolSizeGivenCounts: a long range symbol by symbol.     *)
SymbolSize(ls, counts, ts) ==
    ls.ll[EndSymbol] +
    IF Len(ts) < ShortRange
    THEN Total([n \in 0..Len(ts) |-> IF n = 0 THEN 0 ELSE TokenSize(ls, ts[n])])
    ELSE Total([s \in 0..255 |-> ls.ll[s] * counts.ll[s]])
         + Total([s \in 0..28 |-> (ls.ll[257 + s] + LengthExtraBits(257 + s)) * counts.ll[257 + s]])
         + Total([s \in 0..29 |-> (ls.d[s] + DistExtraBits(s)) * counts.d[s]])

(* tryOptimizeHuffmanForRLE: lengths made from evened counts when tree and *)
(* data together get smaller.                                              *)
Dynamic(ls, counts, ts) ==
    [lengths |-> ls, size |-> BestTree(ls).size + SymbolSize(ls, counts, ts)]

SmallerOf(plain, rle) == IF rle.size < plain.size THEN rle ELSE plain

BetterLengths(counts, ts) ==
    LET evened == [ll |-> OptimizeForRLE(counts.ll), d |-> OptimizeForRLE(counts.d)]
    IN  SmallerOf(Dynamic(LengthsFor(counts), counts, ts), Dynamic(LengthsFor(evened), counts, ts))

(* getDynamicLengths: the end of the block counts once. *)
DynamicLengths(ts) == BetterLengths([Counts(ts) EXCEPT !.ll[EndSymbol] = 1], ts)

(* calculateBlockSize *)
StoredSize(ts) == 8 * Bytes(ts) + 40 * ((Bytes(ts) + 65534) \div 65535)
FixedSize(ts) == 3 + SymbolSize(FixedTree, Counts(ts), ts)

(* addLZ77Data and the end of the block. *)
TokenBits(ls, ll, d, t, length, dist) ==
    AddHuffmanBits(ll[LLSymbol(t)], ls.ll[LLSymbol(t)]) \o
    IF t.dist = 0 THEN <<>>
    ELSE AddBits(length.value, length.extraBits)
         \o AddHuffmanBits(d[dist.symbol], ls.d[dist.symbol])
         \o AddBits(dist.value, dist.extraBits)

DataWith(ls, ll, d, ts) ==
    FlattenSeq([n \in DOMAIN ts |->
        TokenBits(ls, ll, d, ts[n], LengthCode(ts[n].litlen), DistCode(ts[n].dist))])
    \o AddHuffmanBits(ll[EndSymbol], ls.ll[EndSymbol])

DataBits(ls, ts) == DataWith(ls, LengthsToSymbols(ls.ll, 15), LengthsToSymbols(ls.d, 15), ts)

-----------------------------------------------------------------------------
(* A part of fixed blocks is written at once, any other is measured.       *)
Init ==
    /\ block \in Blocks /\ final \in BOOLEAN
    /\ btype \in {1, 2} /\ (block.tokens = <<>> => btype = 2)
    /\ pc = IF btype = 1 THEN "codes" ELSE "measure"
    /\ tokens = IF btype = 1 THEN block.fixed ELSE block.tokens
    /\ costs = [t \in 0..2 |-> 0]
    /\ lengths = [ll |-> [s \in LLSymbols |-> 0], d |-> [s \in DSymbols |-> 0]]
    /\ bits = <<>>

Measure ==
    /\ pc = "measure" /\ pc' = "choose"
    /\ \E dynamic \in {DynamicLengths(tokens)} :
          /\ costs' = [t \in 0..2 |-> CASE t = 0 -> StoredSize(tokens)
                                        [] t = 1 -> FixedSize(tokens)
                                        [] OTHER -> 3 + dynamic.size]
          /\ lengths' = dynamic.lengths
    /\ UNCHANGED <<block, final, btype, tokens, bits>>

Header(type) == <<IF final THEN 1 ELSE 0>> \o AddBits(type, 2)

(* No tokens: a fixed block of nothing but its end. *)
WriteEmpty ==
    /\ pc = "choose" /\ tokens = <<>>
    /\ bits' = Header(1) \o AddBits(0, 7)
    /\ btype' = 1 /\ pc' = "done"
    /\ UNCHANGED <<block, final, costs, tokens, lengths>>

MutCheapest(c) == IF c[0] < c[1] /\ c[0] < c[2] THEN 0 ELSE IF c[1] > c[2] THEN 1 ELSE 2

Cheapest(c) == IF c[0] < c[1] /\ c[0] < c[2] THEN 0 ELSE IF c[1] < c[2] THEN 1 ELSE 2

(* Small stores, and blocks that would not get much larger, are parsed     *)
(* again for fixed codes before the choice, and measured in the memory the *)
(* dynamic lengths were in.  The store may be larger than the block.       *)
Choose(small) ==
    LET expensive == small \/ 10 * costs[1] <= 11 * costs[2]
        c == IF expensive THEN [costs EXCEPT ![1] = FixedSize(block.fixed)] ELSE costs
    IN  /\ pc = "choose" /\ tokens # <<>>
        /\ small => Len(tokens) < SmallStore
        /\ costs' = c /\ btype' = Cheapest(c)
        /\ tokens' = IF btype' = 1 /\ expensive THEN block.fixed ELSE tokens
        /\ lengths' = IF expensive THEN FixedTree ELSE lengths
        /\ pc' = IF btype' = 0 THEN "stored" ELSE "codes"
        /\ UNCHANGED <<block, final, bits>>

FixedCodes ==
    /\ pc = "codes" /\ btype = 1 /\ pc' = "data"
    /\ bits' = Header(1)
    /\ lengths' = FixedTree
    /\ UNCHANGED <<block, final, costs, btype, tokens>>

DynamicCodes ==
    /\ pc = "codes" /\ btype = 2 /\ pc' = "tree"
    /\ bits' = Header(2)
    /\ lengths' = DynamicLengths(tokens).lengths
    /\ UNCHANGED <<block, final, costs, btype, tokens>>

AddDynamicTree ==
    /\ pc = "tree" /\ pc' = "data"
    /\ bits' = bits \o TreeBits(lengths, BestTree(lengths))
    /\ UNCHANGED <<block, final, costs, btype, tokens, lengths>>

AddLZ77Data ==
    /\ pc = "data" /\ pc' = "done"
    /\ bits' = bits \o DataBits(lengths, tokens)
    /\ UNCHANGED <<block, final, costs, btype, tokens, lengths>>

Written == pc \in {"done", "stored"} /\ UNCHANGED vars

Next ==
    \/ Measure \/ WriteEmpty
    \/ \E small \in BOOLEAN : Choose(small)
    \/ FixedCodes \/ DynamicCodes \/ AddDynamicTree \/ AddLZ77Data
    \/ Written

Spec == Init /\ [][Next]_vars

-----------------------------------------------------------------------------
(* How a decoder reads a block, after RFC 1951: code words of one length   *)
(* are consecutive in the order of their symbols, shorter ones first.      *)
(* table: how many words there are of each length, and the symbols in that *)
(* order.  A read returns its value and where the next one begins.         *)
Table(ls) ==
    LET all == [n \in 1..Cardinality(DOMAIN ls) |-> n - 1]
        before(s, t) == ls[s] < ls[t] \/ (ls[s] = ls[t] /\ s < t)
        used == SelectSeq(all, LAMBDA s : ls[s] # 0)
    IN  [count |-> [n \in 1..15 |-> Len(SelectSeq(used, LAMBDA s : ls[s] = n))],
         symbol |-> SortSeq(used, before)]

(* A code is complete, unless it has one word only. *)
Complete(table) ==
    \/ Total([n \in 0..15 |-> IF n = 0 THEN 0 ELSE table.count[n] * 2 ^ (15 - n)]) = 2 ^ 15
    \/ table.count = [n \in 1..15 |-> IF n = 1 THEN 1 ELSE 0]

Read(value, next) == [value |-> value, next |-> next]

ReadBits(at, width) ==
    Read(Total([i \in 0..width |-> IF i = 0 THEN 0 ELSE bits[at + i - 1] * 2 ^ (i - 1)]), at + width)

RECURSIVE ReadWord(_, _, _, _, _, _)
ReadWord(table, at, length, word, first, passed) ==
    LET w == 2 * word + bits[at]
        n == table.count[length]
    IN  IF w - 2 * first < n THEN Read(table.symbol[passed + w - 2 * first + 1], at + 1)
        ELSE ReadWord(table, at + 1, length + 1, w, 2 * first + n, passed + n)

ReadSymbol(table, at) == ReadWord(table, at, 1, 0, 0, 0)

(* The code lengths that follow the lengths so far, n in all. *)
Unpacked(sofar, s, value) ==
    CASE s < 16 -> Append(sofar, s)
      [] s = 16 -> sofar \o [i \in 1..(3 + value) |-> Last(sofar)]
      [] s = 17 -> sofar \o [i \in 1..(3 + value) |-> 0]
      [] OTHER -> sofar \o [i \in 1..(11 + value) |-> 0]

ReadRepeat(s) == [symbol |-> s.value, rep |-> ReadBits(s.next, ExtraBits(s.value))]

RECURSIVE ReadLengths(_, _, _, _)
ReadLengths(table, at, sofar, n) ==
    LET next(e) == ReadLengths(table, e.rep.next, Unpacked(sofar, e.symbol, e.rep.value), n)
    IN  IF Len(sofar) >= n THEN Read(sofar, at) ELSE next(ReadRepeat(ReadSymbol(table, at)))

TreeRead(hlit, hdist, table, read) ==
    [wellFormed |-> Complete(table) /\ Len(read.value) = hlit + hdist + 258,
     ll |-> [s \in LLSymbols |-> IF s < hlit + 257 THEN read.value[s + 1] ELSE 0],
     d |-> [s \in DSymbols |-> IF s <= hdist THEN read.value[hlit + 258 + s] ELSE 0],
     next |-> read.next]

ReadTreeWith(hlit, hdist, hclen, table) ==
    TreeRead(hlit, hdist, table, ReadLengths(table, 18 + 3 * (hclen + 4), <<>>, hlit + hdist + 258))

ReadCodeLengths(hclen) ==
    LET sent == [s \in 0..18 |-> CHOOSE i \in 1..19 : CodeLengthOrder[i] = s]
    IN  [s \in 0..18 |-> IF sent[s] > hclen + 4 THEN 0
                          ELSE ReadBits(18 + 3 * (sent[s] - 1), 3).value]

ReadTree ==
    LET hclen == ReadBits(14, 4).value
    IN  ReadTreeWith(ReadBits(4, 5).value, ReadBits(9, 5).value, hclen, Table(ReadCodeLengths(hclen)))

(* The least value of a symbol with extra bits. *)
LengthBase(s) ==
    IF s < 265 THEN s - 254 ELSE IF s = 285 THEN 258
    ELSE (4 + ((s - 261) % 4)) * 2 ^ LengthExtraBits(s) + 3

DistBase(s) == IF s < 4 THEN s + 1 ELSE (2 + (s % 2)) * 2 ^ DistExtraBits(s) + 1

(* One token; what comes after the end symbol is not looked at. *)
ReadDist(length, ds) ==
    LET dist == ReadBits(ds.next, DistExtraBits(ds.value))
    IN  Read([litlen |-> length, dist |-> DistBase(ds.value) + dist.value], dist.next)

ReadMatch(d, s, length) ==
    ReadDist(LengthBase(s.value) + length.value, ReadSymbol(d, length.next))

ReadToken(d, s) ==
    IF s.value <= EndSymbol THEN Read([litlen |-> s.value, dist |-> 0], s.next)
    ELSE ReadMatch(d, s, ReadBits(s.next, LengthExtraBits(s.value)))

RECURSIVE ReadTokens(_, _, _, _)
ReadTokens(ll, d, at, sofar) ==
    LET next(t) == IF t.value.litlen = EndSymbol /\ t.value.dist = 0 THEN Read(sofar, t.next)
                   ELSE ReadTokens(ll, d, t.next, Append(sofar, t.value))
    IN  next(ReadToken(d, ReadSymbol(ll, at)))

ReadBlock(tree, ll, d) ==
    /\ tree.wellFormed
    /\ Complete(ll) /\ Complete(d) /\ Cardinality(Used(tree.d)) >= 2
    /\ ReadTokens(ll, d, tree.next, <<>>) = Read(tokens, Len(bits) + 1)

ReadWith(tree) == ReadBlock(tree, Table(tree.ll), Table(tree.d))

(* What is written is read back: a decoder finds the final bit, complete   *)
(* codes, two words at least for the distances (patchDistanceCodes-        *)
(* ForBuggyDecoders), and with them the tokens of the store and the end of *)
(* the block at the last bit.  It is what RLE over the boundary of the two *)
(* alphabets, evened counts, trailing zeros, the tables of extra bits and  *)
(* the order of bits may break (encodeTree, addLZ77Data).                  *)
BlockIsRead ==
    pc = "done" =>
        /\ SubSeq(bits, 1, 3) = Header(btype)
        /\ ReadWith(IF btype = 2 THEN ReadTree
                    ELSE [wellFormed |-> TRUE, ll |-> FixedTree.ll, d |-> FixedTree.d, next |-> 4])

(* A measured block of a code takes as many bits as it was counted with    *)
(* when its type was chosen, whether its symbols were summed up by token   *)
(* or by count and whichever code lengths and form of the tree won, and    *)
(* none of the types was counted with fewer (calculateBlockSize).  What a  *)
(* stored block is counted with is an estimate, whatever the place in a    *)
(* byte where it begins; its bits are not compared.                        *)
CostIsWritten ==
    pc = "done" /\ tokens # <<>> /\ costs[0] # 0 =>
        /\ Len(bits) = costs[btype]
        /\ \A type \in 0..2 : costs[btype] <= costs[type]

=============================================================================
