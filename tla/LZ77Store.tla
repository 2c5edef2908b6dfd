------------------------------ MODULE LZ77Store ------------------------------
(***************************************************************************)
(* The store of a parsed block (lz77Store, lz77.go): its literals and      *)
(* matches, and counts of their symbols that make the histogram of any     *)
(* range cheap.  Behind every NumLL tokens the counts so far are kept (and *)
(* behind every NumD tokens those of the distances), so the histogram up   *)
(* to a token is that of its chunk less the tokens of the chunk behind it, *)
(* and the one of a range the difference of two.                           *)
(*                                                                         *)
(* The code keeps a token's fields in arrays of their own, each as long as *)
(* the store; the token here is the record of them.                        *)
(***************************************************************************)
EXTENDS Integers, Sequences, FiniteSets

CONSTANTS
    NumLL, NumD,            \* symbols of each alphabet, and tokens of a chunk
    Literals,               \* bytes
    Lengths, Dists,         \* of matches
    LengthSymbol(_),        \* getLengthSymbol, getDistSymbol
    DistSymbol(_),
    MaxTokens,              \* bound on the tokens of a store
    MaxAppended             \* bound on the tokens of an appended store

ASSUME StoreAssumption ==
    /\ NumLL \in Nat \ {0} /\ NumD \in Nat \ {0}
    /\ Literals \subseteq 0..(NumLL - 1) /\ Lengths \subseteq Nat \ {0}
    /\ Dists \subseteq Nat \ {0}
    /\ \A n \in Lengths : LengthSymbol(n) \in 0..(NumLL - 1)
    /\ \A n \in Dists : DistSymbol(n) \in 0..(NumD - 1)
    /\ MaxTokens \in Nat /\ MaxAppended \in Nat

VARIABLES
    tokens,             \* litlens, dists and pos
    llCounts, dCounts   \* one histogram for each chunk begun

vars == <<tokens, llCounts, dCounts>>

-----------------------------------------------------------------------------
LLSymbols == 0..(NumLL - 1)
DSymbols == 0..(NumD - 1)

(* A literal has distance 0. *)
Kinds == [litlen: Literals, dist: {0}] \cup [litlen: Lengths, dist: Dists]

Bytes(t) == IF t.dist = 0 THEN 1 ELSE t.litlen
LLSymbol(t) == IF t.dist = 0 THEN t.litlen ELSE LengthSymbol(t.litlen)

Store == [tokens |-> tokens, llCounts |-> llCounts, dCounts |-> dCounts]

Zero(symbols) == [s \in symbols |-> 0]

MutEnsureChunk(counts, size, chunk, symbols) ==
    IF size % chunk = 0 THEN Append(counts, Zero(symbols)) ELSE counts

(* ensureHistogramChunk: a chunk starts with the counts of the one before. *)
EnsureChunk(counts, size, chunk, symbols) ==
    IF size % chunk # 0 THEN counts
    ELSE Append(counts, IF size = 0 THEN Zero(symbols) ELSE counts[size \div chunk])

(* storeLitLenDist; token n (from 0) belongs to chunk n \div NumLL. *)
StoreLitLenDist(s, t) ==
    LET size == Len(s.tokens)
        ll == EnsureChunk(s.llCounts, size, NumLL, LLSymbols)
        d == EnsureChunk(s.dCounts, size, NumD, DSymbols)
    IN  [tokens |-> Append(s.tokens, t),
         llCounts |-> [ll EXCEPT ![size \div NumLL + 1][LLSymbol(t)] = @ + 1],
         dCounts |-> IF t.dist = 0 THEN d
                     ELSE [d EXCEPT ![size \div NumD + 1][DistSymbol(t.dist)] = @ + 1]]

(* How often a symbol occurs among the tokens a..b - 1, counted from 0. *)
CountLL(a, b, s) == Cardinality({n \in a..(b - 1) : LLSymbol(tokens[n + 1]) = s})
CountD(a, b, s) ==
    Cardinality({n \in a..(b - 1) :
                    tokens[n + 1].dist # 0 /\ DistSymbol(tokens[n + 1].dist) = s})

Smaller(a, b) == IF a < b THEN a ELSE b

(* histogramAt: the symbols of the tokens 0..n. *)
HistogramAt(n) ==
    LET behind(chunk) == Smaller(chunk * (n \div chunk) + chunk, Len(tokens))
    IN  [ll |-> [s \in LLSymbols |->
                    llCounts[n \div NumLL + 1][s] - CountLL(n + 1, behind(NumLL), s)],
         d |-> [s \in DSymbols |->
                    dCounts[n \div NumD + 1][s] - CountD(n + 1, behind(NumD), s)]]

(* The symbols of the tokens lstart..lend - 1, one by one. *)
Counted(lstart, lend) ==
    [ll |-> [s \in LLSymbols |-> CountLL(lstart, lend, s)],
     d |-> [s \in DSymbols |-> CountD(lstart, lend, s)]]

(* histogram: a short range is counted. *)
Histogram(lstart, lend) ==
    LET upto == HistogramAt(lend - 1)
        before == HistogramAt(lstart - 1)
    IN  IF lstart + 3 * NumLL > lend THEN Counted(lstart, lend)
        ELSE IF lstart = 0 THEN upto
        ELSE [ll |-> [s \in LLSymbols |-> upto.ll[s] - before.ll[s]],
              d |-> [s \in DSymbols |-> upto.d[s] - before.d[s]]]

MutByteRange(lstart, lend) ==
    IF lstart = lend THEN 0
    ELSE tokens[lend].pos + tokens[lend].litlen - tokens[lstart + 1].pos

(* byteRange, from the positions of the first token and the last. *)
ByteRange(lstart, lend) ==
    IF lstart = lend THEN 0
    ELSE tokens[lend].pos + Bytes(tokens[lend]) - tokens[lstart + 1].pos

-----------------------------------------------------------------------------
(* Where the next token begins: the parsers store the tokens of adjacent   *)
(* bytes, and the stores of adjacent blocks are appended in order.         *)
NextPos(ts) == IF ts = <<>> THEN 0 ELSE ts[Len(ts)].pos + Bytes(ts[Len(ts)])

StoreNext(s, kind) ==
    StoreLitLenDist(s, [litlen |-> kind.litlen, dist |-> kind.dist, pos |-> NextPos(s.tokens)])

Init == tokens = <<>> /\ llCounts = <<>> /\ dCounts = <<>>

Becomes(s) == tokens' = s.tokens /\ llCounts' = s.llCounts /\ dCounts' = s.dCounts

(* A parser stores a literal or a match. *)
Push(kind) ==
    /\ Len(tokens) < MaxTokens
    /\ Becomes(StoreNext(Store, kind))

(* appendStore of the store of the next block. *)
AppendStore(kinds) ==
    LET upTo[n \in 0..Len(kinds)] ==
          IF n = 0 THEN Store ELSE StoreNext(upTo[n - 1], kinds[n])
    IN  /\ Len(tokens) + Len(kinds) <= MaxTokens
        /\ Becomes(upTo[Len(kinds)])

(* reset, for the parse of the next iteration. *)
Reset ==
    /\ tokens # <<>>
    /\ tokens' = <<>> /\ llCounts' = <<>> /\ dCounts' = <<>>

Next ==
    \/ \E kind \in Kinds : Push(kind)
    \/ \E n \in 2..MaxAppended : \E kinds \in [1..n -> Kinds] : AppendStore(kinds)
    \/ Reset

Spec == Init /\ [][Next]_vars

-----------------------------------------------------------------------------
(* The chunked counts give for every range what counting its tokens does,  *)
(* whatever chunks the range begins and ends in (histogram, histogramAt):  *)
(* the entropy of the parser, the block sizes and the Huffman codes of     *)
(* each block are computed from these histograms.                          *)
HistogramExact ==
    \A lstart, lend \in 0..Len(tokens) :
        lstart <= lend => Histogram(lstart, lend) = Counted(lstart, lend)

(* The bytes of the tokens lstart..lend - 1, added up one by one. *)
BytesOf(lstart, lend) ==
    LET sum[n \in 0..(lend - lstart)] ==
          IF n = 0 THEN 0 ELSE sum[n - 1] + Bytes(tokens[lstart + n])
    IN  sum[lend - lstart]

(* The bytes of a range, which deflate takes as those of a stored block,   *)
(* are those of its tokens (byteRange), over appended stores as well.      *)
BytesExact ==
    \A lstart, lend \in 0..Len(tokens) :
        lstart <= lend => ByteRange(lstart, lend) = BytesOf(lstart, lend)

=============================================================================
