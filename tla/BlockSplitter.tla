---------------------------- MODULE BlockSplitter ----------------------------
(***************************************************************************)
(* The block splitter (blockSplitLZ77WithScratch, blocksplitter.go).  It   *)
(* splits the largest block not yet done at the token where the two halves *)
(* cost least, or marks it done when that costs more than the block as it  *)
(* is, until the blocks are done, too small, or as many as allowed.  The   *)
(* cost of a block (estimateCost) is data: cost[a, b] for tokens a..b - 1. *)
(***************************************************************************)
EXTENDS Integers, Sequences, FiniteSets, FiniteSetsExt, SequencesExt

CONSTANTS
    Sizes,          \* tokens of the store
    Costs(_),       \* for a size, the costs of its ranges
    Limits,         \* maxBlocks; at most 0 for no limit
    MinSplit,       \* 10, tokens of a block that may be split
    Linear,         \* 1024, candidates that are tried one by one
    Samples,        \* 9, candidates tried of a longer range
    LargeFloat,     \* more than any cost
    TokenBytes(_)   \* bytes token k (from 0) stands for

ASSUME SplitterAssumption ==
    /\ Sizes \subseteq Nat /\ Limits \subseteq Int
    /\ MinSplit \in Nat \ {0, 1, 2} /\ Linear \in Nat /\ Samples \in Nat \ {0, 1}
    /\ LargeFloat \in Nat
    /\ \A n \in Sizes : \A k \in 0..(n - 1) : TokenBytes(k) \in Nat \ {0}

ASSUME CostsAssumption ==
    \A n \in Sizes : \A c \in Costs(n) :
        \A a, b \in 0..n : a < b => c[a, b] \in Nat /\ 2 * c[a, b] < LargeFloat

VARIABLES
    lz77Size, cost, maxBlocks,  \* the call
    pc,                     \* split, locate, return
    lstart, lend,           \* the block to be split
    done,                   \* starts of the blocks that are done
    splitPoints,            \* sorted
    numBlocks,
    result                  \* the points as bytes

splitterVars ==
    <<lz77Size, cost, maxBlocks, pc, lstart, lend, done, splitPoints, numBlocks, result>>
call == <<lz77Size, cost, maxBlocks>>

-----------------------------------------------------------------------------
(* The first of the candidates with the least value. *)
FirstLeast(f, candidates) ==
    Min({k \in candidates : \A j \in candidates : f[k] <= f[j]})

(* The range that is left of a long one, and the best sample so far.       *)
Rounds(start, end) == [start: start..end, end: start..end, pos: start..end, best: Nat]

(* One round of the search in a long range, which narrows it to what lies  *)
(* around the best of some samples, as long as these get no worse.         *)
Narrow(f, start, end) ==
    [r \in Rounds(start, end) |->
        LET p == [k \in 1..Samples |-> r.start + k * ((r.end - r.start) \div (Samples + 1))]
            k == FirstLeast([n \in 1..Samples |-> f[p[n]]], 1..Samples)
        IN  IF r.end - r.start <= Samples \/ f[p[k]] > r.best
            THEN r
            ELSE [start |-> IF k > 1 THEN p[k - 1] ELSE r.start,
                  end |-> IF k < Samples THEN p[k + 1] ELSE r.end,
                  pos |-> p[k], best |-> f[p[k]]]]

(* findMinimum of f over start..end - 1: in a short range the first least, *)
(* in a long one what the rounds end with; each that goes on is shorter.   *)
FindMinimum(f, start, end) ==
    LET round[n \in 0..(end - start)] ==
          IF n = 0 THEN [start |-> start, end |-> end, pos |-> start, best |-> LargeFloat]
          ELSE Narrow(f, start, end)[round[n - 1]]
        last == round[end - start]
        pos == IF start < end THEN FirstLeast(f, start..(end - 1)) ELSE start
    IN  IF end - start < Linear
        THEN [pos |-> pos, best |-> IF start < end THEN f[pos] ELSE LargeFloat]
        ELSE [pos |-> last.pos, best |-> last.best]

(* splitCost *)
SplitCost(a, b) == [k \in (a + 1)..(b - 1) |-> cost[a, k] + cost[k, b]]

(* The blocks between the points; the code has the last one end one token  *)
(* early.                                                                  *)
BlockEnds(points) ==
    {<<IF n = 0 THEN 0 ELSE points[n],
       IF n = Len(points) THEN lz77Size - 1 ELSE points[n + 1]>> : n \in 0..Len(points)}

MutSplittable(d, points) == {b \in BlockEnds(points) : b[2] > b[1]}

(* findLargestSplittableBlock: the first of the largest that are not done. *)
Splittable(d, points) == {b \in BlockEnds(points) : b[1] \notin d /\ b[2] > b[1]}
MutLargest(blocks) == CHOOSE b \in blocks : \A o \in blocks : b[1] <= o[1]

Largest(blocks) ==
    CHOOSE b \in blocks :
        \A o \in blocks : \/ b[2] - b[1] > o[2] - o[1]
                          \/ b[2] - b[1] = o[2] - o[1] /\ b[1] <= o[1]

(* addSorted: the value is put behind the points, and all are sorted. *)
AddSorted(value, points) ==
    LET all == Append(points, value)
        sorted(p) == \A i, j \in DOMAIN all : i < j => all[p[i]] <= all[p[j]]
        order == CHOOSE p \in Bijection(DOMAIN all, DOMAIN all) : sorted(p)
    IN  [k \in DOMAIN all |-> all[order[k]]]

Allowed(blocks) == maxBlocks <= 0 \/ blocks < maxBlocks

-----------------------------------------------------------------------------
(* A store of fewer than MinSplit tokens is one block. *)
SplitterInit ==
    /\ lz77Size \in Sizes /\ cost \in Costs(lz77Size) /\ maxBlocks \in Limits
    /\ lstart = 0 /\ lend = lz77Size
    /\ done = {} /\ splitPoints = <<>> /\ numBlocks = 1
    /\ result = <<>>
    /\ pc = IF lz77Size < MinSplit \/ ~Allowed(1) THEN "locate" ELSE "split"

(* The block to be split next, if there is one that is large enough. *)
NextBlock(d, points, blocks) ==
    LET left == Splittable(d, points)
    IN  /\ lstart' = IF left = {} THEN 0 ELSE Largest(left)[1]
        /\ lend' = IF left = {} THEN 0 ELSE Largest(left)[2]
        /\ pc' = IF left # {} /\ lend' - lstart' >= MinSplit /\ Allowed(blocks)
                 THEN "split" ELSE "locate"
        /\ UNCHANGED result

Found == FindMinimum(SplitCost(lstart, lend), lstart + 1, lend)

(* A split off of one token is none. *)
WorthSplitting ==
    Found.best <= cost[lstart, lend] /\ Found.pos # lstart + 1 /\ Found.pos # lend

MutSplit ==
    /\ pc = "split" /\ WorthSplitting
    /\ splitPoints' = Append(splitPoints, Found.pos)
    /\ numBlocks' = numBlocks + 1
    /\ UNCHANGED <<done, call>>
    /\ NextBlock(done, splitPoints', numBlocks')

Split ==
    /\ pc = "split" /\ WorthSplitting
    /\ splitPoints' = AddSorted(Found.pos, splitPoints)
    /\ numBlocks' = numBlocks + 1
    /\ UNCHANGED <<done, call>>
    /\ NextBlock(done, splitPoints', numBlocks')

MarkDone ==
    /\ pc = "split" /\ ~WorthSplitting
    /\ done' = done \cup {lstart}
    /\ UNCHANGED <<splitPoints, numBlocks, call>>
    /\ NextBlock(done', splitPoints, numBlocks)

(* The byte before token k, counted from the start of the block. *)
ByteAt(k) == MapThenSumSet(TokenBytes, 0..(k - 1))

(* The end of blockSplitWithScratch: one walk over the tokens that looks   *)
(* for one point after another.                                            *)
Locate ==
    LET walk[k \in 0..lz77Size] ==
          IF k = 0 THEN <<>>
          ELSE LET located == walk[k - 1]
                   next == Len(located) + 1
               IN  IF next <= Len(splitPoints) /\ splitPoints[next] = k - 1
                   THEN Append(located, ByteAt(k - 1))
                   ELSE located
    IN  /\ pc = "locate" /\ pc' = "return"
        /\ result' = walk[lz77Size]
        /\ UNCHANGED <<call, lstart, lend, done, splitPoints, numBlocks>>

Returned == pc = "return" /\ UNCHANGED splitterVars

SplitterNext == Split \/ MarkDone \/ Locate \/ Returned

SplitterSpec ==
    SplitterInit /\ [][SplitterNext]_splitterVars /\ WF_splitterVars(Split \/ MarkDone \/ Locate)

-----------------------------------------------------------------------------
(* The points increase, none is an end of the store, there are no more     *)
(* blocks than allowed, and the walk finds each point: deflatePart takes   *)
(* them as the ends of its blocks (blockSplitWithScratch).                 *)
PointsInOrder ==
    /\ \A k \in 1..Len(splitPoints) :
          splitPoints[k] \in 1..(lz77Size - 1) /\ (k > 1 => splitPoints[k - 1] < splitPoints[k])
    /\ maxBlocks > 0 => Len(splitPoints) + 1 <= maxBlocks
    /\ pc = "return" => result = [k \in 1..Len(splitPoints) |-> ByteAt(splitPoints[k])]

(* Unless the blocks are as many as allowed, each one that is large enough *)
(* was looked at and found not worth splitting: done is kept by start, and *)
(* a start is not used for another block later (findLargestSplittableBlock).*)
NothingLeft ==
    pc # "split" /\ lz77Size >= MinSplit /\ Allowed(numBlocks) =>
        \A b \in BlockEnds(splitPoints) :
            b[2] - b[1] >= MinSplit =>
                LET e == IF Len(splitPoints) = 0 THEN lz77Size ELSE b[2]
                    m == FindMinimum(SplitCost(b[1], e), b[1] + 1, e)
                IN  m.best > cost[b[1], e] \/ m.pos = b[1] + 1

(* The splitter ends: each round splits a block or marks one done. *)
Returns == <>(pc = "return")

=============================================================================
