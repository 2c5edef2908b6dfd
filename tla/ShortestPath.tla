---------------------------- MODULE ShortestPath ----------------------------
(***************************************************************************)
(* One iteration of the optimal parser (lz77OptimalRunStat and             *)
(* lz77OptimalRunFixed, squeeze.go): a dynamic programme finds for every   *)
(* byte of a block the cheapest way to get there by literals and matches,  *)
(* the lengths it took are traced back from the end, and the path is       *)
(* followed again to store its tokens.                                     *)
(*                                                                         *)
(* The matches of a position are what a search or the complete cache       *)
(* answers: for each length the nearest distance (HashChain checks that of *)
(* the search, LongestMatchCache that of the cache).  Costs are integers;  *)
(* the code adds floating-point numbers.                                   *)
(***************************************************************************)
EXTENDS Integers, Sequences, FiniteSetsExt

CONSTANTS
    MinMatch, MaxMatch,     \* 3, 258
    CacheLength,            \* 8, the runs of a compact answer
    LargeFloat,
    MaxCost,                \* of a token
    SymbolEnd(_),           \* the longest length with the same length symbol
    Blocks                  \* [array, start, model]: a block behind other
                            \* bytes, and a code; of the model, fixed and the
                            \* costs of a literal, a length and a distance

ASSUME LengthAssumption ==
    /\ MinMatch \in Nat /\ MaxMatch \in Nat /\ 1 < MinMatch /\ MinMatch < MaxMatch
    /\ CacheLength \in Nat

(* A block is not empty, and its cost is less than the one that stands for *)
(* a byte not reached (largeFloat is 1e30).                                *)
ASSUME CostAssumption ==
    /\ LargeFloat \in Nat /\ MaxCost \in Nat
    /\ \A b \in Blocks :
          /\ b.array \in Seq(Nat) /\ b.start \in 0..(Len(b.array) - 1)
          /\ Len(b.array) * MaxCost < LargeFloat
          /\ b.model.fixed \in BOOLEAN
          /\ \A n \in 1..Len(b.array) : b.model.literal[b.array[n]] \in 0..MaxCost
          /\ \A k \in MinMatch..MaxMatch : b.model.length[k] \in Nat
          /\ \A d \in 1..Len(b.array) : b.model.distance[d] \in Nat
          /\ \A k \in MinMatch..MaxMatch, d \in 1..Len(b.array) :
                b.model.length[k] + b.model.distance[d] <= MaxCost
          /\ \A k, l \in MinMatch..MaxMatch :
                b.model.fixed /\ SymbolEnd(k) = SymbolEnd(l)
                    => b.model.length[k] = b.model.length[l]

VARIABLES
    block,
    pc,         \* relax, trace, follow
    pos,        \* bytes of the block before the next one to look at
    costs,      \* of getting past so many bytes
    lengthArray,\* the length of the last token on the way there
    path,       \* lengths from the first to the last token
    store       \* the tokens

vars == <<block, pc, pos, costs, lengthArray, path, store>>

-----------------------------------------------------------------------------
BlockSize(b) == Len(b.array) - b.start
Ends(b) == 0..BlockSize(b)
Byte(b, j) == b.array[b.start + j + 1]

(* Bytes that agree at j and dist before it, and the bytes after j that    *)
(* repeat its own.                                                         *)
Common(b, j, dist) ==
    Min({l \in 0..(BlockSize(b) - j) :
            l = BlockSize(b) - j \/ Byte(b, j + l) # Byte(b, j - dist + l)})

Same(b, j) == IF j + 1 = BlockSize(b) THEN 0 ELSE Common(b, j + 1, 1)

(* The matches at j: the longest length, 0 without one, and the distances. *)
Distances(b, j, k) == {d \in 1..(b.start + j) : Common(b, j, d) >= k}
Longest(b, j) == Max({0} \cup {k \in MinMatch..MaxMatch : Distances(b, j, k) # {}})
Distance(b, j, k) == Min(Distances(b, j, k))

(* Ranges of lengths with one distance, by their ends.                     *)
Runs(b, j) ==
    LET longest == Longest(b, j)
        upTo[k \in 0..longest] ==
          IF k < MinMatch THEN <<>>
          ELSE IF k < longest /\ Distance(b, j, k + 1) = Distance(b, j, k) THEN upTo[k - 1]
          ELSE Append(upTo[k - 1], [end |-> k, dist |-> Distance(b, j, k)])
    IN  upTo[longest]

(* compactSublen fills up what is left of its arrays. *)
Padding(b, j) == [end |-> Longest(b, j), dist |-> 0]
Compact(b, j, runs) == runs \o [n \in 1..(CacheLength - Len(runs)) |-> Padding(b, j)]

(* The answers the loop over the runs may be given.                        *)
Answers(b, j) ==
    LET runs == Runs(b, j)
    IN  {runs} \cup (IF Len(runs) \in 1..CacheLength THEN {Compact(b, j, runs)} ELSE {})

-----------------------------------------------------------------------------
(* A candidate cost for the position k bytes on from j, taken if lower.    *)
Improve(c, j, k, cost) ==
    IF cost < c.costs[j + k]
    THEN [costs |-> [c.costs EXCEPT ![j + k] = cost],
          lengths |-> [c.lengths EXCEPT ![j + k] = k]]
    ELSE c

(* The cheapest length term of any match of n bytes or more. *)
LengthCostSuffixMin(b, n) == Min({b.model.length[k] : k \in n..MaxMatch})

MutFirstImprovable(c, j, from, to, threshold) ==
    Min({to + 1} \cup {k \in from..to : c.costs[j + k] < threshold})

(* The first length whose cost is above the threshold. *)
FirstImprovable(c, j, from, to, threshold) ==
    Min({to + 1} \cup {k \in from..to : c.costs[j + k] > threshold})

(* The run that a length belongs to: each one starts behind the one        *)
(* before, and what pads the answer adds nothing.                          *)
RunOf(runs, k) == Min({n \in 1..Len(runs) : runs[n].end >= k})
RunStart(runs, n) == IF n = 1 THEN MinMatch ELSE runs[n - 1].end + 1

(* relaxStatLengths leaves out the lengths of a run that cannot get        *)
(* cheaper.                                                                *)
Skipped(b, c, j, runs, k) ==
    LET n == RunOf(runs, k)
        base == c.costs[j] + b.model.distance[runs[n].dist]
    IN  k < FirstImprovable(c, j, RunStart(runs, n), runs[n].end,
                            base + LengthCostSuffixMin(b, RunStart(runs, n)))

(* relaxFixedLengthRanges: one cost for each length symbol, that of the    *)
(* first length.                                                           *)
SegmentStart(from, k) == Min({l \in from..k : SymbolEnd(l) = SymbolEnd(k)})

Candidate(b, c, j, runs, k) ==
    LET n == RunOf(runs, k)
    IN  c.costs[j] + b.model.distance[runs[n].dist]
            + b.model.length[IF b.model.fixed THEN SegmentStart(RunStart(runs, n), k) ELSE k]

(* The loop over the runs and their lengths, each of which is a place of   *)
(* its own in the arrays.                                                  *)
RelaxMatches(b, c, j, runs) ==
    LET improved == {k \in MinMatch..Longest(b, j) :
                       /\ b.model.fixed \/ ~Skipped(b, c, j, runs, k)
                       /\ Candidate(b, c, j, runs, k) < c.costs[j + k]}
    IN  [costs |-> [i \in Ends(b) |->
            IF i - j \in improved THEN Candidate(b, c, j, runs, i - j) ELSE c.costs[i]],
         lengths |-> [i \in Ends(b) |-> IF i - j \in improved THEN i - j ELSE c.lengths[i]]]

MutJump(b, j) ==
    Same(b, j) > MaxMatch * 2 /\ j > MaxMatch + 1 /\ j + MaxMatch * 2 + 1 < BlockSize(b)

(* Inside a long run the longest match of its byte is taken unseen, from   *)
(* MaxMatch bytes, one after the other.                                    *)
Jump(b, j) ==
    /\ Same(b, j) > MaxMatch * 2 /\ j > MaxMatch + 1 /\ j + MaxMatch * 2 + 1 < BlockSize(b)
    /\ Same(b, j - MaxMatch) > MaxMatch

(* The bytes it is taken from are before those it leads to.                *)
Jumped(b, c, j) ==
    LET reached == (j + MaxMatch)..(j + 2 * MaxMatch - 1)
        cost == b.model.length[MaxMatch] + b.model.distance[1]
    IN  [costs |-> [i \in Ends(b) |-> IF i \in reached THEN c.costs[i - MaxMatch] + cost
                                      ELSE c.costs[i]],
         lengths |-> [i \in Ends(b) |-> IF i \in reached THEN MaxMatch ELSE c.lengths[i]]]

(* One byte of getBestLengthsStat or getBestLengthsFixed: its literal, and *)
(* its matches.                                                            *)
RelaxByte(b, c, j, runs) ==
    RelaxMatches(b, Improve(c, j, 1, c.costs[j] + b.model.literal[Byte(b, j)]), j, runs)

-----------------------------------------------------------------------------
(* The lengths of an earlier block are still in memory. *)
Init ==
    /\ block \in Blocks
    /\ pc = "relax" /\ pos = 0
    /\ costs = [k \in Ends(block) |-> IF k = 0 THEN 0 ELSE LargeFloat]
    /\ \E old \in {0, MaxMatch} : lengthArray = [k \in Ends(block) |-> IF k = 0 THEN 0 ELSE old]
    /\ path = <<>> /\ store = <<>>

Relax ==
    LET given == [costs |-> costs, lengths |-> lengthArray]
        jump == ~block.model.fixed /\ Jump(block, pos)
        j == IF jump THEN pos + MaxMatch ELSE pos
        c == IF jump THEN Jumped(block, given, pos) ELSE given
    IN  /\ pc = "relax" /\ pos < BlockSize(block)
        /\ \E runs \in Answers(block, j) :
              LET all == RelaxByte(block, c, j, runs)
              IN  costs' = all.costs /\ lengthArray' = all.lengths
        /\ pos' = j + 1
        /\ UNCHANGED <<block, pc, path, store>>

Relaxed ==
    /\ pc = "relax" /\ pos = BlockSize(block)
    /\ pc' = "trace"
    /\ UNCHANGED <<block, pos, costs, lengthArray, path, store>>

(* traceBackwards: the last length still missing comes first. *)
Trace ==
    /\ pc = "trace"
    /\ path' = <<lengthArray[pos]>> \o path
    /\ pos' = pos - lengthArray[pos]
    /\ pc' = IF pos' = 0 THEN "follow" ELSE "trace"
    /\ UNCHANGED <<block, costs, lengthArray, store>>

(* A match of the path takes the distance that is found for its length.    *)
TokenAt(b, j, length) ==
    IF length >= MinMatch THEN [pos |-> j, length |-> length, dist |-> Distance(b, j, length)]
    ELSE [pos |-> j, length |-> 1, dist |-> 0]

(* followPath. *)
Follow ==
    /\ pc = "follow" /\ path # <<>>
    /\ LET token == TokenAt(block, pos, Head(path))
       IN  store' = Append(store, token) /\ pos' = pos + token.length
    /\ path' = Tail(path)
    /\ UNCHANGED <<block, pc, costs, lengthArray>>

Followed == pc = "follow" /\ path = <<>> /\ UNCHANGED vars

Next == Relax \/ Relaxed \/ Trace \/ Follow \/ Followed

Spec == Init /\ [][Next]_vars

-----------------------------------------------------------------------------
(* What a token at j for k bytes costs. *)
TokenCost(b, j, k) ==
    IF k = 1 THEN b.model.literal[Byte(b, j)]
    ELSE b.model.length[k] + b.model.distance[Distance(b, j, k)]

TokensAt(b, j) == {1} \cup MinMatch..Longest(b, j)

(* The least cost of the rest of the block behind each of its bytes, from  *)
(* the last byte to the first.                                             *)
Cheapest(b) ==
    LET from(rest, j) ==
          [rest EXCEPT ![j] = Min({TokenCost(b, j, k) + rest[j + k] : k \in TokensAt(b, j)})]
        behind[n \in 0..BlockSize(b)] ==
          IF n = 0 THEN [j \in Ends(b) |-> 0]
          ELSE from(behind[n - 1], BlockSize(b) - n)
    IN  behind[BlockSize(b)]

(* The cost of the block is that of its cheapest parse, though candidates  *)
(* are skipped against a bound (firstImprovableLength), taken for a range  *)
(* of lengths at once (relaxFixedLengthRanges) and read from padded arrays *)
(* (compactSublen).  Only the step through a long run may miss it, and     *)
(* then the cost is too high, never too low.                               *)
CheapestParse ==
    pc = "trace" /\ pos = BlockSize(block) =>
        /\ costs[pos] >= Cheapest(block)[0]
        /\ block.model.fixed \/ (\A j \in 0..(pos - 1) : ~Jump(block, j)) =>
                costs[pos] = Cheapest(block)[0]

(* The cost of the tokens of the store, one by one.                        *)
StoreCost ==
    LET upTo[n \in 0..Len(store)] ==
          IF n = 0 THEN 0 ELSE upTo[n - 1] + TokenCost(block, store[n].pos, store[n].length)
    IN  upTo[Len(store)]

(* The tokens that are stored cover the block, each is a byte or a match   *)
(* that is there, and together they cost what the search said: the path is *)
(* traced from lengths alone, and the distances are looked up again        *)
(* (followPath), also in a run that was stepped through unseen.            *)
StoreHasItsCost ==
    pc = "follow" /\ path = <<>> =>
        LET end(n) == store[n].pos + store[n].length
        IN  /\ store[1].pos = 0 /\ end(Len(store)) = BlockSize(block)
            /\ \A n \in 1..(Len(store) - 1) : store[n + 1].pos = end(n)
            /\ \A n \in 1..Len(store) :
                  store[n].dist # 0 => Common(block, store[n].pos, store[n].dist) >= store[n].length
            /\ costs[BlockSize(block)] = StoreCost

=============================================================================
