-------------------------- MODULE LongestMatchCache --------------------------
(***************************************************************************)
(* The longest-match cache of a block (cache.go) with the code that fills  *)
(* and asks it (lz77.go, squeeze.go).  A full search at a position gives a *)
(* distance for every length up to the longest match; the cache keeps the  *)
(* lengths at which the distance changes as runs in one arena shared by    *)
(* all positions, within a budget.  When the budget is used up the block   *)
(* is parsed without a complete cache, and positions are searched again.   *)
(* A cache is used for one block after another, over the same memory.      *)
(*                                                                         *)
(* What the search finds is data: Found(b, p), the distances for lengths   *)
(* MinMatch, MinMatch+1, ... at position p of block b, and Same(b, p), the  *)
(* bytes behind p that repeat it, which the hash counts.                   *)
(***************************************************************************)
EXTENDS Integers, Sequences, FiniteSets, SequencesExt

CONSTANTS
    MinMatch, MaxMatch,
    CacheLength,        \* runs of the compact form
    MinCapacity,        \* 64, capacity of the first arena
    Blocks,             \* the blocks
    Size(_),            \* positions of a block
    Found(_, _),        \* the distances at a position
    Same(_, _),         \* the length of the run that starts there
    Budgets,            \* run budgets
    MaxSize,            \* bound on Size
    MaxBlocks           \* bound on blocks parsed with one cache

ASSUME LengthsAssumption ==
    /\ MinMatch \in Nat /\ MinMatch > 2 /\ MaxMatch \in Nat /\ MaxMatch >= MinMatch
    /\ CacheLength \in Nat /\ MinCapacity \in Nat \ {0}
    /\ MaxSize \in Nat /\ MaxBlocks \in Nat
    /\ Budgets \subseteq Nat

ASSUME BlocksAssumption ==
    \A b \in Blocks :
        /\ Size(b) \in 0..MaxSize
        /\ \A p \in 0..(Size(b) - 1) : Same(b, p) \in Nat
        /\ \A p \in 0..(Size(b) - 1) :
              /\ Found(b, p) \in Seq(Nat \ {0})
              /\ Found(b, p) # <<>> =>
                    Len(Found(b, p)) + MinMatch - 1 <= MaxMatch
              /\ Found(b, p) # <<>> =>
                    Len(Found(b, p)) + MinMatch - 1 <= Size(b) - p

(* Lengths that encode the state of an entry. *)
NoMatch == 0
Unfilled == 1
Incomplete == 2

Positions == 0..(MaxSize - 1)

VARIABLES
    pc,         \* idle, build, parse
    block,      \* the block the cache is used for
    at,         \* position to be built next
    length, dist, same, runCount, runStart,     \* the entries
    room,       \* capacity of their arrays
    runs,       \* the arena
    capacity,   \* its capacity
    runBudget, exceeded, built,
    allComplete,
    answer,     \* what the parser last got from the cache or the search
    rounds      \* blocks started

entries == <<length, dist, same, runCount, runStart, room>>
arena == <<runs, capacity, runBudget, exceeded>>
vars == <<pc, block, at, entries, arena, built, allComplete, answer, rounds>>

-----------------------------------------------------------------------------
Smaller(a, b) == IF a < b THEN a ELSE b
Larger(a, b) == IF a > b THEN a ELSE b

InBlock == 0..(Size(block) - 1)

Longest(d) == IF d = <<>> THEN 0 ELSE Len(d) + MinMatch - 1

(* The runs of equal distance, each up to the length it ends with. *)
RunsOf(d) ==
    LET upTo[k \in 0..Len(d)] ==
          IF k = 0 THEN <<>>
          ELSE IF k < Len(d) /\ d[k + 1] = d[k] THEN upTo[k - 1]
          ELSE Append(upTo[k - 1], [end |-> k + MinMatch - 1, dist |-> d[k]])
    IN  upTo[Len(d)]

(* ensureRunCapacity, for a required capacity within the budget: twice the *)
(* old one, at least MinCapacity, at most the budget.                      *)
Grown(c, required) ==
    LET wanted == IF 2 * c < MinCapacity THEN Smaller(MinCapacity, runBudget) ELSE 2 * c
    IN  Smaller(Larger(wanted, required), runBudget)

MutCapacityAfter(n) ==
    LET c[k \in 0..n] ==
          IF k = 0 THEN capacity
          ELSE LET before == c[k - 1]
                   required == Len(runs) + k
               IN  IF before = -1 THEN -1
                   ELSE IF required >= runBudget THEN -1
                   ELSE IF required <= before THEN before
                   ELSE Grown(before, required)
    IN  c

(* The capacity after n runs more, each appended on its own, or -1 behind  *)
(* the first that does not fit.                                            *)
CapacityAfter(n) ==
    LET c[k \in 0..n] ==
          IF k = 0 THEN capacity
          ELSE LET before == c[k - 1]
                   required == Len(runs) + k
               IN  IF before = -1 THEN -1
                   ELSE IF required <= before THEN before
                   ELSE IF required > runBudget THEN -1
                   ELSE Grown(before, required)
    IN  c

EntryFilled(p) == length[p] # Unfilled
EntryComplete(p) == length[p] \notin {Unfilled, Incomplete}

RunView(p) == SubSeq(runs, runStart[p] + 1, runStart[p] + runCount[p])

(* The distance of the first run that reaches length k, 0 if there is none. *)
RunDistance(view, k) ==
    LET reach == {n \in 1..Len(view) : view[n].end >= k}
    IN  IF reach = {} THEN 0
        ELSE view[CHOOSE n \in reach : \A m \in reach : n <= m].dist

(* cacheToSublen: the distances for lengths MinMatch..k. *)
Sublen(view, k) == [n \in 1..(k - MinMatch + 1) |-> RunDistance(view, n + MinMatch - 1)]

MutDistanceForLength(p, k) == RunDistance(RunView(p), k + 1)

(* cachedDistanceForLength, of a complete entry with a match of length k or longer. *)
DistanceForLength(p, k) ==
    IF k = length[p] THEN dist[p] ELSE RunDistance(RunView(p), k)

-----------------------------------------------------------------------------
(* storeMatch. *)

Fill(p, code, d, count, start) ==
    /\ length' = [length EXCEPT ![p] = code]
    /\ dist' = [dist EXCEPT ![p] = d]
    /\ same' = [same EXCEPT ![p] = Same(block, p)]
    /\ runCount' = [runCount EXCEPT ![p] = count]
    /\ runStart' = [runStart EXCEPT ![p] = start]
    /\ UNCHANGED room

MutStoreMatch(p, d) ==
    LET new == RunsOf(d)
        grown == CapacityAfter(Len(new))
        fits == {k \in 0..Len(new) : grown[k] # -1}
    IN  IF EntryFilled(p) THEN UNCHANGED <<entries, arena>>
        ELSE IF d = <<>>
        THEN Fill(p, NoMatch, 0, 0, Len(runs)) /\ UNCHANGED arena
        ELSE /\ runs' = runs \o SubSeq(new, 1, Cardinality(fits) - 1)
             /\ capacity' = grown[Cardinality(fits) - 1]
             /\ exceeded' = (exceeded \/ grown[Len(new)] = -1)
             /\ IF grown[Len(new)] # -1
                THEN Fill(p, Longest(d), d[Len(d)], Len(new), Len(runs))
                ELSE Fill(p, Incomplete, d[Len(d)], 0, Len(runs))
             /\ UNCHANGED runBudget

(* A match shorter than MinMatch has no runs.  When the budget ends within *)
(* the runs of a match, those already appended are taken back and the      *)
(* entry stays incomplete.                                                 *)
StoreMatch(p, d) ==
    LET new == RunsOf(d)
        grown == CapacityAfter(Len(new))
        fits == {k \in 0..Len(new) : grown[k] # -1}
    IN  IF EntryFilled(p) THEN UNCHANGED <<entries, arena>>
        ELSE IF d = <<>>
        THEN Fill(p, NoMatch, 0, 0, Len(runs)) /\ UNCHANGED arena
        ELSE /\ capacity' = grown[Cardinality(fits) - 1]
             /\ exceeded' = (exceeded \/ grown[Len(new)] = -1)
             /\ UNCHANGED runBudget
             /\ IF grown[Len(new)] # -1
                THEN /\ runs' = runs \o new
                     /\ Fill(p, Longest(d), d[Len(d)], Len(new), Len(runs))
                ELSE /\ UNCHANGED runs
                     /\ Fill(p, Incomplete, d[Len(d)], 0, Len(runs))

NoAnswer == [op |-> "none", pos |-> 0, asked |-> 0, length |-> 0, dist |-> 0, same |-> 0, sublen |-> <<>>]

(* Without the complete cache the run at p is what the hash counts. *)
Answer(op, p, k, len, d, s) ==
    [op |-> op, pos |-> p, asked |-> k, length |-> len, dist |-> d,
     same |-> Same(block, p), sublen |-> s]

-----------------------------------------------------------------------------
Init ==
    /\ pc = "idle" /\ block \in Blocks /\ at = 0
    /\ length = [p \in Positions |-> Unfilled]
    /\ dist = [p \in Positions |-> 0] /\ same = [p \in Positions |-> 0]
    /\ runCount = [p \in Positions |-> 0]
    /\ runStart = [p \in Positions |-> 0]
    /\ room = 0
    /\ runs = <<>> /\ capacity = 0 /\ runBudget = 0 /\ exceeded = FALSE
    /\ built = FALSE /\ allComplete = TRUE
    /\ answer = NoAnswer
    /\ rounds = 0

MutInitCache(b, budget) ==
    /\ pc = "idle" /\ rounds < MaxBlocks
    /\ block' = b /\ runBudget' = budget
    /\ exceeded' = FALSE
    /\ length' = [p \in Positions |-> IF p < Size(b) THEN Unfilled ELSE length[p]]
    /\ room' = Larger(room, Size(b))
    /\ UNCHANGED <<dist, same, runCount, runStart, capacity>>
    /\ runs' = <<>>
    /\ built' = (Size(b) = 0) /\ allComplete' = TRUE
    /\ at' = 0
    /\ pc' = IF Size(b) = 0 THEN "parse" ELSE "build"
    /\ answer' = NoAnswer
    /\ rounds' = rounds + 1

(* initWithRunBudget at the head of buildLongestMatchCacheWithRunBudget:   *)
(* only the lengths are reset; the other arrays keep what the block before *)
(* left in them, unless they are too small and made anew.  An arena larger *)
(* than the budget is cut.                                                 *)
InitCache(b, budget) ==
    LET anew == room < Size(b)
        clear(f) == IF anew THEN [p \in Positions |-> 0] ELSE f
    IN  /\ pc = "idle" /\ rounds < MaxBlocks
        /\ block' = b /\ runBudget' = budget
        /\ exceeded' = FALSE
        /\ length' = [p \in Positions |-> IF p < Size(b) THEN Unfilled ELSE length[p]]
        /\ dist' = clear(dist) /\ same' = clear(same)
        /\ runCount' = clear(runCount) /\ runStart' = clear(runStart)
        /\ room' = Larger(room, Size(b))
        /\ runs' = <<>>
        /\ capacity' = Smaller(capacity, budget)
        /\ built' = (Size(b) = 0) /\ allComplete' = TRUE
        /\ at' = 0
        /\ pc' = IF Size(b) = 0 THEN "parse" ELSE "build"
        /\ answer' = NoAnswer
        /\ rounds' = rounds + 1

(* findLongestMatch for the position, which is unfilled; building ends at  *)
(* the first position that exceeds the budget.                             *)
Build ==
    /\ pc = "build"
    /\ StoreMatch(at, Found(block, at))
    /\ allComplete' = (allComplete /\ length'[at] # Incomplete)
    /\ at' = at + 1
    /\ IF exceeded' THEN pc' = "parse" /\ UNCHANGED built
       ELSE IF at' = Size(block) THEN pc' = "parse" /\ built' = allComplete'
       ELSE UNCHANGED <<pc, built>>
    /\ UNCHANGED <<block, answer, rounds>>

-----------------------------------------------------------------------------
(* With a complete cache the parsers ask nothing else. *)

(* cachedLongestMatch and cachedSublenRuns (lz77Greedy, getBestLengths, *)
(* which also takes the length of the run from the cache).              *)
AskRuns(p) ==
    /\ pc = "parse" /\ built /\ p \in InBlock
    /\ answer' = [Answer("full", p, MaxMatch, length[p], dist[p],
                         IF length[p] = NoMatch THEN <<>> ELSE Sublen(RunView(p), length[p]))
                  EXCEPT !.same = same[p]]
    /\ UNCHANGED <<pc, block, at, entries, arena, built, allComplete, rounds>>

(* cachedDistanceForLength (followPath), for a length the parser chose. *)
AskDistance(p, k) ==
    /\ pc = "parse" /\ built /\ p \in InBlock /\ k \in MinMatch..Longest(Found(block, p))
    /\ answer' = Answer("length", p, k, k, DistanceForLength(p, k), <<>>)
    /\ UNCHANGED <<pc, block, at, entries, arena, built, allComplete, rounds>>

(* Without one they ask it first and search where it has no answer. *)

(* findLongestMatch with a full limit and room for all distances. *)
FindFull(p) ==
    LET d == Found(block, p)
    IN  /\ pc = "parse" /\ ~built /\ p \in InBlock
        /\ IF EntryComplete(p)
           THEN /\ answer' = IF length[p] = NoMatch THEN Answer("full", p, MaxMatch, 0, 0, <<>>)
                             ELSE Answer("full", p, MaxMatch, length[p],
                                         DistanceForLength(p, length[p]),
                                         Sublen(RunView(p), length[p]))
                /\ UNCHANGED <<entries, arena>>
           ELSE /\ answer' = Answer("full", p, MaxMatch, Longest(d),
                                    IF d = <<>> THEN 0 ELSE d[Len(d)], d)
                /\ StoreMatch(p, d)
        /\ UNCHANGED <<pc, block, at, built, allComplete, rounds>>

(* tryGetFromLongestMatchCacheCompact and the loop over its runs: a hit    *)
(* needs at most CacheLength of them.                                      *)
AskCompact(p) ==
    /\ pc = "parse" /\ ~built /\ p \in InBlock
    /\ EntryComplete(p) /\ length[p] >= MinMatch
    /\ runCount[p] \in 1..CacheLength
    /\ length[p] <= Smaller(RunView(p)[runCount[p]].end, length[p])
    /\ answer' = Answer("full", p, MaxMatch, length[p], dist[p], Sublen(RunView(p), length[p]))
    /\ UNCHANGED <<pc, block, at, entries, arena, built, allComplete, rounds>>

(* findLongestMatch for a length the parser chose (followPath): the cache  *)
(* answers only when its match is no longer than that, or the limit is     *)
(* MaxMatch, and nothing is stored.                                        *)
FindLimited(p, k) ==
    /\ pc = "parse" /\ ~built /\ p \in InBlock /\ k \in MinMatch..Longest(Found(block, p))
    /\ answer' =
         IF EntryComplete(p) /\ length[p] <= k
         THEN Answer("length", p, k, length[p], dist[p], <<>>)
         ELSE Answer("length", p, k, k, Found(block, p)[k - MinMatch + 1], <<>>)
    /\ UNCHANGED <<pc, block, at, entries, arena, built, allComplete, rounds>>

(* The block is parsed; the cache is kept for the next one. *)
Done ==
    /\ pc = "parse"
    /\ pc' = "idle" /\ answer' = NoAnswer
    /\ UNCHANGED <<block, at, entries, arena, built, allComplete, rounds>>

Next ==
    \/ \E b \in Blocks, budget \in Budgets : InitCache(b, budget)
    \/ Build
    \/ \E p \in Positions :
          \/ AskRuns(p) \/ FindFull(p) \/ AskCompact(p)
          \/ \E k \in MinMatch..MaxMatch : AskDistance(p, k) \/ FindLimited(p, k)
    \/ Done

Spec == Init /\ [][Next]_vars

-----------------------------------------------------------------------------
(* Whatever was stored, taken back or left by blocks before, and whether   *)
(* the cache, its compact form or a new search answers: the parsers get    *)
(* what a search at that position finds (tryGetFromLongestMatchCache,      *)
(* cachedSublenRuns, cachedDistanceForLength).                             *)
AnswersAreFound ==
    LET d == Found(block, answer.pos)
    IN  CASE answer.op = "none" -> TRUE
          [] answer.op = "full" ->
               /\ answer.same = Same(block, answer.pos)
               /\ answer.length = Longest(d)
               /\ d # <<>> => answer.dist = d[Len(d)] /\ answer.sublen = d
          [] answer.op = "length" ->
               /\ answer.length = answer.asked
               /\ answer.dist = d[answer.asked - MinMatch + 1]

(* README: the match cache has a hard ceiling.  The arena, which grows by  *)
(* doubling and is kept from block to block, stays within the budget of    *)
(* the block it is used for.                                               *)
WithinBudget ==
    Len(runs) <= capacity /\ capacity <= runBudget

(* Each run of the arena belongs to one complete entry of this block: a    *)
(* match that did not fit leaves none behind (storeRunsFromSublen).        *)
NoOrphanRuns ==
    pc # "idle" =>
        LET held(p) == {runStart[p] + n : n \in 1..runCount[p]}
            complete == {p \in InBlock : EntryComplete(p)}
        IN  /\ UNION {held(p) : p \in complete} = 1..Len(runs)
            /\ \A p, q \in complete : p # q => held(p) \cap held(q) = {}

(* The number of runs of the first positions of a block. *)
RunsBefore(b) ==
    LET sum[k \in 0..Size(b)] ==
          IF k = 0 THEN 0 ELSE sum[k - 1] + Len(RunsOf(Found(b, k - 1)))
    IN  sum

(* A cache that counts as built answers for every position, so that the    *)
(* parsers' panics for a missing entry cannot happen; and building gives   *)
(* up only when the runs of the block do not fit the budget.               *)
BuiltOrFull ==
    /\ pc = "parse" /\ built => \A p \in InBlock : EntryComplete(p)
    /\ pc = "parse" /\ ~built => RunsBefore(block)[Size(block)] > runBudget

=============================================================================
