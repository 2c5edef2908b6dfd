----------------------------- MODULE OptimalParse -----------------------------
(***************************************************************************)
(* The iterations that look for a cheap parse of a block                   *)
(* (lz77OptimalWithScratch, squeeze.go).  Each one parses the block under  *)
(* the symbol statistics of the one before, so that the next statistics    *)
(* are those of the new parse; when the cost stands still they are made    *)
(* anew from those behind the best parse, shuffled at random.              *)
(*                                                                         *)
(* The best parse is kept by exchanging the two stores, not by a copy: the *)
(* store of the next iteration reuses the memory of the parse that was     *)
(* displaced.  Memory is modelled by buffers.  A parse is what its buffer  *)
(* holds, its cost is data, and statistics are known by where they come    *)
(* from.                                                                   *)
(***************************************************************************)
EXTENDS Integers

CONSTANTS
    Iterations,     \* numbers of iterations; compress makes them positive
    Costs,          \* costs a parse may have
    LargeFloat,     \* more than any of them
    Settled         \* 5, the last iteration that is never followed by a shuffle

ASSUME ParseAssumption ==
    /\ Iterations \subseteq Nat \ {0} /\ Costs \subseteq Nat
    /\ LargeFloat \in Nat /\ \A c \in Costs : c < LargeFloat
    /\ Settled \in Nat

Buffers == {1, 2}

(* Statistics made from the parse of an iteration (0 for the greedy one),  *)
(* weighed with those it was made under, or shuffled behind it.            *)
Statistics(kind, n) == [kind |-> kind, iteration |-> n]
Kinds == {"none", "parse", "weighed", "shuffled"}
NoStatistics == Statistics("none", 0)

Parse(under, c) == [under |-> under, cost |-> c]
NoParse == Parse(NoStatistics, LargeFloat)

VARIABLES
    numIterations,
    iteration,              \* iterations made
    store, currentStore,    \* their buffers
    content,                \* the parse in each buffer
    stats, bestStats,
    bestCost, lastCost,
    lastrandomstep

loopVars == <<numIterations, iteration, store, currentStore, content, stats, bestStats, bestCost,
          lastCost, lastrandomstep>>

-----------------------------------------------------------------------------
(* The first statistics are those of the greedy parse, whose own cost is   *)
(* not asked for.                                                          *)
LoopInit ==
    /\ numIterations \in Iterations /\ iteration = 0
    /\ store = 1 /\ currentStore = 2
    /\ content = [b \in Buffers |-> NoParse]
    /\ stats = Statistics("parse", 0) /\ bestStats = NoStatistics
    /\ bestCost = LargeFloat /\ lastCost = 0
    /\ lastrandomstep = -1

MutImproved(c) == c <= lastCost \/ iteration = 0

Improved(c) == c < bestCost

MutExchange(improved) ==
    IF improved THEN store' = currentStore /\ UNCHANGED currentStore
    ELSE UNCHANGED <<store, currentStore>>

(* An improved parse becomes the best one; its store is not written to     *)
(* again before a better one is found.                                     *)
Exchange(improved) ==
    IF improved THEN store' = currentStore /\ currentStore' = store
    ELSE UNCHANGED <<store, currentStore>>

(* The statistics behind the best parse: copied before the new ones.       *)
BehindBest(improved) == IF improved THEN stats ELSE bestStats

More == iteration < numIterations

(* One iteration, whose parse costs c. *)
Iterate(c) ==
    LET shuffle == iteration > Settled /\ c = lastCost
    IN  /\ More
        /\ content' = [content EXCEPT ![currentStore] = Parse(stats, c)]
        /\ bestCost' = IF Improved(c) THEN c ELSE bestCost
        /\ lastrandomstep' = IF shuffle THEN iteration ELSE lastrandomstep
        /\ stats' = Statistics(IF shuffle THEN "shuffled"
                               ELSE IF lastrandomstep # -1 THEN "weighed" ELSE "parse",
                               iteration + 1)
        /\ bestStats' = BehindBest(Improved(c))
        /\ lastCost' = c
        /\ Exchange(Improved(c))
        /\ iteration' = iteration + 1
        /\ UNCHANGED numIterations

Returned == iteration = numIterations /\ UNCHANGED loopVars

LoopNext == (\E c \in Costs : Iterate(c)) \/ Returned

LoopSpec == LoopInit /\ [][LoopNext]_loopVars

-----------------------------------------------------------------------------
(* Every variable stays in its range. *)
LoopTypeOK ==
    /\ numIterations \in Iterations /\ iteration \in 0..numIterations
    /\ store \in Buffers /\ currentStore \in Buffers
    /\ content \in [Buffers -> [under: [kind: Kinds, iteration: Nat], cost: Nat]]
    /\ stats \in [kind: Kinds, iteration: Nat] /\ bestStats \in [kind: Kinds, iteration: Nat]
    /\ bestCost \in Nat /\ lastCost \in Nat
    /\ lastrandomstep \in -1..numIterations

(* The two stores never share memory, so that resetting currentStore       *)
(* cannot destroy the parse that will be returned; and what store holds is *)
(* the parse of bestCost, made under bestStats, the statistics a shuffle   *)
(* starts from (lz77OptimalWithScratch).                                   *)
StoreIsBest ==
    /\ store # currentStore
    /\ content[store].cost = bestCost
    /\ content[store].under = bestStats
    /\ iteration > 0 => bestCost # LargeFloat

LoopInv == LoopTypeOK /\ StoreIsBest

(* No iteration loses a parse cheaper than the one it leaves in store: it  *)
(* holds the cheaper of the one before and the new one, the older of       *)
(* equals (lz77OptimalWithScratch).                                        *)
KeepsCheapest ==
    [][IF lastCost' < content[store].cost
       THEN content'[store'] = Parse(stats, lastCost')
       ELSE content'[store'] = content[store]]_<<iteration, content>>

=============================================================================
