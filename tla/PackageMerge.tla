---------------------------- MODULE PackageMerge ----------------------------
(***************************************************************************)
(* One call of lengthLimitedCodeLengths (katajainen.go), chain by chain.   *)
(* The names of the specification leave those of LZ77Greedy free.          *)
(***************************************************************************)
EXTENDS HuffmanCodes, FiniteSetsExt, SequencesExt

CONSTANTS
    Frequencies,    \* frequencies of the symbols, [symbols -> Nat]
    MaxBits         \* limits; the code asks for 15 and 7

ASSUME FrequenciesAssumption ==
    /\ MaxBits \subseteq Nat \ {0, 1}
    /\ \A f \in Frequencies :
          /\ IsFiniteSet(DOMAIN f) /\ DOMAIN f = 0..(Cardinality(DOMAIN f) - 1)
          /\ \A s \in DOMAIN f : f[s] \in Nat

VARIABLES
    frequencies, maxBits,
    pc,         \* start, merge, done, failed
    pm,         \* the pool and the lists
    runs,       \* chains asked for in the last list
    calls,      \* calls of boundaryPM that are still to be made, for each list
    bitlengths

mergeVars == <<frequencies, maxBits, pc, pm, runs, calls, bitlengths>>

leaves == Leaves(frequencies)
limit == Limit(leaves, maxBits)

MergeInit ==
    /\ frequencies \in Frequencies /\ maxBits \in MaxBits
    /\ pc = "start" /\ runs = 0 /\ calls = <<>>
    /\ pm = [pool |-> <<>>, lists |-> <<>>]
    /\ bitlengths = [s \in DOMAIN frequencies |-> 0]

TooFew ==
    /\ pc = "start" /\ TooFewBits(frequencies, maxBits)
    /\ pc' = "failed"
    /\ UNCHANGED <<frequencies, maxBits, pm, runs, calls, bitlengths>>

(* None, one or two symbols. *)
Few ==
    /\ pc = "start" /\ ~TooFewBits(frequencies, maxBits)
    /\ Len(leaves) <= 2
    /\ bitlengths' = FewSymbols(frequencies)
    /\ pc' = "done"
    /\ UNCHANGED <<frequencies, maxBits, pm, runs, calls>>

Start ==
    /\ pc = "start" /\ ~TooFewBits(frequencies, maxBits)
    /\ Len(leaves) > 2
    /\ pm' = InitLists(leaves, limit) /\ calls' = [b \in 1..limit |-> 0]
    /\ pc' = "merge"
    /\ UNCHANGED <<frequencies, maxBits, runs, bitlengths>>

-----------------------------------------------------------------------------
(* boundaryPM calls itself last, twice for the list below, so that what is *)
(* left of all its calls is a number for each list, and the call that is   *)
(* made next is one of the lowest.                                         *)
NoCalls == \A b \in 1..limit : calls[b] = 0

Called(list) ==
    /\ pc = "merge" /\ calls[list] > 0
    /\ \A b \in 1..(list - 1) : calls[b] = 0

(* One turn of the loop over the runs. *)
Run ==
    /\ pc = "merge" /\ NoCalls /\ runs < NumRuns(leaves) - 1
    /\ runs' = runs + 1 /\ calls' = [calls EXCEPT ![limit] = 1]
    /\ UNCHANGED <<frequencies, maxBits, pc, pm, bitlengths>>

MergeLeaf(list) ==
    /\ Called(list) /\ TakesLeaf(pm, leaves, list, LastChain(pm, list).count)
    /\ pm' = NextLeaf(pm, leaves, list)
    /\ calls' = [calls EXCEPT ![list] = @ - 1]
    /\ UNCHANGED <<frequencies, maxBits, pc, runs, bitlengths>>

MergePackage(list) ==
    /\ Called(list) /\ ~TakesLeaf(pm, leaves, list, LastChain(pm, list).count)
    /\ list > 1
    /\ pm' = NextPackage(pm, list)
    /\ calls' = [calls EXCEPT ![list] = @ - 1, ![list - 1] = 2]
    /\ UNCHANGED <<frequencies, maxBits, pc, runs, bitlengths>>

(* The first list has all leaves. *)
NoMoreLeaves ==
    /\ Called(1) /\ ~TakesLeaf(pm, leaves, 1, LastChain(pm, 1).count)
    /\ calls' = [calls EXCEPT ![1] = @ - 1]
    /\ UNCHANGED <<frequencies, maxBits, pc, pm, runs, bitlengths>>

Finish ==
    /\ pc = "merge" /\ NoCalls /\ runs >= NumRuns(leaves) - 1
    /\ pm' = BoundaryPMFinal(pm, leaves, limit)
    /\ bitlengths' = BitLengths(frequencies, leaves, pm', limit)
    /\ pc' = "done"
    /\ UNCHANGED <<frequencies, maxBits, runs, calls>>

CodeReturned == pc \in {"done", "failed"} /\ UNCHANGED mergeVars

MergeNext ==
    \/ TooFew \/ Few \/ Start
    \/ Run \/ NoMoreLeaves \/ Finish
    \/ \E list \in 1..limit : MergeLeaf(list) \/ MergePackage(list)
    \/ CodeReturned

MergeSpec == MergeInit /\ [][MergeNext]_mergeVars

-----------------------------------------------------------------------------
(* The pool is allocated once, for as many nodes as the lists can get; it  *)
(* is indexed without a check of its own (nodePool.newNode).               *)
WithinPool == Len(leaves) > 2 => Len(pm.pool) <= NeededPool(leaves, limit)

(* The share of the code words used up, in units of one of bits bits.      *)
Share(lengths, bits) == MapThenSumSet(LAMBDA s : TwoTo(bits - lengths[s]), DOMAIN lengths)

Cost(f, lengths) == MapThenSumSet(LAMBDA s : f[s] * lengths[s], DOMAIN lengths)

(* All lengths of n code words within a limit, one after another.          *)
Codes ==
    [n \in 1..Max({Cardinality(Used(f)) : f \in Frequencies}), bits \in MaxBits |->
        {l \in [1..n -> 1..bits] : Share(l, bits) <= TwoTo(bits)}]

(* The lengths stay within the limit, an unused symbol has none and a used *)
(* one has one.                                                            *)
WithinLimit ==
    \A s \in DOMAIN frequencies :
        bitlengths[s] \in IF s \in Used(frequencies) THEN 1..maxBits ELSE {0}

(* How many of the strings of so many bits the leaves' code words take up: *)
(* a word that is one bit shorter begins twice as many.                    *)
Words(lv, lengths, bits) ==
    LET taken[n \in 0..Len(lv)] ==
            IF n = 0 THEN 0
            ELSE taken[n - 1] + TwoTo(bits - lengths[lv[n].symbol])
    IN  taken[Len(lv)]

(* They take up all of them. *)
Complete == Len(leaves) > 1 => Words(leaves, bitlengths, maxBits) = TwoTo(maxBits)

(* Whatever the frequencies and however tight the limit, the lengths stay  *)
(* within it, no code word is wasted (a decoder rejects an incomplete      *)
(* code), and no other code of such words would make the block shorter     *)
(* (lengthLimitedCodeLengths).                                             *)
CheapestCode ==
    pc = "done" /\ Used(frequencies) # {} =>
        LET used == Used(frequencies)
            own == Restrict(bitlengths, used)
            order == SetToSeq(used)
        IN  /\ WithinLimit
            /\ Complete
            /\ \A l \in Codes[Cardinality(used), maxBits] :
                  Cost(Restrict(frequencies, used), own)
                     <= Cost([n \in DOMAIN order |-> frequencies[order[n]]], l)

=============================================================================
