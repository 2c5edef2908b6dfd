----------------------------- MODULE HuffmanCodes -----------------------------
(***************************************************************************)
(* Length-limited Huffman codes by boundary package-merge (katajainen.go)  *)
(* and the canonical code words of given lengths (tree.go), as operators:  *)
(* PackageMerge checks them one call at a time, BlockEncoder uses them.     *)
(*                                                                         *)
(* A chain is a node of the pool; the node has the weight of the chain,    *)
(* the number of leaves it counts and its tail, a chain of the list below. *)
(* Lists and the pool are numbered from 1, symbols from 0.                 *)
(***************************************************************************)
EXTENDS Integers, Sequences, FiniteSets

NoNode == 0
Node(weight, count, tail) == [weight |-> weight, count |-> count, tail |-> tail]

Smaller(a, b) == IF a < b THEN a ELSE b

Used(freq) == {s \in DOMAIN freq : freq[s] # 0}

(* fillLeaves and a sort: by weight, then by symbol. *)
Before(freq, s, t) == freq[s] < freq[t] \/ (freq[s] = freq[t] /\ s < t)

Leaves(freq) ==
    LET rank == [s \in Used(freq) |-> Cardinality({t \in Used(freq) : Before(freq, t, s)})]
        symbol(n) == CHOOSE s \in Used(freq) : rank[s] = n - 1
    IN  [n \in 1..Cardinality(Used(freq)) |-> [weight |-> freq[symbol(n)], symbol |-> symbol(n)]]

(* The length limit that can matter, and the nodes a call may need. *)
Limit(leaves, maxBits) == Smaller(maxBits, Len(leaves) - 1)
MutNeededPool(leaves, limit) == limit * Len(leaves)

NeededPool(leaves, limit) == limit * 2 * Len(leaves)

(* initLists: every list looks at the first two leaves. *)
InitLists(leaves, limit) ==
    [pool |-> <<Node(leaves[1].weight, 1, NoNode), Node(leaves[2].weight, 2, NoNode)>>,
     lists |-> [b \in 1..limit |-> <<1, 2>>]]

Pair(pm, list) == pm.pool[pm.lists[list][1]].weight + pm.pool[pm.lists[list][2]].weight

(* The next chain of a list gets a node. *)
NextChain(pm, list, node) ==
    [pool |-> Append(pm.pool, node),
     lists |-> [pm.lists EXCEPT ![list] = <<@[2], Len(pm.pool) + 1>>]]

MutTakesLeaf(pm, leaves, list, lastCount) == lastCount < Len(leaves)

(* Whether the next chain is one more leaf: there is one, and it is not    *)
(* heavier than a package of the list below.  The first list has no        *)
(* packages.                                                               *)
TakesLeaf(pm, leaves, list, lastCount) ==
    /\ lastCount < Len(leaves)
    /\ list > 1 => Pair(pm, list - 1) > leaves[lastCount + 1].weight

LastChain(pm, list) == pm.pool[pm.lists[list][2]]

(* The two kinds of chains boundaryPM makes.  A package uses up two chains *)
(* of the list below, which its two recursive calls replace.               *)
NextLeaf(pm, leaves, list) ==
    LET last == LastChain(pm, list)
    IN  NextChain(pm, list, Node(leaves[last.count + 1].weight, last.count + 1,
                                 IF list = 1 THEN NoNode ELSE last.tail))

NextPackage(pm, list) ==
    NextChain(pm, list, Node(Pair(pm, list - 1), LastChain(pm, list).count, pm.lists[list - 1][2]))

(* boundaryPMFinal: the last chain of the last list; its weight is not     *)
(* looked at again.                                                        *)
BoundaryPMFinal(pm, leaves, list) ==
    LET chain == pm.lists[list][2]
        last == LastChain(pm, list)
    IN  IF TakesLeaf(pm, leaves, list, last.count)
        THEN NextChain(pm, list, Node(0, last.count + 1, last.tail))
        ELSE [pm EXCEPT !.pool[chain].tail = pm.lists[list - 1][2]]

NumRuns(leaves) == 2 * Len(leaves) - 4

(* The nodes of a chain, from the list it was made in to the one where it  *)
(* ends.  There is room for one node more than there are lists.            *)
Chain(pool, node, limit) ==
    LET upTo[n \in 0..limit] ==
            IF n = 0 THEN <<node>>
            ELSE LET before == upTo[n - 1]
                     tail == pool[before[Len(before)]].tail
                 IN  IF tail = NoNode THEN before ELSE Append(before, tail)
    IN  upTo[limit]

(* extractBitLengths: a leaf is as deep as the nodes that count it. *)
BitLengths(freq, leaves, pm, limit) ==
    LET chain == Chain(pm.pool, pm.lists[limit][2], limit)
        depth(n) == Cardinality({c \in DOMAIN chain : pm.pool[chain[c]].count >= n})
    IN  [s \in DOMAIN freq |->
            IF freq[s] = 0 THEN 0
            ELSE depth(CHOOSE n \in 1..Len(leaves) : leaves[n].symbol = s)]

(* 1 << bits *)
TwoTo(bits) ==
    LET power[k \in 0..bits] == IF k = 0 THEN 1 ELSE 2 * power[k - 1]
    IN  power[bits]

(* More symbols than code words of so many bits: calculateBitLengths       *)
(* panics.                                                                 *)
TooFewBits(freq, maxBits) == TwoTo(maxBits) < Cardinality(Used(freq))

FewSymbols(freq) == [s \in DOMAIN freq |-> IF freq[s] = 0 THEN 0 ELSE 1]

-----------------------------------------------------------------------------
(* The first code word of so many bits, from the first one of one bit less. *)
FirstCode(lengths, bits, before) ==
    (before + Cardinality({s \in DOMAIN lengths : lengths[s] = bits - 1 /\ bits > 1})) * 2

(* lengthsToSymbols: words of one length count up in the order of the      *)
(* symbols.                                                                *)
LengthsToSymbols(lengths, maxBits) ==
    LET first[bits \in 0..maxBits] ==
            IF bits = 0 THEN 0 ELSE FirstCode(lengths, bits, first[bits - 1])
        smaller(s) == {t \in DOMAIN lengths : t < s /\ lengths[t] = lengths[s]}
    IN  [s \in DOMAIN lengths |->
            IF lengths[s] = 0 THEN 0 ELSE first[lengths[s]] + Cardinality(smaller(s))]

=============================================================================
