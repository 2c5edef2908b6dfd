-------------------------- MODULE MCBlockSplitter --------------------------
(* Stores of up to nine tokens of two kinds, for TLC.                      *)
EXTENDS BlockSplitter

(* A range costs a header and, for each of its tokens, as much as there    *)
(* are kinds of token in it; the header is cheap or dear.                  *)
RangeCost(kinds, header) ==
    [r \in (0..Len(kinds)) \X (0..Len(kinds)) |->
        IF r[1] < r[2]
        THEN header + (r[2] - r[1]) * Cardinality({kinds[k] : k \in (r[1] + 1)..r[2]})
        ELSE header]

MCCosts(n) == {RangeCost(kinds, header) : kinds \in [1..n -> {1, 2}], header \in {1, 3}}

MCTokenBytes(k) == IF k % 3 = 0 THEN 1 ELSE 3

=============================================================================
