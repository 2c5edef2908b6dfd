----------------------------- MODULE MCHashChain -----------------------------
(* Windows of eight bytes for TLC to check HashChain with: arrays of two   *)
(* bytes that return to what they began with a window or more before, and  *)
(* of three bytes that the hash confuses.                                  *)
EXTENDS HashChain, Bitwise

MCXor(a, b) == a ^^ b

Bits(n) == [1..n -> 0..1]

MCInputs ==
    {[array |-> x \o y \o x, cut |-> 10] : x \in Bits(4), y \in Bits(6)}
        \cup {[array |-> <<0>> \o b, cut |-> 6] : b \in [1..6 -> {0, 1, 4}]}

=============================================================================
