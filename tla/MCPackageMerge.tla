--------------------------- MODULE MCPackageMerge ---------------------------
(* Up to five symbols, rare and frequent ones, for TLC. *)
EXTENDS PackageMerge

Numbered(seq) == [s \in 0..(Len(seq) - 1) |-> seq[s + 1]]

MCFrequencies == [0..4 -> {0, 1, 2, 5}] \cup {Numbered(<<1, 1, 2, 4, 8, 16>>), Numbered(<<13, 8, 5, 3, 2, 1>>)}

=============================================================================
