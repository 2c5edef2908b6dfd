---------------------------- MODULE MCLZ77Greedy ----------------------------
(* Blocks of up to seven bytes with matches of three to six of them, near  *)
(* or far, for TLC.                                                        *)
EXTENDS LZ77Greedy

None == [length |-> 0, dist |-> 0]
At(n, p) == {None} \cup
    {m \in [length: MinMatch..MaxMatch, dist: {1, Far + 1}] : p + m.length <= n}

MCFinds(n) == {f \in [0..(n - 1) -> {None} \cup [length: MinMatch..MaxMatch, dist: {1, Far + 1}]] :
                  \A p \in 0..(n - 1) : f[p] \in At(n, p)}

=============================================================================
