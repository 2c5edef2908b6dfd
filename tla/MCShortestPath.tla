--------------------------- MODULE MCShortestPath ---------------------------
(* Blocks of two bytes and three codes for TLC: all short ones, and long   *)
(* ones that are nearly one run.                                           *)
EXTENDS ShortestPath

(* Lengths 4 and 5 have one symbol. *)
MCSymbolEnd(k) == IF k = 4 THEN 5 ELSE k

Model(fixed, literal, length, distance) ==
    [fixed |-> fixed,
     literal |-> [b \in 0..1 |-> literal[b + 1]],
     length |-> [k \in MinMatch..MaxMatch |-> length[k - 2]],
     distance |-> [d \in 1..40 |-> IF d = 1 THEN distance[1] ELSE IF d < 4 THEN distance[2] ELSE distance[3]]]

(* In the first a long match is dear; in the second distances are cheaper  *)
(* far away; the fixed code has 8 or 9 bits for a byte.                    *)
MCModels ==
    {Model(FALSE, <<2, 5>>, <<4, 5, 11>>, <<1, 3, 6>>),
     Model(FALSE, <<6, 5>>, <<1, 9, 8>>, <<9, 6, 1>>),
     Model(TRUE, <<8, 9>>, <<7, 8, 8>>, <<5, 6, 8>>)}

Nearly(len, at) == [n \in 1..len |-> IF n \in at THEN 1 ELSE 0]

Bits(n) == [1..n -> 0..1]

MCInputs ==
    {[array |-> a, start |-> s] : a \in Bits(7), s \in {0, 2}}
        \cup {[array |-> x \o <<0>> \o x \o y \o x, start |-> s] :
                 x \in Bits(3), y \in Bits(2), s \in {0, 4}}
        \cup {[array |-> Nearly(26, at), start |-> s] :
                 at \in {{}, {1}, {6}, {7}, {8}, {12}, {2, 26}, {25}}, s \in {0, 3}}

MCBlocks == {[array |-> i.array, start |-> i.start, model |-> m] : i \in MCInputs, m \in MCModels}

=============================================================================
