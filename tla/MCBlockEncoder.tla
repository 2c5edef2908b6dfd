--------------------------- MODULE MCBlockEncoder ---------------------------
(***************************************************************************)
(* Blocks for TLC, of up to some sixty tokens: gaps and runs of code       *)
(* lengths around the bounds of the repeat codes, runs over the boundary   *)
(* of the two alphabets, counts that are nearly even, all lengths and the  *)
(* distances where the symbols change.                                     *)
(***************************************************************************)
EXTENDS BlockEncoder

Literal(byte) == [litlen |-> byte, dist |-> 0]
Match(length, dist) == [litlen |-> length, dist |-> dist]
Times(n, ts) == FlattenSeq([i \in 1..n |-> ts])
Same(ts) == [tokens |-> ts, fixed |-> ts]

(* Two literals, the gap between them and the one up to the end symbol. *)
Gaps == {Times(20, <<Literal(0), Literal(0), Literal(z)>>) : z \in (3..15) \cup {107, 117, 138, 139, 140, 150, 151, 255}}

(* So many neighbours that occur alike. *)
Alike == {Times(40 \div n + 1, [i \in 1..n |-> Literal(60 + i)]) : n \in 2..20}

(* The lengths of the last symbols are those of the first distances. *)
Across == {Times(8, <<Literal(8)>> \o [i \in 1..n |-> Match(2 + i, IF i > m THEN m ELSE i)]) :
              n \in 1..6, m \in 1..4}

Weighted(weights) == FlattenSeq([n \in DOMAIN weights |-> Times(weights[n], <<Literal(32 + n)>>)])
Uneven == {Weighted(<<a, b, 7, 6, c, 1, 1, 8, d, 9>>) : a \in {1, 3, 7}, b \in {0, 6, 8}, c \in {2, 7}, d \in {1, 6}}

(* Rare symbols in strides that are mostly zeros. *)
Sparse == {Times(20, <<Literal(0)>>) \o [i \in 1..n |-> Literal(50 + gap * i)] : gap \in 2..5, n \in 2..12}

Edges == {2 ^ k + j : k \in 2..14, j \in {0, 1}} \cup {3 * 2 ^ k + j : k \in 1..13, j \in {0, 1}} \cup {1, 2, 3, 32768}
Lengthy == {[i \in 1..32 |-> Match(Smaller(258, 32 * n + i + 2), 1)] : n \in 0..7}
Distant == {[i \in 1..8 |-> Match(3, d)] : d \in Edges}

(* One literal, sparse ones (best stored), and a parse for fixed codes that *)
(* is another one.                                                          *)
Others == {Same(<<>>), Same(<<Literal(0)>>), Same([i \in 1..56 |-> Literal(142 + 2 * i)]),
           [tokens |-> <<Literal(7), Match(3, 1), Match(3, 1)>>, fixed |-> <<Literal(7), Match(6, 1)>>],
           [tokens |-> Times(9, <<Literal(7), Literal(7), Literal(250)>>), fixed |-> Times(9, <<Match(3, 3)>>)]}

MCBlocks == Others \cup {Same(ts) : ts \in Gaps \cup Alike \cup Across \cup Uneven \cup Sparse \cup Lengthy \cup Distant}
=============================================================================
