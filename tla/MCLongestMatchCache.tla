------------------------ MODULE MCLongestMatchCache ------------------------
(* Blocks of up to five positions, matches of up to five bytes, for TLC.   *)
EXTENDS LongestMatchCache

(* The distances at each position. *)
MCSize(b) == Len(b)
MCFound(b, p) == b[p + 1]

(* A match one byte back is a run that began there. *)
MCSame(b, p) ==
    LET near == {k \in DOMAIN b[p + 1] : b[p + 1][k] = 1}
    IN  IF near = {} THEN 0 ELSE Cardinality(near) + 1

MCBlocks ==
    {<<>>, << <<>> >>,
     << <<2>>, <<>>, <<>> >>,
     << <<1, 2, 3>>, <<1, 1>>, <<4>>, <<>>, <<>> >>,
     << <<1, 1, 3>>, <<2, 4>>, <<>>, <<>>, <<>> >>,
     << <<>>, <<1, 3>>, <<2>>, <<>>, <<>> >>}

MCBudgets == {0, 1, 3, 4, 6}

=============================================================================
