-------------------------- MODULE MCDeflateParallel --------------------------
(* Small inputs and calls for TLC to check DeflateParallel with.           *)
EXTENDS DeflateParallel

Input(len, starts, cs, recut, cheaper, raw) ==
    [len |-> len, starts |-> starts, cuts |-> cs, recut |-> recut,
     cheaper |-> cheaper, raw |-> raw]

Call(btype, splitting, verbose, workers) ==
    [btype |-> btype, splitting |-> splitting, verbose |-> verbose, workers |-> workers]

(* A deterministic analysis read off the input: tokens start at starts,    *)
(* the splitters cut at cuts and at tokens whose first byte is in recut.   *)
Ascending(S) == SetToSortSeq(S, <)

MCParse(i, from, to) ==
    LET begin == Ascending({from} \cup (i.starts \cap (from + 1)..(to - 1)))
        end(n) == IF n < Len(begin) THEN begin[n + 1] ELSE to
    IN  [n \in 1..Len(begin) |-> [pos |-> begin[n], len |-> end(n) - begin[n]]]

MCBlockSplit(i, from, to) == Ascending(i.cuts \cap (from + 1)..(to - 1))

MCStores(i) ==
    UNION {LET start == p * MasterBlockSize
               end == Smaller(start + MasterBlockSize, i.len)
               joined(to, S) ==
                   LET b == <<start>> \o Ascending(S) \o <<to>>
                   IN  FlattenSeq([n \in 1..(Len(b) - 1) |-> MCParse(i, b[n], b[n + 1])])
           IN  UNION {{joined(to, S) : S \in SUBSET ((start + 1)..(to - 1))} :
                         to \in (start + 1)..end} : p \in 0..i.len}

MCBlockSplitLZ77(i, s) ==
    Ascending({n \in 1..(Len(s) - 1) : s[n + 1].pos \in i.recut})

MCCheaper(i, p) == p \in i.cheaper

(* For the fixed code each byte is a literal.                              *)
MCFixedParse(i, from, to) == [n \in 1..(to - from) |-> [pos |-> from + n - 1, len |-> 1]]

(* Blocks that start in raw are stored; the others take turns. *)
MCCheapest(i, from, to) ==
    CASE from \in i.raw -> "stored" [] from % 4 = 1 -> "reparsed"
      [] from % 4 = 3 -> "fixed" [] OTHER -> "dynamic"

(* Parts of five bytes: one part that the first splitter cuts into one to  *)
(* five blocks, more than a pool has workers, and two to four parts, for   *)
(* batches that are followed by a full, a partial and no further batch.    *)
PoolInputs ==
    {Input(len, {1, 2, 4}, cs, recut, cheaper, raw) :
        len \in {4, 5}, cs \in {{}, {2, 4}, {1, 2, 3, 4}},
        recut \in {{}, {2, 4}}, cheaper \in {{}, {0}}, raw \in {{}, {0, 2}}}

BatchInputs ==
    {Input(len, {1, 7, 8, 13}, cs, {7}, {0}, raw) :
        len \in {0, 1, 10, 11, 16}, cs \in {{}, {3, 8, 12}}, raw \in {{}, {0, 8}}}

DeflateInputs == PoolInputs \cup BatchInputs

DeflateCalls ==
    {Call(2, TRUE, v, n) : v \in BOOLEAN, n \in {2, 3}}
        \cup {Call(2, FALSE, FALSE, 2), Call(2, TRUE, FALSE, 9)}
        \cup {Call(t, FALSE, FALSE, n) : t \in 0..1, n \in {0, 2}}

=============================================================================
