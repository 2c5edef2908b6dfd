---------------------------- MODULE DeflateStream ----------------------------
(***************************************************************************)
(* What one call of deflate (deflate.go) promises about the block layer of *)
(* the stream it writes, whatever the block splitter, the number of        *)
(* workers and the block types chosen: blocks are appended one at a time,  *)
(* each starts at the input byte where the one before it ended, and the    *)
(* BFINAL bit is set on the block that reaches the end of the input and on *)
(* no other.  RFC 1951 readers stop at the first final block, so a bit set *)
(* early truncates the file and a bit never set makes it unreadable.       *)
(***************************************************************************)
EXTENDS Naturals, Sequences

VARIABLES
    size,       \* number of bytes of the input
    stream      \* the blocks written so far

vars == <<size, stream>>

Block(from, to, final) == [from |-> from, to |-> to, final |-> final]

(* The first input byte no block of the stream carries yet. *)
Covered == IF stream = <<>> THEN 0 ELSE stream[Len(stream)].to

Closed == stream # <<>> /\ stream[Len(stream)].final

Init ==
    /\ size \in Nat
    /\ stream = <<>>

(* Only the empty input gives an empty block. *)
Emit(to) ==
    /\ ~Closed
    /\ to > Covered \/ size = 0
    /\ stream' = Append(stream, Block(Covered, to, to = size))
    /\ UNCHANGED size

Next == \E to \in Covered..size : Emit(to)

Spec ==
    /\ Init
    /\ [][Next]_vars
    /\ WF_vars(Next)

=============================================================================
