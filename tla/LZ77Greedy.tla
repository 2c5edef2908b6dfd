------------------------------ MODULE LZ77Greedy ------------------------------
(***************************************************************************)
(* The greedy parse of a block (lz77Greedy, lz77.go) with its lazy match:  *)
(* a match found at a byte is not stored at once but held back for one     *)
(* byte, and given up for a literal when the next byte has a better one.   *)
(* The bytes are numbered from the start of the block.  What the search    *)
(* or the cache finds at each of them is data: found[i], chosen from       *)
(* Finds, which agree with findLongestMatch in what they promise.          *)
(***************************************************************************)
EXTENDS Integers, Sequences

CONSTANTS
    MinMatch, MaxMatch,     \* 3 and 258
    Far,                    \* 1024, the distance beyond which a match scores less
    Sizes,                  \* block sizes
    Finds(_)                \* for a size, what may be found

(* The longest match at a byte, of length 0 if there is none; it ends      *)
(* within the block.                                                       *)
Match == [length: Nat, dist: Nat]

ASSUME LengthAssumption ==
    MinMatch \in Nat /\ MinMatch > 2 /\ MaxMatch \in Nat /\ MaxMatch >= MinMatch /\ Far \in Nat

ASSUME FindsAssumption ==
    /\ Sizes \subseteq Nat
    /\ \A n \in Sizes : \A f \in Finds(n) :
          /\ f \in [0..(n - 1) -> Match]
          /\ \A k \in 0..(n - 1) :
                /\ k + f[k].length <= n /\ f[k].length <= MaxMatch
                /\ f[k].length > 1 => f[k].dist > 0

VARIABLES
    size,               \* bytes of the block
    found,              \* the longest match at each byte
    i,                  \* the byte the loop is at
    matchAvailable,     \* the match of byte i - 1 is held back
    prev,               \* prevLength and prevMatch
    tokens              \* the store

vars == <<size, found, i, matchAvailable, prev, tokens>>

-----------------------------------------------------------------------------
(* getLengthScore *)
Score(m) == IF m.dist > Far THEN m.length - 1 ELSE m.length

Token(from, m) == [pos |-> from, length |-> m.length, dist |-> m.dist]

(* A literal stands for one byte and has distance 0. *)
Literal(from) == Token(from, [length |-> 1, dist |-> 0])

Worth(m) == Score(m) >= MinMatch

MutMayImprove(m) == m.length < MaxMatch

(* A match of the longest length is never held back. *)
MayImprove(m) == Worth(m) /\ m.length < MaxMatch

-----------------------------------------------------------------------------
Init ==
    /\ size \in Sizes /\ found \in Finds(size)
    /\ i = 0
    /\ matchAvailable = FALSE /\ prev = [length |-> 0, dist |-> 0]
    /\ tokens = <<>>

MutHold ==
    /\ matchAvailable' = TRUE /\ i' = i + 1
    /\ prev' = IF matchAvailable THEN prev ELSE found[i]

(* The match at i is held back. *)
Hold ==
    /\ matchAvailable' = TRUE /\ prev' = found[i] /\ i' = i + 1

(* The match at i, or its first byte, goes to the store behind what is     *)
(* there already.                                                          *)
Take(before) ==
    LET token == IF Worth(found[i]) THEN Token(i, found[i]) ELSE Literal(i)
    IN  /\ tokens' = Append(before, token) /\ i' = i + token.length
        /\ matchAvailable' = FALSE
        /\ UNCHANGED prev

(* No match is held back. *)
Fresh ==
    /\ i < size /\ ~matchAvailable
    /\ IF MayImprove(found[i]) THEN Hold /\ UNCHANGED tokens ELSE Take(tokens)
    /\ UNCHANGED <<size, found>>

MutGains == Score(found[i]) >= Score(prev) + 1

(* The match at i scores more than the byte that holding back cost. *)
Gains == Score(found[i]) > Score(prev) + 1

MutGiveUp ==
    /\ i < size /\ matchAvailable /\ Gains
    /\ LET before == Append(tokens, Literal(i - 1))
       IN  IF MayImprove(found[i])
           THEN Hold /\ UNCHANGED tokens
           ELSE Take(before)
    /\ UNCHANGED <<size, found>>

(* The match held back is given up for the one at i, its first byte is a   *)
(* literal.                                                                *)
GiveUp ==
    /\ i < size /\ matchAvailable /\ Gains
    /\ LET before == Append(tokens, Literal(i - 1))
       IN  IF MayImprove(found[i]) THEN Hold /\ tokens' = before ELSE Take(before)
    /\ UNCHANGED <<size, found>>

(* The match held back is stored; the loop goes on behind it. *)
Keep ==
    /\ i < size /\ matchAvailable /\ ~Gains
    /\ tokens' = Append(tokens, Token(i - 1, prev))
    /\ i' = i - 1 + prev.length
    /\ matchAvailable' = FALSE
    /\ UNCHANGED <<size, found, prev>>

Finished ==
    /\ i >= size
    /\ UNCHANGED vars

Next == Fresh \/ GiveUp \/ Keep \/ Finished

Spec == Init /\ [][Next]_vars /\ WF_vars(Fresh \/ GiveUp \/ Keep)

-----------------------------------------------------------------------------
Tokens == [pos: Nat, length: Nat \ {0}, dist: Nat]

(* Every variable stays in its range. *)
TypeOK ==
    /\ size \in Sizes /\ found \in Finds(size)
    /\ i \in 0..size
    /\ matchAvailable \in BOOLEAN
    /\ prev \in Match
    /\ tokens \in Seq(Tokens)

(* The byte behind what the tokens stand for. *)
Covered == i - (IF matchAvailable THEN 1 ELSE 0)

(* The tokens of s follow each other from byte 0 to byte end. *)
Tiles(s, end) ==
    /\ s = <<>> => end = 0
    /\ s # <<>> => s[1].pos = 0 /\ s[Len(s)].pos + s[Len(s)].length = end
    /\ \A k \in 1..(Len(s) - 1) : s[k + 1].pos = s[k].pos + s[k].length

(* Tokens follow each other without a gap or an overlap, and end where the *)
(* loop is or, with a match held back, one byte before: none of its exits  *)
(* forgets that byte or stores it twice (lz77Greedy).                      *)
Tiled == Tiles(tokens, Covered)

(* A match of the store is the one found at its own byte, and worth it. *)
Faithful(t) ==
    t.dist > 0 => t = Token(t.pos, found[t.pos]) /\ Worth(found[t.pos])

(* A literal that stands where a match is worth storing was preferred for  *)
(* the match of the next byte.                                             *)
Justified(t) ==
    t.dist = 0 /\ Worth(found[t.pos]) =>
        t.pos + 1 < size /\ Score(found[t.pos + 1]) > Score(found[t.pos]) + 1

(* Every match of the store is the one found at its own byte, though it is *)
(* stored a byte later, from prevLength and prevMatch (lz77Greedy).        *)
MatchesAreFound == \A k \in 1..Len(tokens) : Faithful(tokens[k])

(* A match worth storing is given up only for a better one of the next     *)
(* byte (lz77Greedy).                                                      *)
GivenUpForBetter == \A k \in 1..Len(tokens) : Justified(tokens[k])

(* What the proof rests on: the match held back is the one of the byte     *)
(* before, and could be improved.                                          *)
HeldIsPrevious ==
    matchAvailable => i > 0 /\ prev = found[i - 1] /\ MayImprove(prev)

(* When the loop has passed the end no match is held back: the tokens      *)
(* stand for all of the block.                                             *)
Whole == i >= size => Tiles(tokens, size)

IInv == TypeOK /\ HeldIsPrevious /\ Tiled /\ MatchesAreFound /\ GivenUpForBetter

(* The loop comes to the end of the block with all of it in the store: it  *)
(* does not look at matchAvailable once i has passed the end (lz77Greedy). *)
ParsesAll == <>[](i = size /\ Covered = size)

=============================================================================
