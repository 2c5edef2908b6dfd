------------------------- MODULE ParseAndCodeProofs -------------------------
(***************************************************************************)
(* What two of the parses of a block guarantee, and the code lengths made  *)
(* of the last one's symbols.  The greedy parse, for every                 *)
(* block and every set of matches that end within it: the invariant IInv   *)
(* adds to the properties that the match held back is the one of the byte  *)
(* before; without it a stored match could be one found elsewhere.         *)
(* The loop that starts from its statistics, for every number of           *)
(* iterations and whatever their parses cost: it keeps the best of them.   *)
(* And package-merge, for all frequencies and limits: its pool has room    *)
(* for all nodes, no length passes the limit, and the code words leave     *)
(* none unused.                                                            *)
(***************************************************************************)
EXTENDS LZ77Greedy, OptimalParse, PackageMerge, InductionFacts, SequenceTheorems, FiniteSetTheorems,
        TLAPS

(* What is known of the match found at a byte of the block. *)
LEMMA FoundFacts ==
    ASSUME TypeOK, NEW k \in 0..(size - 1)
    PROVE  /\ size \in Nat
           /\ found[k] \in Match
           /\ found[k].length \in Nat /\ found[k].dist \in Nat
           /\ k + found[k].length <= size
           /\ found[k].length > 1 => found[k].dist > 0
           /\ Score(found[k]) \in Int /\ Score(found[k]) <= found[k].length
    BY SMTT(30), FindsAssumption, LengthAssumption DEF TypeOK, Match, Score

(* A token behind others that ends them where it begins. *)
LEMMA TileAppend ==
    ASSUME NEW s \in Seq(Tokens), NEW c \in Nat, Tiles(s, c),
           NEW t \in Tokens, t.pos = c
    PROVE  /\ Append(s, t) \in Seq(Tokens)
           /\ Tiles(Append(s, t), c + t.length)
    <1> DEFINE a == Append(s, t)
    <1>1. a \in Seq(Tokens) /\ a # <<>> /\ Len(a) = Len(s) + 1 /\ Len(s) \in Nat
          BY AppendProperties, LenProperties
    <1>2. a[Len(a)] = t /\ \A k \in 1..Len(s) : a[k] = s[k]
          BY AppendProperties
    <1>3. a[1].pos = 0
          <2>1. CASE s = <<>>
                BY <2>1, <1>1, <1>2, EmptySeq DEF Tiles
          <2>2. CASE s # <<>>
                <3>1. Len(s) >= 1 BY <2>2, EmptySeq, LenProperties
                <3> QED BY <3>1, <2>2, <1>1, <1>2 DEF Tiles
          <2> QED BY <2>1, <2>2
    <1>4. ASSUME NEW k \in 1..(Len(a) - 1)
          PROVE  a[k + 1].pos = a[k].pos + a[k].length
          <2>1. k \in 1..Len(s) /\ a[k] = s[k] BY <1>1, <1>2
          <2>2. CASE k < Len(s)
                BY <2>1, <2>2, <1>2 DEF Tiles
          <2>3. CASE k = Len(s)
                <3>1. s # <<>> BY <2>1, <2>3, EmptySeq
                <3> QED BY <3>1, <2>1, <2>3, <1>1, <1>2 DEF Tiles
          <2> QED BY <2>1, <2>2, <2>3
    <1> HIDE DEF a
    <1>5. Tiles(a, c + t.length) BY <1>1, <1>2, <1>3, <1>4 DEF Tiles
    <1> QED BY <1>1, <1>5 DEF a

(* What has to be shown of a token before it may be appended. *)
LEMMA StoreAppend ==
    ASSUME NEW s \in Seq(Tokens), NEW t \in Tokens,
           \A k \in 1..Len(s) : Faithful(s[k]) /\ Justified(s[k]),
           Faithful(t), Justified(t)
    PROVE  \A k \in 1..Len(Append(s, t)) :
              Faithful(Append(s, t)[k]) /\ Justified(Append(s, t)[k])
    <1>1. Len(Append(s, t)) = Len(s) + 1 /\ Len(s) \in Nat
          BY AppendProperties, LenProperties
    <1>2. \A k \in 1..Len(Append(s, t)) :
              (Append(s, t)[k] = s[k] /\ k \in 1..Len(s)) \/ Append(s, t)[k] = t
          BY AppendProperties, <1>1
    <1> QED BY <1>2

(* A match that is worth storing, as a token of its byte. *)
LEMMA MatchToken ==
    ASSUME TypeOK, NEW k \in 0..(size - 1), Worth(found[k])
    PROVE  /\ Token(k, found[k]) \in Tokens
           /\ Token(k, found[k]).pos = k
           /\ Token(k, found[k]).length = found[k].length
           /\ k + found[k].length <= size
           /\ found[k].length >= MinMatch
           /\ Faithful(Token(k, found[k])) /\ Justified(Token(k, found[k]))
    <1>1. /\ found[k].length \in Nat /\ found[k].dist \in Nat /\ size \in Nat
          /\ k + found[k].length <= size
          /\ found[k].length >= MinMatch
          /\ found[k].dist > 0
          BY FoundFacts, LengthAssumption DEF Worth
    <1>2. Token(k, found[k]) = [pos |-> k, length |-> found[k].length, dist |-> found[k].dist]
          BY DEF Token
    <1> QED BY <1>1, <1>2, LengthAssumption DEF Tokens, Faithful, Justified

(* A literal, as a token of its byte. *)
LEMMA LiteralToken ==
    ASSUME TypeOK, NEW k \in 0..(size - 1)
    PROVE  /\ Literal(k) \in Tokens
           /\ Literal(k).pos = k /\ Literal(k).length = 1
           /\ Faithful(Literal(k))
           /\ ~Worth(found[k]) => Justified(Literal(k))
           /\ k + 1 < size /\ Score(found[k + 1]) > Score(found[k]) + 1 => Justified(Literal(k))
    <1>1. Literal(k) = [pos |-> k, length |-> 1, dist |-> 0]
          BY DEF Literal, Token
    <1>2. k \in Nat BY FoundFacts
    <1> QED BY <1>1, <1>2 DEF Tokens, Faithful, Justified

(* The store with the match at i, or its first byte, behind what is there. *)
LEMMA TakeStep ==
    ASSUME TypeOK, NEW before \in Seq(Tokens), Tiles(before, i), i < size,
           \A k \in 1..Len(before) : Faithful(before[k]) /\ Justified(before[k]),
           Take(before), UNCHANGED <<size, found>>
    PROVE  IInv'
    <1> DEFINE token == IF Worth(found[i]) THEN Token(i, found[i]) ELSE Literal(i)
    <1>1. i \in 0..(size - 1) /\ size \in Nat BY FindsAssumption DEF TypeOK
    <1>2. /\ token \in Tokens /\ token.pos = i
          /\ i + token.length \in 0..size
          /\ Faithful(token) /\ Justified(token)
          <2>1. CASE Worth(found[i])
                <3>1. token = Token(i, found[i]) BY <2>1
                <3> HIDE DEF token
                <3> QED BY <3>1, <2>1, <1>1, MatchToken, LengthAssumption, FoundFacts
          <2>2. CASE ~Worth(found[i])
                <3>1. token = Literal(i) BY <2>2
                <3> HIDE DEF token
                <3> QED BY <3>1, <2>2, <1>1, LiteralToken
          <2> QED BY <2>1, <2>2
    <1>3. /\ tokens' = Append(before, token) /\ i' = i + token.length
          /\ matchAvailable' = FALSE /\ prev' = prev
          BY DEF Take
    <1> HIDE DEF token
    <1>4. tokens' \in Seq(Tokens) /\ Tiles(tokens', i')
          BY <1>1, <1>2, <1>3, TileAppend
    <1>5. TypeOK' BY <1>2, <1>3, <1>4 DEF TypeOK
    <1>6. HeldIsPrevious' BY <1>3 DEF HeldIsPrevious
    <1>7. Covered' = i' BY <1>3, <1>5 DEF Covered, TypeOK
    <1>8. Tiled' BY <1>4, <1>7 DEF Tiled, Tiles
    <1>9. \A k \in 1..Len(tokens') : Faithful(tokens'[k]) /\ Justified(tokens'[k])
          BY <1>2, <1>3, StoreAppend
    <1>10. MatchesAreFound' /\ GivenUpForBetter'
          BY <1>9 DEF MatchesAreFound, GivenUpForBetter, Faithful, Justified
    <1> QED BY <1>5, <1>6, <1>8, <1>10 DEF IInv

(* The match at i held back, behind a store that ends at i. *)
LEMMA HoldStep ==
    ASSUME TypeOK, tokens' \in Seq(Tokens), Tiles(tokens', i), i < size,
           \A k \in 1..Len(tokens') : Faithful(tokens'[k]) /\ Justified(tokens'[k]),
           MayImprove(found[i]), Hold, UNCHANGED <<size, found>>
    PROVE  IInv'
    <1>1. i \in 0..(size - 1) /\ size \in Nat BY FindsAssumption DEF TypeOK
    <1>2. matchAvailable' = TRUE /\ prev' = found[i] /\ i' = i + 1 BY DEF Hold
    <1>3. TypeOK' BY <1>1, <1>2, FoundFacts DEF TypeOK
    <1>4. HeldIsPrevious'
          <2>1. i' > 0 /\ i' - 1 = i /\ found' = found BY <1>1, <1>2
          <2>2. prev' = found'[i' - 1] BY <2>1, <1>2
          <2>3. MayImprove(prev') BY <1>2
          <2> QED BY <2>1, <2>2, <2>3 DEF HeldIsPrevious, MayImprove, Worth, Score
    <1>5. Covered' = i BY <1>1, <1>2 DEF Covered
    <1>6. Tiled' BY <1>5 DEF Tiled, Tiles
    <1>7. MatchesAreFound' /\ GivenUpForBetter'
          BY DEF MatchesAreFound, GivenUpForBetter, Faithful, Justified
    <1> QED BY <1>3, <1>4, <1>6, <1>7 DEF IInv

(* The loop starts with nothing held back and an empty store. *)
LEMMA InitInv == Init => IInv
    <1> SUFFICES ASSUME Init PROVE IInv OBVIOUS
    <1> USE DEF Init
    <1>1. TypeOK
          <2>1. <<>> \in Seq(Tokens) BY EmptySeq
          <2>2. size \in Nat BY FindsAssumption
          <2>3. i \in 0..size /\ prev \in Match BY <2>2 DEF Match
          <2>4. matchAvailable \in BOOLEAN BY Zenon
          <2> QED BY <2>1, <2>3, <2>4 DEF TypeOK
    <1>2. Len(tokens) = 0 BY EmptySeq
    <1>3. HeldIsPrevious BY DEF HeldIsPrevious
    <1>4. Tiled
          <2>1. Covered = i - 0 BY Zenon DEF Covered
          <2>2. Covered = 0 BY <2>1
          <2> QED BY <1>2, <2>2 DEF Tiled, Tiles
    <1>5. MatchesAreFound /\ GivenUpForBetter
          BY <1>2 DEF MatchesAreFound, GivenUpForBetter
    <1> QED BY <1>1, <1>3, <1>4, <1>5 DEF IInv

(* Each iteration of the loop keeps the invariant. *)
LEMMA NextInv == IInv /\ [Next]_vars => IInv'
    <1> SUFFICES ASSUME IInv, [Next]_vars PROVE IInv' OBVIOUS
    <1>1. /\ TypeOK /\ HeldIsPrevious /\ Tiles(tokens, Covered)
          /\ \A k \in 1..Len(tokens) : Faithful(tokens[k]) /\ Justified(tokens[k])
          BY DEF IInv, Tiled, MatchesAreFound, GivenUpForBetter
    <1>2. size \in Nat /\ i \in 0..size /\ tokens \in Seq(Tokens) /\ matchAvailable \in BOOLEAN
          BY <1>1, FindsAssumption DEF TypeOK
    <1>3. CASE Fresh
          <2>1. i < size /\ ~matchAvailable /\ UNCHANGED <<size, found>>
                BY <1>3 DEF Fresh
          <2>2. Tiles(tokens, i) BY <2>1, <1>1, <1>2 DEF Covered
          <2>3. CASE MayImprove(found[i])
                <3>1. Hold /\ tokens' = tokens BY <2>3, <1>3 DEF Fresh
                <3> QED BY <3>1, <2>1, <2>2, <2>3, <1>1, <1>2, HoldStep
          <2>4. CASE ~MayImprove(found[i])
                <3>1. Take(tokens) BY <2>4, <1>3 DEF Fresh
                <3> QED BY <3>1, <2>1, <2>2, <1>1, <1>2, TakeStep
          <2> QED BY <2>3, <2>4
    <1>4. CASE GiveUp
          <2> DEFINE before == Append(tokens, Literal(i - 1))
          <2>1. i < size /\ matchAvailable /\ Gains /\ UNCHANGED <<size, found>>
                BY <1>4 DEF GiveUp
          <2>2. i > 0 /\ prev = found[i - 1] /\ i - 1 \in 0..(size - 1)
                BY <2>1, <1>1, <1>2 DEF HeldIsPrevious
          <2>3. Tiles(tokens, i - 1) BY <2>1, <1>1, <1>2 DEF Covered
          <2>4. /\ Literal(i - 1) \in Tokens
                /\ Literal(i - 1).pos = i - 1 /\ Literal(i - 1).length = 1
                /\ Faithful(Literal(i - 1))
                BY <2>2, <1>1, LiteralToken
          <2>5. Justified(Literal(i - 1))
                <3>1. (i - 1) + 1 = i BY <1>2
                <3>2. Score(found[i]) > Score(found[i - 1]) + 1 BY <2>1, <2>2 DEF Gains
                <3> QED BY <3>1, <3>2, <2>1, <2>2, <1>1, LiteralToken
          <2>6. before \in Seq(Tokens) /\ Tiles(before, i)
                <3>1. (i - 1) + 1 = i /\ i - 1 \in Nat BY <2>2, <1>2
                <3> QED BY <3>1, <2>3, <2>4, <1>2, TileAppend
          <2>7. \A k \in 1..Len(before) : Faithful(before[k]) /\ Justified(before[k])
                BY <2>4, <2>5, <1>1, <1>2, StoreAppend
          <2>8. CASE MayImprove(found[i])
                <3>1. Hold /\ tokens' = before BY <2>8, <1>4 DEF GiveUp
                <3> HIDE DEF before
                <3> QED BY <3>1, <2>1, <2>6, <2>7, <2>8, <1>1, HoldStep
          <2>9. CASE ~MayImprove(found[i])
                <3>1. Take(before) BY <2>9, <1>4 DEF GiveUp
                <3> HIDE DEF before
                <3> QED BY <3>1, <2>1, <2>6, <2>7, <1>1, TakeStep
          <2> QED BY <2>8, <2>9
    <1>5. CASE Keep
          <2> DEFINE token == Token(i - 1, prev)
          <2>1. /\ i < size /\ matchAvailable
                /\ tokens' = Append(tokens, token) /\ i' = i - 1 + prev.length
                /\ matchAvailable' = FALSE /\ UNCHANGED <<size, found, prev>>
                BY <1>5 DEF Keep
          <2>2. /\ i > 0 /\ prev = found[i - 1] /\ i - 1 \in 0..(size - 1)
                /\ Worth(found[i - 1])
                BY <2>1, <1>1, <1>2 DEF HeldIsPrevious, MayImprove
          <2>3. Tiles(tokens, i - 1) BY <2>1, <1>1, <1>2 DEF Covered
          <2>4. /\ token \in Tokens /\ token.pos = i - 1 /\ token.length = prev.length
                /\ i - 1 + prev.length <= size /\ prev.length \in Nat
                /\ Faithful(token) /\ Justified(token)
                <3>1. token = Token(i - 1, found[i - 1]) BY <2>2
                <3> HIDE DEF token
                <3> QED BY <3>1, <2>2, <1>1, MatchToken, FoundFacts
          <2> HIDE DEF token
          <2>5. tokens' \in Seq(Tokens) /\ Tiles(tokens', i')
                BY <2>1, <2>2, <2>3, <2>4, <1>2, TileAppend
          <2>6. \A k \in 1..Len(tokens') : Faithful(tokens'[k]) /\ Justified(tokens'[k])
                BY <2>1, <2>4, <1>1, <1>2, StoreAppend
          <2>7. TypeOK'
                <3>1. i' \in 0..size' BY <2>1, <2>2, <2>4, <1>2
                <3>2. matchAvailable' \in BOOLEAN BY <2>1, Zenon
                <3> QED BY <3>1, <3>2, <2>1, <2>5, <1>1 DEF TypeOK
          <2>8. Covered' = i' BY <2>1, <2>7 DEF Covered, TypeOK
          <2>9. Tiled' BY <2>5, <2>8 DEF Tiled, Tiles
          <2>10. MatchesAreFound' /\ GivenUpForBetter'
                BY <2>1, <2>6 DEF MatchesAreFound, GivenUpForBetter, Faithful, Justified
          <2>11. HeldIsPrevious' BY <2>1 DEF HeldIsPrevious
          <2> QED BY <2>7, <2>9, <2>10, <2>11 DEF IInv
    <1>6. CASE Finished \/ UNCHANGED vars
          <2>1. UNCHANGED vars BY <1>6 DEF Finished
          <2> QED BY <2>1 DEF vars, IInv, TypeOK, HeldIsPrevious, MayImprove, Worth, Score, Tiled,
                  Tiles, Covered, MatchesAreFound, GivenUpForBetter, Faithful, Justified
    <1> QED BY <1>3, <1>4, <1>5, <1>6 DEF Next

(* A match held back behind the last byte would have to reach over the end. *)
LEMMA InvWhole == IInv => Whole
    <1> SUFFICES ASSUME IInv, i >= size PROVE Tiles(tokens, size) BY DEF Whole
    <1>1. TypeOK /\ HeldIsPrevious /\ Tiles(tokens, Covered) BY DEF IInv, Tiled
    <1>2. i = size /\ size \in Nat BY <1>1, FindsAssumption DEF TypeOK
    <1>3. ~matchAvailable
          <2> SUFFICES ASSUME matchAvailable PROVE FALSE OBVIOUS
          <2>1. i - 1 \in 0..(size - 1) /\ Worth(found[i - 1])
                BY <1>1, <1>2 DEF HeldIsPrevious, MayImprove
          <2> QED BY <2>1, <1>1, <1>2, FoundFacts, LengthAssumption DEF Worth
    <1> QED BY <1>1, <1>2, <1>3 DEF Covered

(* The invariant holds of every parse. *)
THEOREM Invariant == Spec => []IInv
    <1> QED BY InitInv, NextInv, PTL DEF Spec

(* Every variable stays in its range, and i within the block (lz77Greedy). *)
THEOREM TypeCorrect == Spec => []TypeOK
    <1>1. IInv => TypeOK BY DEF IInv
    <1> QED BY <1>1, Invariant, PTL

(* The tokens tile the block up to the byte the loop is at (lz77Greedy). *)
THEOREM TilesBlock == Spec => []Tiled
    <1>1. IInv => Tiled BY DEF IInv
    <1> QED BY <1>1, Invariant, PTL

(* A loop that has ended has stored the whole block (lz77Greedy). *)
THEOREM StoresWholeBlock == Spec => []Whole
    <1> QED BY InvWhole, Invariant, PTL

(* A stored match is the one of its own byte (lz77Greedy). *)
THEOREM StoresFoundMatches == Spec => []MatchesAreFound
    <1>1. IInv => MatchesAreFound BY DEF IInv
    <1> QED BY <1>1, Invariant, PTL

(* A match is given up only for a better one (lz77Greedy, getLengthScore). *)
THEOREM GivesUpForBetter == Spec => []GivenUpForBetter
    <1>1. IInv => GivenUpForBetter BY DEF IInv
    <1> QED BY <1>1, Invariant, PTL

-----------------------------------------------------------------------------
(* The loop (lz77OptimalWithScratch).  LoopTypeOK and StoreIsBest are      *)
(* inductive together: that the two stores are different buffers is what   *)
(* keeps an iteration that does not improve from writing over the best     *)
(* parse.                                                                  *)
StatisticsSet == [kind: Kinds, iteration: Nat]

(* The loop starts with two buffers and a best cost no parse reaches. *)
LEMMA LoopBegins == LoopInit => LoopInv
    <1> SUFFICES ASSUME LoopInit PROVE LoopInv OBVIOUS
    <1>1. NoStatistics \in StatisticsSet /\ Statistics("parse", 0) \in StatisticsSet
          BY DEF NoStatistics, Statistics, StatisticsSet, Kinds
    <1>2. NoParse \in [under: StatisticsSet, cost: Nat]
          BY <1>1, ParseAssumption DEF NoParse, Parse
    <1>3. numIterations \in Nat BY ParseAssumption DEF LoopInit
    <1>4. LoopTypeOK BY <1>1, <1>2, <1>3, ParseAssumption DEF LoopInit, LoopTypeOK, Buffers, StatisticsSet
    <1>5. StoreIsBest BY DEF LoopInit, StoreIsBest, NoParse, Parse, Buffers
    <1> QED BY <1>4, <1>5 DEF LoopInv

(* What an iteration does to the two stores and what they hold. *)
LEMMA IterateStores ==
    ASSUME LoopInv, NEW c \in Costs, Iterate(c)
    PROVE  /\ store' \in Buffers /\ currentStore' \in Buffers /\ store' # currentStore'
           /\ c < bestCost => content'[store'] = Parse(stats, c) /\ bestCost' = c /\ bestStats' = stats
           /\ ~(c < bestCost) => /\ content'[store'] = content[store]
                                /\ bestCost' = bestCost /\ bestStats' = bestStats
    <1>1. /\ store \in Buffers /\ currentStore \in Buffers /\ store # currentStore
          /\ content \in [Buffers -> [under: StatisticsSet, cost: Nat]]
          BY DEF LoopInv, LoopTypeOK, StoreIsBest, StatisticsSet
    <1>2. /\ content' = [content EXCEPT ![currentStore] = Parse(stats, c)]
          /\ bestCost' = IF Improved(c) THEN c ELSE bestCost
          /\ bestStats' = BehindBest(Improved(c))
          /\ Exchange(Improved(c))
          BY DEF Iterate
    <1>3. CASE c < bestCost
          <2>1. store' = currentStore /\ currentStore' = store
                BY <1>2, <1>3 DEF Exchange, Improved
          <2> QED BY <2>1, <1>1, <1>2, <1>3 DEF Improved, BehindBest
    <1>4. CASE ~(c < bestCost)
          <2>1. store' = store /\ currentStore' = currentStore
                BY <1>2, <1>4 DEF Exchange, Improved
          <2> QED BY <2>1, <1>1, <1>2, <1>4 DEF Improved, BehindBest
    <1> QED BY <1>3, <1>4

(* An iteration keeps every variable in its range. *)
LEMMA IterateType ==
    ASSUME LoopInv, NEW c \in Costs, Iterate(c)
    PROVE  LoopTypeOK'
    <1>1. c \in Nat /\ numIterations \in Nat /\ iteration \in Nat /\ LoopTypeOK
          BY ParseAssumption DEF LoopInv, LoopTypeOK
    <1>2. stats' \in StatisticsSet
          <2>1. \A kind \in Kinds : Statistics(kind, iteration + 1) \in StatisticsSet
                BY <1>1 DEF Statistics, StatisticsSet
          <2>2. "shuffled" \in Kinds /\ "weighed" \in Kinds /\ "parse" \in Kinds BY DEF Kinds
          <2>3. \E kind \in {"shuffled", "weighed", "parse"} :
                    stats' = Statistics(kind, iteration + 1)
                BY DEF Iterate
          <2> QED BY <2>1, <2>2, <2>3
    <1>3. content' \in [Buffers -> [under: StatisticsSet, cost: Nat]]
          <2>1. Parse(stats, c) \in [under: StatisticsSet, cost: Nat]
                BY <1>1 DEF LoopTypeOK, Parse, StatisticsSet
          <2> QED BY <2>1, <1>1 DEF Iterate, LoopTypeOK, StatisticsSet
    <1>4. iteration' \in 0..numIterations' /\ lastrandomstep' \in -1..numIterations'
          BY <1>1 DEF Iterate, More, LoopTypeOK
    <1>5. bestStats' \in StatisticsSet /\ bestCost' \in Nat /\ lastCost' = c
          BY <1>1, IterateStores DEF Iterate, LoopTypeOK, StatisticsSet
    <1>6. numIterations' = numIterations BY DEF Iterate
    <1> QED BY <1>1, <1>2, <1>3, <1>4, <1>5, <1>6, IterateStores DEF LoopTypeOK, StatisticsSet

(* An iteration leaves the best parse in store. *)
LEMMA IterateBest ==
    ASSUME LoopInv, NEW c \in Costs, Iterate(c)
    PROVE  StoreIsBest'
    <1>1. StoreIsBest /\ bestCost \in Nat /\ c \in Nat /\ c < LargeFloat /\ LargeFloat \in Nat
          BY ParseAssumption DEF LoopInv, LoopTypeOK
    <1>2. Parse(stats, c).cost = c /\ Parse(stats, c).under = stats BY DEF Parse
    <1>4. CASE c < bestCost
          BY <1>1, <1>2, <1>4, IterateStores DEF StoreIsBest
    <1>5. CASE ~(c < bestCost)
          <2>1. bestCost # LargeFloat BY <1>1, <1>5
          <2> QED BY <2>1, <1>1, <1>5, IterateStores DEF StoreIsBest
    <1> QED BY <1>4, <1>5

(* Every step keeps the invariant. *)
LEMMA LoopKeepsInv == LoopInv /\ [LoopNext]_loopVars => LoopInv'
    <1> SUFFICES ASSUME LoopInv, [LoopNext]_loopVars PROVE LoopInv' OBVIOUS
    <1>1. ASSUME NEW c \in Costs, Iterate(c) PROVE LoopInv'
          BY <1>1, IterateType, IterateBest DEF LoopInv
    <1>2. CASE UNCHANGED loopVars
          BY <1>2 DEF loopVars, LoopInv, LoopTypeOK, StoreIsBest
    <1> QED BY <1>1, <1>2 DEF LoopNext, Returned

(* The invariant holds of every call. *)
THEOREM LoopInvariant == LoopSpec => []LoopInv
    <1> QED BY LoopBegins, LoopKeepsInv, PTL DEF LoopSpec

(* Every variable stays in its range. *)
THEOREM LoopTypeCorrect == LoopSpec => []LoopTypeOK
    <1>1. LoopInv => LoopTypeOK BY DEF LoopInv
    <1> QED BY <1>1, LoopInvariant, PTL

(* The stores never share memory, and store holds the parse of bestCost    *)
(* made under bestStats (lz77OptimalWithScratch).                          *)
THEOREM BestParseIsStored == LoopSpec => []StoreIsBest
    <1>1. LoopInv => StoreIsBest BY DEF LoopInv
    <1> QED BY <1>1, LoopInvariant, PTL

(* No iteration loses the cheapest parse (lz77OptimalWithScratch). *)
THEOREM CheapestIsKept == LoopSpec => KeepsCheapest
    <1> DEFINE Step == IF lastCost' < content[store].cost
                       THEN content'[store'] = Parse(stats, lastCost')
                       ELSE content'[store'] = content[store]
    <1>1. LoopInv /\ [LoopNext]_loopVars => [Step]_<<iteration, content>>
          <2> SUFFICES ASSUME LoopInv, [LoopNext]_loopVars PROVE [Step]_<<iteration, content>> OBVIOUS
          <2>1. ASSUME NEW c \in Costs, Iterate(c) PROVE Step
                <3>1. lastCost' = c /\ content[store].cost = bestCost
                      BY <2>1 DEF Iterate, LoopInv, StoreIsBest
                <3> QED BY <3>1, <2>1, IterateStores
          <2>2. CASE UNCHANGED loopVars BY <2>2 DEF loopVars
          <2> QED BY <2>1, <2>2 DEF LoopNext, Returned
    <1> QED BY <1>1, LoopInvariant, PTL DEF LoopSpec, KeepsCheapest

-----------------------------------------------------------------------------
(* Package-merge: the leaves are the used symbols in order.                *)
LeafType == [weight : Nat \ {0}, symbol : Nat]

SortedLeaves(lv) ==
    /\ lv \in Seq(LeafType)
    /\ \A k, m \in 1..Len(lv) : k <= m => lv[k].weight <= lv[m].weight

(* How many symbols come before one numbers them.                          *)
LEMMA RankNumbers ==
    ASSUME NEW U \in SUBSET Nat, IsFiniteSet(U), NEW f, \A s \in U : f[s] \in Nat,
           NEW rank, rank = [s \in U |-> Cardinality({t \in U : Before(f, t, s)})]
    PROVE  /\ rank \in [U -> 0..(Cardinality(U) - 1)]
           /\ \A s, t \in U : Before(f, s, t) => rank[s] < rank[t]
           /\ \A s, t \in U : rank[s] = rank[t] => s = t
           /\ \A k \in 0..(Cardinality(U) - 1) : \E s \in U : rank[s] = k
    <1> DEFINE n == Cardinality(U)
               Below(s) == {t \in U : Before(f, t, s)}
    <1>1. n \in Nat BY FS_CardinalityType
    <1>2. ASSUME NEW s \in U
          PROVE  /\ IsFiniteSet(Below(s)) /\ Cardinality(Below(s)) \in 0..(n - 1)
                 /\ rank[s] = Cardinality(Below(s)) /\ s \notin Below(s)
          <2>1. s \notin Below(s) BY DEF Before
          <2>2. IsFiniteSet(Below(s)) /\ Cardinality(Below(s)) <= n /\ Cardinality(Below(s)) # n
                BY <2>1, FS_Subset
          <2>3. Cardinality(Below(s)) \in Nat BY <2>2, FS_CardinalityType
          <2> QED BY <2>1, <2>2, <2>3, <1>1
    <1>3. rank \in [U -> 0..(n - 1)] BY <1>2
    <1>4. ASSUME NEW s \in U, NEW t \in U, Before(f, s, t)
          PROVE  rank[s] < rank[t]
          <2>1. \A x \in Below(s) : x \in Below(t)
                BY <1>4 DEF Before
          <2>2. s \in Below(t) /\ s \notin Below(s) BY <1>4, <1>2
          <2>3. Below(s) \in SUBSET Below(t) /\ Below(s) # Below(t)
                BY <2>1, <2>2
          <2> HIDE DEF Below
          <2>4. Cardinality(Below(s)) <= Cardinality(Below(t)) /\ Cardinality(Below(s)) # Cardinality(Below(t))
                BY <2>3, <1>2, FS_Subset
          <2> QED BY <2>4, <1>2, <1>1
    <1>5. ASSUME NEW s \in U, NEW t \in U, rank[s] = rank[t]
          PROVE  s = t
          <2>1. s = t \/ Before(f, s, t) \/ Before(f, t, s)
                BY DEF Before
          <2>2. rank[s] \in Int /\ rank[t] \in Int BY <1>3, <1>1
          <2> QED BY <2>1, <2>2, <1>4, <1>5
    <1>6. rank \in Injection(U, 0..(n - 1))
          BY <1>3, <1>5 DEF Injection, IsInjective
    <1>7. IsFiniteSet(0..(n - 1)) /\ Cardinality(0..(n - 1)) = n
          <2>1. n - 1 \in Int /\ 0 \in Int BY <1>1
          <2> HIDE DEF n
          <2>2. IsFiniteSet(0..(n - 1))
                /\ Cardinality(0..(n - 1)) = IF 0 > n - 1 THEN 0 ELSE (n - 1) - 0 + 1
                BY <2>1, FS_Interval
          <2> QED BY <2>2, <1>1
    <1>8. rank \in Surjection(U, 0..(n - 1))
          BY <1>6, <1>7, FS_Injection
    <1> QED BY <1>3, <1>4, <1>5, <1>8 DEF Surjection

LEMMA LeavesAreUsed ==
    ASSUME NEW f \in Frequencies
    PROVE  /\ SortedLeaves(Leaves(f))
           /\ Len(Leaves(f)) = Cardinality(Used(f))
           /\ \A s \in Used(f) : \E k \in 1..Len(Leaves(f)) : Leaves(f)[k].symbol = s
           /\ \A k \in 1..Len(Leaves(f)) : Leaves(f)[k].symbol \in Used(f)
           /\ \A k, m \in 1..Len(Leaves(f)) : Leaves(f)[k].symbol = Leaves(f)[m].symbol => k = m
    <1> DEFINE U == Used(f)
               rank == [s \in U |-> Cardinality({t \in U : Before(f, t, s)})]
               symbol(k) == CHOOSE s \in U : rank[s] = k - 1
               n == Cardinality(U)
    <1>1. U \in SUBSET Nat /\ IsFiniteSet(U) /\ \A s \in U : f[s] \in Nat \ {0}
          <2>1. IsFiniteSet(DOMAIN f) /\ DOMAIN f = 0..(Cardinality(DOMAIN f) - 1)
                /\ \A s \in DOMAIN f : f[s] \in Nat
                BY FrequenciesAssumption
          <2>2. U \in SUBSET DOMAIN f /\ \A s \in U : f[s] # 0 BY DEF Used
          <2> HIDE DEF U
          <2>3. IsFiniteSet(U) BY <2>1, <2>2, FS_Subset
          <2>4. Cardinality(DOMAIN f) \in Nat BY <2>1, FS_CardinalityType
          <2>5. U \in SUBSET Nat BY <2>1, <2>2, <2>4
          <2> QED BY <2>1, <2>2, <2>3, <2>5
    <1>2. n \in Nat BY <1>1, FS_CardinalityType
    <1>3. /\ rank \in [U -> 0..(n - 1)]
          /\ \A s, t \in U : Before(f, s, t) => rank[s] < rank[t]
          /\ \A s, t \in U : rank[s] = rank[t] => s = t
          /\ \A k \in 0..(n - 1) : \E s \in U : rank[s] = k
          <2>1. rank = [s \in U |-> Cardinality({t \in U : Before(f, t, s)})]
                OBVIOUS
          <2>2. \A s \in U : f[s] \in Nat BY <1>1
          <2> HIDE DEF U, rank
          <2> QED BY <1>1, <2>1, <2>2, RankNumbers
    <1>4. Leaves(f) = [k \in 1..n |-> [weight |-> f[symbol(k)], symbol |-> symbol(k)]]
          BY DEF Leaves
    <1> HIDE DEF U, rank
    <1>5. ASSUME NEW k \in 1..n PROVE symbol(k) \in U /\ rank[symbol(k)] = k - 1
          <2>1. k - 1 \in 0..(n - 1) BY <1>2
          <2>2. \E s \in U : rank[s] = k - 1 BY <2>1, <1>3
          <2> QED BY <2>2
    <1> HIDE DEF symbol
    <1>6. /\ Leaves(f) \in Seq(LeafType) /\ Len(Leaves(f)) = n
          /\ \A k \in 1..n : /\ Leaves(f)[k].weight = f[symbol(k)]
                             /\ Leaves(f)[k].symbol = symbol(k)
          <2>1. \A k \in 1..n : [weight |-> f[symbol(k)], symbol |-> symbol(k)] \in LeafType
                BY <1>5, <1>1 DEF LeafType
          <2> QED BY <2>1, <1>4, <1>2, IsASeq, LenProperties
    <1>7. ASSUME NEW k \in 1..n, NEW m \in 1..n, k <= m
          PROVE  f[symbol(k)] <= f[symbol(m)]
          <2>1. symbol(k) \in U /\ symbol(m) \in U /\ rank[symbol(k)] = k - 1 /\ rank[symbol(m)] = m - 1
                BY <1>5
          <2>2. ASSUME f[symbol(m)] < f[symbol(k)] PROVE FALSE
                <3>1. Before(f, symbol(m), symbol(k)) BY <2>2 DEF Before
                <3>2. m - 1 < k - 1 BY <3>1, <2>1, <1>3
                <3> QED BY <3>2, <1>7, <1>2
          <2>3. f[symbol(k)] \in Nat /\ f[symbol(m)] \in Nat BY <2>1, <1>1
          <2> QED BY <2>2, <2>3
    <1>8. ASSUME NEW s \in U PROVE \E k \in 1..n : symbol(k) = s
          <2>1. rank[s] \in 0..(n - 1) BY <1>3
          <2>2. rank[s] + 1 \in 1..n /\ (rank[s] + 1) - 1 = rank[s] BY <2>1, <1>2
          <2>3. symbol(rank[s] + 1) \in U /\ rank[symbol(rank[s] + 1)] = rank[s] BY <2>2, <1>5
          <2>4. symbol(rank[s] + 1) = s BY <2>3, <1>3
          <2> QED BY <2>2, <2>4
    <1>9. SortedLeaves(Leaves(f)) BY <1>6, <1>7 DEF SortedLeaves
    <1>10. ASSUME NEW k \in 1..n, NEW m \in 1..n, symbol(k) = symbol(m) PROVE k = m
           <2>1. rank[symbol(k)] = k - 1 /\ rank[symbol(m)] = m - 1 BY <1>5
           <2> QED BY <2>1, <1>10, <1>2
    <1> QED BY <1>5, <1>6, <1>8, <1>9, <1>10 DEF U

(* The pool and the lists: their types.                                    *)
NodeType == [weight : Nat, count : Nat, tail : Nat]

PoolType(p, lim) ==
    /\ p \in [pool : Seq(NodeType), lists : [1..lim -> Nat \X Nat]]
    /\ \A j \in 1..lim : p.lists[j][1] \in 1..Len(p.pool) /\ p.lists[j][2] \in 1..Len(p.pool)

FirstChain(p, j) == p.pool[p.lists[j][1]]

(* Chains get heavier: the last one of a list is not lighter than the one  *)
(* before, than its last leaf, and not heavier than what may come next, a  *)
(* leaf or a package of the list below.                                    *)
Heavier(p, lv, j, node) ==
    /\ node.count \in 2..Len(lv)
    /\ lv[node.count].weight <= node.weight
    /\ node.count < Len(lv) => node.weight <= lv[node.count + 1].weight
    /\ j > 1 => /\ node.weight <= Pair(p, j - 1)
                /\ lv[node.count].weight <= Pair(p, j - 1)

InOrder(p, lv, lim) ==
    \A j \in 1..lim : /\ FirstChain(p, j).weight > 0
                      /\ FirstChain(p, j).weight <= LastChain(p, j).weight
                      /\ Heavier(p, lv, j, LastChain(p, j))

LEMMA ChainTypes ==
    ASSUME NEW p, NEW lim \in Nat, PoolType(p, lim), NEW j \in 1..lim
    PROVE  /\ FirstChain(p, j) \in NodeType /\ LastChain(p, j) \in NodeType
           /\ FirstChain(p, j).weight \in Nat /\ LastChain(p, j).weight \in Nat
           /\ LastChain(p, j).count \in Nat /\ LastChain(p, j).tail \in Nat
           /\ Pair(p, j) = FirstChain(p, j).weight + LastChain(p, j).weight
           /\ Pair(p, j) \in Nat
           /\ Len(p.pool) \in Nat
    <1>1. p.pool \in Seq(NodeType) /\ p.lists[j][1] \in 1..Len(p.pool) /\ p.lists[j][2] \in 1..Len(p.pool)
          BY DEF PoolType
    <1>2. FirstChain(p, j) \in NodeType /\ LastChain(p, j) \in NodeType
          BY <1>1, ElementOfSeq DEF FirstChain, LastChain
    <1>3. Pair(p, j) = FirstChain(p, j).weight + LastChain(p, j).weight
          BY DEF Pair, FirstChain, LastChain
    <1>4. \A x \in NodeType : x.weight \in Nat /\ x.count \in Nat /\ x.tail \in Nat
          BY DEF NodeType
    <1>5. Len(p.pool) \in Nat BY <1>1, LenProperties
    <1>6. \A a, b \in Nat : a + b \in Nat OBVIOUS
    <1> QED BY <1>2, <1>3, <1>4, <1>5, <1>6

(* What a new chain changes.                                               *)
LEMMA NextChainIs ==
    ASSUME NEW p, NEW lim \in Nat, PoolType(p, lim), NEW j \in 1..lim, NEW node \in NodeType
    PROVE  LET q == NextChain(p, j, node)
           IN  /\ PoolType(q, lim)
               /\ Len(q.pool) = Len(p.pool) + 1
               /\ q.pool[Len(p.pool) + 1] = node
               /\ \A k \in 1..Len(p.pool) : q.pool[k] = p.pool[k]
               /\ q.lists[j][1] = p.lists[j][2] /\ q.lists[j][2] = Len(p.pool) + 1
               /\ \A g \in 1..lim : g # j => q.lists[g] = p.lists[g]
               /\ FirstChain(q, j) = LastChain(p, j) /\ LastChain(q, j) = node
               /\ \A g \in 1..lim : g # j => /\ FirstChain(q, g) = FirstChain(p, g)
                                           /\ LastChain(q, g) = LastChain(p, g)
                                           /\ Pair(q, g) = Pair(p, g)
    <1> DEFINE q == NextChain(p, j, node)
               m == Len(p.pool)
    <1>1. /\ p.pool \in Seq(NodeType) /\ p.lists \in [1..lim -> Nat \X Nat] /\ m \in Nat
          /\ \A g \in 1..lim : p.lists[g][1] \in 1..m /\ p.lists[g][2] \in 1..m
          BY LenProperties DEF PoolType
    <1>2. q.pool = Append(p.pool, node) /\ q.lists = [p.lists EXCEPT ![j] = <<@[2], m + 1>>]
          /\ q = [pool |-> q.pool, lists |-> q.lists]
          BY DEF NextChain
    <1> HIDE DEF q, m
    <1>3. /\ q.pool \in Seq(NodeType) /\ Len(q.pool) = m + 1 /\ q.pool[m + 1] = node
          /\ \A k \in 1..m : q.pool[k] = p.pool[k]
          BY <1>1, <1>2, AppendProperties DEF m
    <1>4. /\ q.lists \in [1..lim -> Nat \X Nat]
          /\ q.lists[j][1] = p.lists[j][2] /\ q.lists[j][2] = m + 1
          /\ \A g \in 1..lim : g # j => q.lists[g] = p.lists[g]
          <2>1. p.lists[j][2] \in Nat BY <1>1
          <2> QED BY SMTT(30), <1>1, <1>2, <2>1
    <1>5. \A g \in 1..lim : q.lists[g][1] \in 1..Len(q.pool) /\ q.lists[g][2] \in 1..Len(q.pool)
          <2> TAKE g \in 1..lim
          <2>1. CASE g = j
                <3>1. p.lists[j][2] \in 1..m /\ m \in Nat BY <1>1
                <3>2. q.lists[g][1] = p.lists[j][2] /\ q.lists[g][2] = m + 1 BY <2>1, <1>4
                <3> QED BY ONLY <3>1, <3>2, <1>3
          <2>2. CASE g # j
                <3>1. q.lists[g] = p.lists[g] BY <2>2, <1>4
                <3>2. p.lists[g][1] \in 1..m /\ p.lists[g][2] \in 1..m BY <1>1
                <3>3. \A k \in 1..m : k \in 1..(m + 1) BY ONLY <1>1
                <3> QED BY <3>1, <3>2, <3>3, <1>3
          <2> QED BY <2>1, <2>2
    <1>6. PoolType(q, lim) BY ZenonT(30), <1>2, <1>3, <1>4, <1>5 DEF PoolType
    <1>7. FirstChain(q, j) = LastChain(p, j) /\ LastChain(q, j) = node
          <2>1. p.lists[j][2] \in 1..m BY <1>1
          <2>2. q.pool[q.lists[j][1]] = p.pool[p.lists[j][2]] BY SMTT(30), <2>1, <1>3, <1>4
          <2>3. q.pool[q.lists[j][2]] = node BY <1>3, <1>4
          <2> QED BY <2>2, <2>3 DEF FirstChain, LastChain
    <1>8. ASSUME NEW g \in 1..lim, g # j
          PROVE  /\ FirstChain(q, g) = FirstChain(p, g) /\ LastChain(q, g) = LastChain(p, g)
                 /\ Pair(q, g) = Pair(p, g)
          <2>1. q.lists[g] = p.lists[g] BY <1>8, <1>4
          <2>2. q.pool[p.lists[g][1]] = p.pool[p.lists[g][1]] /\ q.pool[p.lists[g][2]] = p.pool[p.lists[g][2]]
                BY <1>1, <1>3
          <2> QED BY <2>1, <2>2 DEF FirstChain, LastChain, Pair
    <1> QED BY <1>3, <1>4, <1>6, <1>7, <1>8 DEF q, m

LEMMA OrderKept ==
    ASSUME NEW p, NEW lim \in Nat, PoolType(p, lim), NEW lv, SortedLeaves(lv), InOrder(p, lv, lim),
           NEW j \in 1..lim, NEW node \in NodeType, Heavier(p, lv, j, node),
           LastChain(p, j).weight <= node.weight
    PROVE  InOrder(NextChain(p, j, node), lv, lim)
    <1> DEFINE q == NextChain(p, j, node)
    <1>1. /\ PoolType(q, lim)
          /\ FirstChain(q, j) = LastChain(p, j) /\ LastChain(q, j) = node
          /\ \A g \in 1..lim : g # j => /\ FirstChain(q, g) = FirstChain(p, g)
                                      /\ LastChain(q, g) = LastChain(p, g)
                                      /\ Pair(q, g) = Pair(p, g)
          BY NextChainIs
    <1> HIDE DEF q
    <1>2. Pair(q, j) >= Pair(p, j) /\ Pair(q, j) \in Nat /\ Pair(p, j) \in Nat
          <2>1. /\ Pair(p, j) = FirstChain(p, j).weight + LastChain(p, j).weight /\ Pair(p, j) \in Nat
                /\ FirstChain(p, j).weight \in Nat /\ LastChain(p, j).weight \in Nat
                BY ChainTypes
          <2>2. Pair(q, j) = LastChain(p, j).weight + node.weight /\ Pair(q, j) \in Nat
                BY <1>1, ChainTypes
          <2>3. FirstChain(p, j).weight <= LastChain(p, j).weight BY DEF InOrder
          <2>4. node.weight \in Nat BY DEF NodeType
          <2> QED BY <2>1, <2>2, <2>3, <2>4
    <1> SUFFICES ASSUME NEW g \in 1..lim
                 PROVE  /\ FirstChain(q, g).weight > 0
                        /\ FirstChain(q, g).weight <= LastChain(q, g).weight
                        /\ Heavier(q, lv, g, LastChain(q, g))
          BY DEF InOrder, q
    <1>3. g > 1 => g - 1 \in 1..lim OBVIOUS
    <1>4. CASE g = j
          <2>1. g > 1 => Pair(q, g - 1) = Pair(p, g - 1)
                BY <1>4, <1>3, <1>1
          <2>2. Heavier(q, lv, g, node) BY <2>1, <1>4 DEF Heavier
          <2>3. LastChain(p, j).weight > 0
                BY ChainTypes DEF InOrder
          <2> QED BY <2>2, <2>3, <1>4, <1>1
    <1>5. CASE g # j
          <2> DEFINE last == LastChain(p, g)
          <2>1. FirstChain(q, g) = FirstChain(p, g) /\ LastChain(q, g) = last BY <1>5, <1>1
          <2>2. Heavier(p, lv, g, last) BY DEF InOrder
          <2>3. last.weight \in Nat /\ lv[last.count].weight \in Nat
                <3>1. last.count \in 1..Len(lv) BY <2>2 DEF Heavier
                <3>2. lv[last.count] \in LeafType BY <3>1, ElementOfSeq DEF SortedLeaves
                <3> QED BY <3>2, ChainTypes DEF LeafType
          <2>4. g > 1 => Pair(q, g - 1) >= Pair(p, g - 1) /\ Pair(q, g - 1) \in Nat /\ Pair(p, g - 1) \in Nat
                <3>1. CASE g - 1 = j BY <3>1, <1>2
                <3>2. CASE g - 1 # j /\ g > 1
                      <4>1. Pair(q, g - 1) = Pair(p, g - 1) BY <3>2, <1>3, <1>1
                      <4> QED BY <4>1, <3>2, <1>3, ChainTypes
                <3> QED BY <3>1, <3>2
          <2> HIDE DEF last
          <2>5. Heavier(q, lv, g, last)
                BY <2>2, <2>3, <2>4 DEF Heavier
          <2>6. FirstChain(p, g).weight > 0 /\ FirstChain(p, g).weight <= last.weight
                BY DEF InOrder, last
          <2> QED BY <2>1, <2>5, <2>6
    <1> QED BY <1>4, <1>5

(* One more leaf.                                                          *)
LEMMA LeafIs ==
    ASSUME NEW p, NEW lim \in Nat, PoolType(p, lim), NEW lv, SortedLeaves(lv), InOrder(p, lv, lim),
           NEW j \in 1..lim, TakesLeaf(p, lv, j, LastChain(p, j).count)
    PROVE  \E node \in NodeType :
              /\ NextLeaf(p, lv, j) = NextChain(p, j, node)
              /\ node.count = LastChain(p, j).count + 1
              /\ node.tail = IF j = 1 THEN NoNode ELSE LastChain(p, j).tail
              /\ InOrder(NextLeaf(p, lv, j), lv, lim)
    <1> DEFINE last == LastChain(p, j)
               node == Node(lv[last.count + 1].weight, last.count + 1, IF j = 1 THEN NoNode ELSE last.tail)
    <1>1. NextLeaf(p, lv, j) = NextChain(p, j, node) BY DEF NextLeaf
    <1>2. Heavier(p, lv, j, last) /\ last.weight \in Nat /\ last.count \in Nat /\ last.tail \in Nat
          BY ChainTypes DEF InOrder
    <1>3. /\ last.count \in 2..Len(lv) /\ last.count < Len(lv) /\ Len(lv) \in Nat
          /\ j > 1 => Pair(p, j - 1) > lv[last.count + 1].weight
          BY <1>2, LenProperties DEF TakesLeaf, Heavier, SortedLeaves
    <1>4. lv[last.count + 1] \in LeafType
          BY <1>3, ElementOfSeq DEF SortedLeaves
    <1>5. node \in NodeType /\ node.weight = lv[last.count + 1].weight /\ node.count = last.count + 1
          /\ node.tail = IF j = 1 THEN NoNode ELSE last.tail
          BY <1>2, <1>4 DEF NodeType, Node, NoNode, LeafType
    <1>6. j > 1 => Pair(p, j - 1) \in Nat
          <2>1. j > 1 => j - 1 \in 1..lim OBVIOUS
          <2> QED BY <2>1, ChainTypes
    <1> HIDE DEF node, last
    <1>7. Heavier(p, lv, j, node)
          <2>1. node.count < Len(lv) => lv[node.count].weight <= lv[node.count + 1].weight
                BY SMTT(30), <1>3, <1>5 DEF SortedLeaves
          <2>2. node.weight \in Nat BY <1>5 DEF NodeType
          <2> QED BY SMTT(30), <2>1, <2>2, <1>3, <1>5, <1>6 DEF Heavier
    <1>8. last.weight <= node.weight BY <1>2, <1>3, <1>5 DEF Heavier
    <1>9. InOrder(NextChain(p, j, node), lv, lim)
          BY <1>5, <1>7, <1>8, OrderKept DEF last
    <1> QED BY <1>1, <1>5, <1>9 DEF last

(* A package.                                                              *)
LEMMA PackageIs ==
    ASSUME NEW p, NEW lim \in Nat, PoolType(p, lim), NEW lv, SortedLeaves(lv), InOrder(p, lv, lim),
           NEW j \in 2..lim, ~TakesLeaf(p, lv, j, LastChain(p, j).count)
    PROVE  \E node \in NodeType :
              /\ NextPackage(p, j) = NextChain(p, j, node)
              /\ node.count = LastChain(p, j).count
              /\ node.tail = p.lists[j - 1][2]
              /\ InOrder(NextPackage(p, j), lv, lim)
    <1> DEFINE last == LastChain(p, j)
               node == Node(Pair(p, j - 1), last.count, p.lists[j - 1][2])
    <1>1. NextPackage(p, j) = NextChain(p, j, node) BY DEF NextPackage
    <1>2. j \in 1..lim /\ j - 1 \in 1..lim OBVIOUS
    <1>3. Heavier(p, lv, j, last) /\ last.weight \in Nat /\ last.count \in Nat
          BY <1>2, ChainTypes DEF InOrder
    <1>4. Pair(p, j - 1) \in Nat /\ p.lists[j - 1][2] \in Nat
          BY <1>2, ChainTypes DEF PoolType
    <1>5. node \in NodeType /\ node.weight = Pair(p, j - 1) /\ node.count = last.count
          /\ node.tail = p.lists[j - 1][2]
          BY <1>3, <1>4 DEF NodeType, Node
    <1>6. last.count < Len(lv) => Pair(p, j - 1) <= lv[last.count + 1].weight
          <2> SUFFICES ASSUME last.count < Len(lv) PROVE Pair(p, j - 1) <= lv[last.count + 1].weight
                OBVIOUS
          <2>1. ~ (Pair(p, j - 1) > lv[last.count + 1].weight) BY DEF TakesLeaf
          <2>2. last.count + 1 \in 1..Len(lv) BY <1>3, LenProperties DEF Heavier, SortedLeaves
          <2>3. lv[last.count + 1].weight \in Nat
                <3>1. lv[last.count + 1] \in LeafType BY <2>2, ElementOfSeq DEF SortedLeaves
                <3> QED BY <3>1 DEF LeafType
          <2> QED BY <2>1, <2>3, <1>4
    <1> HIDE DEF node, last
    <1>7. Heavier(p, lv, j, node) BY <1>3, <1>4, <1>5, <1>6 DEF Heavier
    <1>8. last.weight <= node.weight BY <1>3, <1>5 DEF Heavier
    <1>9. InOrder(NextChain(p, j, node), lv, lim)
          BY <1>2, <1>5, <1>7, <1>8, OrderKept DEF last
    <1> QED BY <1>1, <1>5, <1>9 DEF last

(* The numbers: how many leaves each list has, and how many packages.  A   *)
(* list has more leaves than packages or all leaves; its chains and those  *)
(* still to come are the two the packages of the next list ask for, each,  *)
(* and two more.                                                           *)
Asked(lim, made, r, j) == IF j = lim THEN 2 + r ELSE 2 * made[j + 1] + 2

Numbered(n, count, made, j) == made[j] < count[j] \/ count[j] = n

AsAsked(n, lim, count, made, c, r, j) ==
    \/ count[j] + made[j] + c[j] = Asked(lim, made, r, j)
    \/ (j = 1 /\ count[1] = n /\ n + c[1] <= Asked(lim, made, r, 1))

Balanced(n, lim, count, made, c, r) ==
    /\ count \in [1..lim -> 2..n] /\ made \in [1..lim -> 0..(n - 2)]
    /\ c \in [1..lim -> Nat] /\ r \in 0..(2 * n - 5)
    /\ made[1] = 0
    /\ \A j \in 1..lim : Numbered(n, count, made, j) /\ AsAsked(n, lim, count, made, c, r, j)

LEMMA BalancedTypes ==
    ASSUME NEW n \in Nat, NEW lim \in Nat, NEW count, NEW made, NEW c, NEW r,
           Balanced(n, lim, count, made, c, r), NEW g \in 1..lim
    PROVE  /\ count[g] \in Nat /\ count[g] >= 2 /\ count[g] <= n
           /\ made[g] \in Nat /\ made[g] <= n - 2
           /\ c[g] \in Nat
    <1>1. count[g] \in 2..n /\ made[g] \in 0..(n - 2) /\ c[g] \in Nat
          BY DEF Balanced
    <1> QED BY <1>1

LEMMA RunBalanced ==
    ASSUME NEW n \in Nat, NEW lim \in Nat, lim >= 2, NEW count, NEW made, NEW c, NEW r,
           Balanced(n, lim, count, made, c, r), \A j \in 1..lim : c[j] = 0, r < 2 * n - 5
    PROVE  Balanced(n, lim, count, made, [c EXCEPT ![lim] = 1], r + 1)
    <1> DEFINE d == [c EXCEPT ![lim] = 1]
    <1>1. /\ count \in [1..lim -> 2..n] /\ made \in [1..lim -> 0..(n - 2)]
          /\ c \in [1..lim -> Nat] /\ r \in 0..(2 * n - 5) /\ made[1] = 0
          BY DEF Balanced
    <1>2. d \in [1..lim -> Nat] /\ r + 1 \in 0..(2 * n - 5)
          /\ d[lim] = 1 /\ \A j \in 1..lim : j # lim => d[j] = c[j]
          BY <1>1
    <1> HIDE DEF d
    <1>3. ASSUME NEW j \in 1..lim PROVE AsAsked(n, lim, count, made, d, r + 1, j)
          <2>1. AsAsked(n, lim, count, made, c, r, j) BY DEF Balanced
          <2>2. c[j] = 0 OBVIOUS
          <2>3. CASE j = lim
                BY SMTT(30), <2>1, <2>2, <2>3, <1>1, <1>2 DEF AsAsked, Asked
          <2>4. CASE j # lim
                BY <2>1, <2>4, <1>2 DEF AsAsked, Asked
          <2> QED BY <2>3, <2>4
    <1> QED BY <1>1, <1>2, <1>3 DEF Balanced, d

LEMMA LeafBalanced ==
    ASSUME NEW n \in Nat, NEW lim \in Nat, lim >= 2, NEW count, NEW made, NEW c, NEW r,
           Balanced(n, lim, count, made, c, r),
           NEW j \in 1..lim, c[j] > 0, count[j] < n
    PROVE  Balanced(n, lim, [count EXCEPT ![j] = @ + 1], made, [c EXCEPT ![j] = @ - 1], r)
    <1> DEFINE d == [c EXCEPT ![j] = @ - 1]
               more == [count EXCEPT ![j] = @ + 1]
    <1>1. /\ count \in [1..lim -> 2..n] /\ made \in [1..lim -> 0..(n - 2)]
          /\ c \in [1..lim -> Nat] /\ r \in 0..(2 * n - 5) /\ made[1] = 0
          BY DEF Balanced
    <1>2. count[j] \in Nat /\ count[j] + 1 \in 2..n /\ c[j] - 1 \in Nat
          <2> HIDE DEF d, more
          <2> QED BY BalancedTypes
    <1>3. d \in [1..lim -> Nat] /\ more \in [1..lim -> 2..n]
          /\ d[j] = c[j] - 1 /\ more[j] = count[j] + 1
          /\ \A g \in 1..lim : g # j => d[g] = c[g] /\ more[g] = count[g]
          BY <1>1, <1>2
    <1> HIDE DEF d, more
    <1>4. ASSUME NEW g \in 1..lim
          PROVE  Numbered(n, more, made, g) /\ AsAsked(n, lim, more, made, d, r, g)
          <2>1. Numbered(n, count, made, g) /\ AsAsked(n, lim, count, made, c, r, g)
                BY DEF Balanced
          <2>2. made[g] \in Nat /\ count[g] \in Nat /\ c[g] \in Nat
                BY BalancedTypes
          <2>3. CASE g = j
                <3>1. Numbered(n, more, made, g) BY SMTT(30), <2>1, <2>2, <2>3, <1>3 DEF Numbered
                <3>2. count[g] + made[g] + c[g] = Asked(lim, made, r, g)
                      BY <2>1, <2>3, <1>2 DEF AsAsked
                <3>3. more[g] = count[g] + 1 /\ d[g] = c[g] - 1 BY <2>3, <1>3
                <3>4. more[g] + made[g] + d[g] = Asked(lim, made, r, g) BY <3>2, <3>3, <2>2
                <3> QED BY <3>1, <3>4 DEF AsAsked
          <2>4. CASE g # j
                BY <2>1, <2>4, <1>3 DEF Numbered, AsAsked
          <2> QED BY <2>3, <2>4
    <1> QED BY <1>1, <1>3, <1>4 DEF Balanced, d, more

LEMMA PackageBalanced ==
    ASSUME NEW n \in Nat, NEW lim \in Nat, lim >= 2, NEW count, NEW made, NEW c, NEW r,
           Balanced(n, lim, count, made, c, r),
           NEW j \in 2..lim, c[j] > 0, \A g \in 1..(j - 1) : c[g] = 0,
           made[j] + 1 < count[j] \/ count[j] = n
    PROVE  Balanced(n, lim, count, [made EXCEPT ![j] = @ + 1], [c EXCEPT ![j] = @ - 1, ![j - 1] = 2], r)
    <1> DEFINE d == [c EXCEPT ![j] = @ - 1, ![j - 1] = 2]
               more == [made EXCEPT ![j] = @ + 1]
    <1>0. ASSUME NEW g \in 1..lim
          PROVE  made[g] \in Nat /\ count[g] \in Nat /\ c[g] \in Nat
          <2> HIDE DEF d, more
          <2> QED BY BalancedTypes
    <1>1. /\ count \in [1..lim -> 2..n] /\ made \in [1..lim -> 0..(n - 2)]
          /\ c \in [1..lim -> Nat] /\ r \in 0..(2 * n - 5) /\ made[1] = 0
          BY DEF Balanced
    <1>2. j \in 1..lim /\ j - 1 \in 1..lim /\ j # 1 /\ c[j - 1] = 0 OBVIOUS
    <1>3. /\ count[j] \in Nat /\ count[j] <= n /\ made[j] \in Nat /\ made[j] <= n - 2
          /\ c[j] \in Nat /\ c[j] - 1 \in Nat
          <2> HIDE DEF d, more
          <2> QED BY <1>2, BalancedTypes
    <1>4. made[j] + 1 \in 0..(n - 2)
          <2>1. count[j] + made[j] + c[j] = Asked(lim, made, r, j)
                BY <1>2 DEF Balanced, AsAsked
          <2>2. Asked(lim, made, r, j) <= 2 * n - 2 /\ Asked(lim, made, r, j) \in Int
                <3>1. CASE j = lim BY <3>1, <1>1 DEF Asked
                <3>2. CASE j # lim
                      <4>1. j + 1 \in 1..lim BY <3>2
                      <4>2. made[j + 1] \in 0..(n - 2) BY <4>1, <1>1
                      <4> QED BY <4>2, <3>2 DEF Asked
                <3> QED BY <3>1, <3>2
          <2> QED BY <2>1, <2>2, <1>3
    <1>5. /\ d \in [1..lim -> Nat] /\ d[j] = c[j] - 1 /\ d[j - 1] = 2
          /\ \A g \in 1..lim : g # j /\ g # j - 1 => d[g] = c[g]
          <2> DEFINE e == [c EXCEPT ![j] = @ - 1]
          <2>1. e \in [1..lim -> Nat] /\ e[j] = c[j] - 1 /\ \A g \in 1..lim : g # j => e[g] = c[g]
                BY <1>1, <1>2, <1>3
          <2>2. d = [e EXCEPT ![j - 1] = 2] OBVIOUS
          <2> HIDE DEF e, d
          <2>3. j - 1 # j BY <1>2
          <2> QED BY <2>1, <2>2, <2>3, <1>2
    <1>6. /\ more \in [1..lim -> 0..(n - 2)] /\ more[j] = made[j] + 1
          /\ \A g \in 1..lim : g # j => more[g] = made[g]
          BY <1>1, <1>2, <1>4
    <1> HIDE DEF d, more
    <1>7. more[1] = 0 BY <1>1, <1>2, <1>6
    <1>8. ASSUME NEW g \in 1..lim
          PROVE  Numbered(n, count, more, g) /\ AsAsked(n, lim, count, more, d, r, g)
          <2>1. Numbered(n, count, made, g) /\ AsAsked(n, lim, count, made, c, r, g)
                BY DEF Balanced
          <2>2. made[g] \in Nat /\ count[g] \in Nat /\ c[g] \in Nat
                BY <1>0
          <2>3. CASE g = j
                <3>1. Numbered(n, count, more, g) BY <2>3, <1>6 DEF Numbered
                <3>2. count[g] + made[g] + c[g] = Asked(lim, made, r, g)
                      BY <2>1, <2>3, <1>2 DEF AsAsked
                <3>3. Asked(lim, more, r, g) = Asked(lim, made, r, g)
                      <4>1. g # lim => g + 1 \in 1..lim /\ g + 1 # j BY <2>3
                      <4> QED BY <4>1, <1>6 DEF Asked
                <3>4. more[g] = made[g] + 1 /\ d[g] = c[g] - 1 BY <2>3, <1>5, <1>6
                <3>5. count[g] + more[g] + d[g] = Asked(lim, more, r, g) BY <3>2, <3>3, <3>4, <2>2
                <3> QED BY <3>1, <3>5 DEF AsAsked
          <2>4. CASE g = j - 1
                <3>1. g # j /\ g # lim /\ g + 1 = j BY <2>4
                <3>2. more[g] = made[g] /\ d[g] = 2 /\ c[g] = 0 BY <3>1, <2>4, <1>5, <1>6, <1>2
                <3>3. Numbered(n, count, more, g) BY <2>1, <3>2 DEF Numbered
                <3>4. Asked(lim, made, r, g) = 2 * made[j] + 2 /\ Asked(lim, more, r, g) = 2 * (made[j] + 1) + 2
                      BY <3>1, <1>6 DEF Asked
                <3>5. CASE count[g] + made[g] + c[g] = Asked(lim, made, r, g)
                      <4>1. count[g] + more[g] + d[g] = Asked(lim, more, r, g)
                            BY <3>2, <3>4, <3>5, <2>2, <1>3
                      <4> QED BY <4>1, <3>3 DEF AsAsked
                <3>6. CASE g = 1 /\ count[1] = n /\ n + c[1] <= Asked(lim, made, r, 1)
                      <4>1. n + d[1] <= Asked(lim, more, r, 1)
                            BY <3>2, <3>4, <3>6, <1>3
                      <4> QED BY <4>1, <3>3, <3>6 DEF AsAsked
                <3> QED BY <3>5, <3>6, <2>1 DEF AsAsked
          <2>5. CASE g # j /\ g # j - 1
                <3>1. more[g] = made[g] /\ d[g] = c[g] BY <2>5, <1>5, <1>6
                <3>2. Asked(lim, more, r, g) = Asked(lim, made, r, g)
                      <4>1. g # lim => g + 1 \in 1..lim /\ g + 1 # j BY <2>5
                      <4> QED BY <4>1, <1>6 DEF Asked
                <3> QED BY <3>1, <3>2, <2>1 DEF Numbered, AsAsked
          <2> QED BY <2>3, <2>4, <2>5
    <1> QED BY <1>1, <1>5, <1>6, <1>7, <1>8 DEF Balanced, d, more

LEMMA AskedBound ==
    ASSUME NEW n \in Nat, NEW lim \in Nat, NEW count, NEW made, NEW c, NEW r,
           Balanced(n, lim, count, made, c, r), NEW j \in 1..lim
    PROVE  Asked(lim, made, r, j) \in Nat /\ Asked(lim, made, r, j) <= 2 * n - 2
    <1>1. CASE j = lim
          <2>1. r \in 0..(2 * n - 5) BY DEF Balanced
          <2> QED BY <2>1, <1>1 DEF Asked
    <1>2. CASE j # lim
          <2>1. j + 1 \in 1..lim BY <1>2
          <2>2. made[j + 1] \in Nat /\ made[j + 1] <= n - 2 BY <2>1, BalancedTypes
          <2> QED BY <2>2, <1>2 DEF Asked
    <1> QED BY <1>1, <1>2

LEMMA DropBalanced ==
    ASSUME NEW n \in Nat, NEW lim \in Nat, lim >= 2, NEW count, NEW made, NEW c, NEW r,
           Balanced(n, lim, count, made, c, r), c[1] > 0, count[1] = n
    PROVE  Balanced(n, lim, count, made, [c EXCEPT ![1] = @ - 1], r)
    <1> DEFINE d == [c EXCEPT ![1] = @ - 1]
    <1>1. c \in [1..lim -> Nat] /\ 1 \in 1..lim BY DEF Balanced
    <1>2. c[1] - 1 \in Nat BY <1>1
    <1>3. d \in [1..lim -> Nat] /\ d[1] = c[1] - 1 /\ \A g \in 1..lim : g # 1 => d[g] = c[g]
          BY <1>1, <1>2
    <1> HIDE DEF d
    <1>4. ASSUME NEW g \in 1..lim PROVE AsAsked(n, lim, count, made, d, r, g)
          <2>1. AsAsked(n, lim, count, made, c, r, g) BY DEF Balanced
          <2>2. CASE g # 1 BY <2>1, <2>2, <1>3 DEF AsAsked
          <2>3. CASE g = 1
                <3>1. d[1] = c[1] - 1 /\ c[1] \in Nat BY <1>1, <1>3
                <3>2. Asked(lim, made, r, 1) \in Nat BY <1>1, AskedBound
                <3>3. made[1] = 0 BY DEF Balanced
                <3>4. n + c[1] <= Asked(lim, made, r, 1) BY <2>1, <2>3, <3>1, <3>2, <3>3 DEF AsAsked
                <3>5. n + d[1] <= Asked(lim, made, r, 1) BY <3>1, <3>2, <3>4
                <3> QED BY <2>3, <3>5 DEF AsAsked
          <2> QED BY <2>2, <2>3
    <1> QED BY <1>3, <1>4 DEF Balanced, d

(* A package comes only where there are leaves enough before it: it is     *)
(* heavier than the last chain below, and so than the leaves in there.     *)
LEMMA LeavesBelow ==
    ASSUME NEW p, NEW lim \in Nat, lim >= 2, PoolType(p, lim),
           NEW lv, SortedLeaves(lv), InOrder(p, lv, lim),
           NEW count, count = [b \in 1..lim |-> LastChain(p, b).count],
           NEW made, NEW c, NEW r, Balanced(Len(lv), lim, count, made, c, r),
           NEW j \in 2..lim, ~TakesLeaf(p, lv, j, count[j])
    PROVE  count[j - 1] <= count[j]
    <1> DEFINE n == Len(lv)
               b == j - 1
    <1>1. n \in Nat BY LenProperties DEF SortedLeaves
    <1>2. j \in 1..lim /\ b \in 1..lim /\ b # lim /\ b + 1 = j OBVIOUS
    <1>3. /\ count[j] \in Nat /\ count[j] <= n /\ count[j] >= 2 /\ made[j] \in Nat
          /\ count[b] \in Nat /\ count[b] <= n /\ count[b] >= 2 /\ made[b] \in Nat
          <2> HIDE DEF n, b
          <2> QED BY <1>1, <1>2, BalancedTypes DEF n
    <1> SUFFICES ASSUME count[j] < n PROVE count[b] <= count[j]
          BY <1>3, <1>1
    <1>4. Pair(p, b) <= lv[count[j] + 1].weight /\ lv[count[j] + 1].weight \in Nat
          <2>1. count[j] + 1 \in 1..n BY <1>3, <1>1
          <2>2. lv[count[j] + 1] \in LeafType BY <2>1, ElementOfSeq DEF SortedLeaves
          <2>3. Pair(p, b) \in Nat BY <1>2, ChainTypes
          <2>4. ~ (Pair(p, b) > lv[count[j] + 1].weight) BY DEF TakesLeaf
          <2> QED BY <2>2, <2>3, <2>4 DEF LeafType
    <1>5. lv[count[b]].weight < Pair(p, b) /\ lv[count[b]].weight \in Nat
          <2>1. Pair(p, b) = FirstChain(p, b).weight + LastChain(p, b).weight
                /\ FirstChain(p, b).weight \in Nat /\ LastChain(p, b).weight \in Nat
                BY <1>2, ChainTypes
          <2>2. FirstChain(p, b).weight > 0 /\ lv[count[b]].weight <= LastChain(p, b).weight
                BY <1>2 DEF InOrder, Heavier
          <2>3. count[b] \in 1..n BY <1>3
          <2>4. lv[count[b]] \in LeafType BY <2>3, ElementOfSeq DEF SortedLeaves
          <2>5. lv[count[b]].weight \in Nat BY <2>4 DEF LeafType
          <2> QED BY <2>1, <2>2, <2>5
    <1>6. count[b] < count[j] + 1
          <2>1. count[j] + 1 \in 1..n /\ count[b] \in 1..n BY <1>3, <1>1
          <2>2. count[j] + 1 <= count[b] => lv[count[j] + 1].weight <= lv[count[b]].weight
                BY <2>1 DEF SortedLeaves
          <2> HIDE DEF n, b
          <2>3. ~ (lv[count[j] + 1].weight <= lv[count[b]].weight)
                <3>1. Pair(p, b) \in Nat BY <1>2, ChainTypes
                <3> QED BY <3>1, <1>4, <1>5
          <2>4. ~ (count[j] + 1 <= count[b]) BY <2>2, <2>3
          <2> QED BY <2>4, <1>3
    <1> QED BY <1>3, <1>6

LEMMA LeavesBefore ==
    ASSUME NEW p, NEW lim \in Nat, lim >= 2, PoolType(p, lim),
           NEW lv, SortedLeaves(lv), InOrder(p, lv, lim),
           NEW count, count = [b \in 1..lim |-> LastChain(p, b).count],
           NEW made, NEW c, NEW r, Balanced(Len(lv), lim, count, made, c, r),
           NEW j \in 2..lim, \A g \in 1..(j - 1) : c[g] = 0,
           ~TakesLeaf(p, lv, j, count[j])
    PROVE  made[j] + 1 < count[j] \/ count[j] = Len(lv)
    <1> DEFINE n == Len(lv)
               b == j - 1
    <1>1. n \in Nat BY LenProperties DEF SortedLeaves
    <1>2. j \in 1..lim /\ b \in 1..lim /\ b # lim /\ b + 1 = j /\ c[b] = 0 OBVIOUS
    <1>3. /\ count[j] \in Nat /\ count[j] <= n /\ count[j] >= 2 /\ made[j] \in Nat
          /\ count[b] \in Nat /\ count[b] <= n /\ count[b] >= 2 /\ made[b] \in Nat
          <2> HIDE DEF n, b
          <2> QED BY <1>1, <1>2, BalancedTypes DEF n
    <1> SUFFICES ASSUME count[j] < n PROVE made[j] + 1 < count[j]
          BY <1>3, <1>1
    <1>6. count[b] < count[j] + 1
          <2>1. count[b] <= count[j] BY LeavesBelow
          <2> QED BY <2>1, <1>3
    <1>7. count[b] # n BY <1>6, <1>3, <1>1
    <1>8. made[b] < count[b] /\ count[b] + made[b] = 2 * made[j] + 2
          <2>1. Numbered(n, count, made, b) /\ AsAsked(n, lim, count, made, c, r, b)
                BY <1>2 DEF Balanced
          <2>2. Asked(lim, made, r, b) = 2 * made[j] + 2 BY <1>2 DEF Asked
          <2> HIDE DEF n, b
          <2>3. count[b] + made[b] + c[b] = 2 * made[j] + 2 BY <2>1, <2>2, <1>7 DEF AsAsked
          <2> QED BY <2>1, <2>3, <1>2, <1>3, <1>7 DEF Numbered
    <1> HIDE DEF n, b
    <1>9. made[j] + 1 < count[j]
          <2>1. count[b] < count[j] + 1 /\ made[b] < count[b] /\ count[b] + made[b] = 2 * made[j] + 2
                BY <1>6, <1>8
          <2>2. count[b] \in Nat /\ count[j] \in Nat /\ made[b] \in Nat /\ made[j] \in Nat BY <1>3
          <2> QED BY ONLY <2>1, <2>2
    <1> QED BY <1>9

(* The nodes: each one is a chain of one list, with a number in it, and    *)
(* its tail is a chain of a lower list.                                    *)
Placed(p, lim, n, count, made, at) ==
    /\ at \in [1..Len(p.pool) -> (1..lim) \X (1..(2 * n - 2))]
    /\ Len(p.pool) >= 2 /\ at[1] = <<1, 1>> /\ at[2] = <<1, 2>>
    /\ \A k, m \in 1..Len(p.pool) : at[k] = at[m] => k = m
    /\ \A k \in 1..Len(p.pool) :
          /\ k > 2 => at[k][2] > 2
          /\ at[k][2] <= count[at[k][1]] + made[at[k][1]]
          /\ \/ p.pool[k].tail = NoNode
             \/ p.pool[k].tail \in 1..Len(p.pool) /\ at[p.pool[k].tail][1] < at[k][1]
    /\ \A j \in 1..lim : /\ at[p.lists[j][1]][1] <= j /\ at[p.lists[j][2]][1] <= j
                         /\ count[j] + made[j] > 2 => at[p.lists[j][2]][1] = j

(* A chain with packages has the last of them for its tail: a chain of the *)
(* list below, with no more leaves than it has itself, and the number that *)
(* two chains for each package make.  Only the first list may have fewer,  *)
(* when it has all leaves; the second leaf is the second chain of all      *)
(* lists.                                                                  *)
Fits(pool, n, at, place, node) ==
    /\ place[2] >= node.count
    /\ IF place[2] = node.count THEN node.tail = NoNode
       ELSE /\ node.tail \in 1..Len(pool) /\ pool[node.tail].count <= node.count
            /\ node.tail = 2 \/ at[node.tail][1] = place[1] - 1
            /\ \/ at[node.tail][2] = 2 * (place[2] - node.count)
               \/ /\ node.count = n /\ pool[node.tail].count = n /\ at[node.tail] = <<1, n>>
                  /\ n <= 2 * (place[2] - node.count)

InStep(p, lim, n, count, made, at) ==
    /\ p.pool[2].count = 2
    /\ \A k \in 1..Len(p.pool) : Fits(p.pool, n, at, at[k], p.pool[k])
    /\ \A j \in 1..lim : at[p.lists[j][2]][2] = count[j] + made[j]

(* A new chain has its place, all others keep theirs.                      *)
PlacedNext(p, q, lim, n, count, made, at, place, at2) ==
    /\ Placed(q, lim, n, count, made, at2)
    /\ at2[Len(p.pool) + 1] = place /\ \A k \in 1..Len(p.pool) : at2[k] = at[k]

LEMMA PlaceKept ==
    ASSUME NEW p, NEW lim \in Nat, PoolType(p, lim), NEW n \in Nat,
           NEW count, NEW made, NEW at, Placed(p, lim, n, count, made, at),
           NEW j \in 1..lim, NEW node \in NodeType,
           \/ node.tail = NoNode
           \/ node.tail \in 1..Len(p.pool) /\ at[node.tail][1] < j,
           \A g \in 1..lim : count[g] + made[g] \in Nat,
           count[j] + made[j] >= 2, count[j] + made[j] + 1 <= 2 * n - 2,
           NEW count2, NEW made2,
           count2[j] + made2[j] = count[j] + made[j] + 1,
           \A g \in 1..lim : g # j => count2[g] + made2[g] = count[g] + made[g]
    PROVE  \E at2 : PlacedNext(p, NextChain(p, j, node), lim, n, count2, made2, at,
                               <<j, count[j] + made[j] + 1>>, at2)
    <1> DEFINE q == NextChain(p, j, node)
               s == Len(p.pool)
               number == count[j] + made[j] + 1
               at2 == [k \in 1..(s + 1) |-> IF k <= s THEN at[k] ELSE <<j, number>>]
    <1>1. s \in Nat BY LenProperties DEF PoolType
    <1>2. /\ Len(q.pool) = s + 1
          /\ q.pool[s + 1] = node /\ \A k \in 1..s : q.pool[k] = p.pool[k]
          /\ q.lists[j][1] = p.lists[j][2] /\ q.lists[j][2] = s + 1
          /\ \A g \in 1..lim : g # j => q.lists[g] = p.lists[g]
          BY NextChainIs
    <1>3. number \in 1..(2 * n - 2) /\ number > 2
          /\ <<j, number>> \in (1..lim) \X (1..(2 * n - 2))
          <2>1. number \in Nat OBVIOUS
          <2> HIDE DEF number
          <2>2. number >= 3 /\ number <= 2 * n - 2 BY DEF number
          <2> QED BY <2>1, <2>2
    <1>4. /\ at \in [1..s -> (1..lim) \X (1..(2 * n - 2))]
          /\ s >= 2 /\ at[1] = <<1, 1>> /\ at[2] = <<1, 2>>
          /\ \A k, m \in 1..s : at[k] = at[m] => k = m
          BY DEF Placed
    <1>5. ASSUME NEW k \in 1..s
          PROVE  /\ at[k][1] \in 1..lim /\ at[k][2] \in 1..(2 * n - 2)
                 /\ at[k] = <<at[k][1], at[k][2]>>
                 /\ k > 2 => at[k][2] > 2
                 /\ at[k][2] <= count[at[k][1]] + made[at[k][1]]
                 /\ \/ p.pool[k].tail = NoNode
                    \/ p.pool[k].tail \in 1..s /\ at[p.pool[k].tail][1] < at[k][1]
          <2>1. at[k] \in (1..lim) \X (1..(2 * n - 2)) BY <1>4
          <2> QED BY SMTT(30), <2>1 DEF Placed
    <1>6. \A g \in 1..lim : /\ p.lists[g][1] \in 1..s /\ p.lists[g][2] \in 1..s
                            /\ at[p.lists[g][1]][1] <= g /\ at[p.lists[g][2]][1] <= g
                            /\ count[g] + made[g] > 2 => at[p.lists[g][2]][1] = g
          BY DEF Placed, PoolType
    <1>7. /\ at2 \in [1..(s + 1) -> (1..lim) \X (1..(2 * n - 2))]
          /\ at2[s + 1] = <<j, number>> /\ \A k \in 1..s : at2[k] = at[k]
          <2> HIDE DEF number, s
          <2> QED BY SMTT(30), <1>1, <1>3, <1>4
    <1> HIDE DEF q, s, number, at2
    <1>15. \A k \in 1..s : k \in 1..(s + 1) /\ at2[k] = at[k]
          <2>1. \A k \in 1..s : k \in 1..(s + 1) BY ONLY <1>1
          <2> QED BY <2>1, <1>7
    <1>8. \A k \in 1..(s + 1) : k \in 1..s \/ k = s + 1 BY <1>1
    <1>9. ASSUME NEW k \in 1..s PROVE at2[k] # at2[s + 1]
          <2>1. at[k] = <<j, number>> => at[k][2] <= count[j] + made[j] /\ at[k][2] = number
                BY <1>5
          <2>2. ~ (number <= count[j] + made[j]) BY DEF number
          <2> QED BY <2>1, <2>2, <1>7
    <1>10. \A k, m \in 1..(s + 1) : at2[k] = at2[m] => k = m
          BY <1>4, <1>7, <1>8, <1>9
    <1>11. ASSUME NEW k \in 1..(s + 1)
           PROVE  /\ k > 2 => at2[k][2] > 2
                  /\ at2[k][2] <= count2[at2[k][1]] + made2[at2[k][1]]
                  /\ \/ q.pool[k].tail = NoNode
                     \/ q.pool[k].tail \in 1..(s + 1) /\ at2[q.pool[k].tail][1] < at2[k][1]
          <2>1. CASE k \in 1..s
                <3>1. at2[k] = at[k] /\ q.pool[k] = p.pool[k] BY <2>1, <1>2, <1>7
                <3>2. at[k][2] <= count2[at[k][1]] + made2[at[k][1]]
                      <4>1. at[k][1] \in 1..lim /\ at[k][2] \in Int BY <2>1, <1>5
                      <4>2. CASE at[k][1] = j
                            <5>1. at[k][2] <= count[j] + made[j] BY <2>1, <4>2, <1>5
                            <5> QED BY <5>1, <4>1, <4>2
                      <4>3. CASE at[k][1] # j
                            <5>1. at[k][2] <= count[at[k][1]] + made[at[k][1]] BY <2>1, <1>5
                            <5> QED BY <5>1, <4>1, <4>3
                      <4> QED BY <4>2, <4>3
                <3>3. \/ p.pool[k].tail = NoNode
                      \/ p.pool[k].tail \in 1..(s + 1) /\ at2[p.pool[k].tail][1] < at[k][1]
                      <4>1. p.pool[k].tail \in 1..s => p.pool[k].tail \in 1..(s + 1) /\ at2[p.pool[k].tail] = at[p.pool[k].tail]
                            BY ONLY <1>15
                      <4> QED BY <4>1, <2>1, <1>5
                <3> QED BY <2>1, <3>1, <3>2, <3>3, <1>5
          <2>2. CASE k = s + 1
                <3>1. at2[k] = <<j, number>> /\ q.pool[k] = node BY <2>2, <1>2, <1>7
                <3>2. node.tail \in 1..s => node.tail \in 1..(s + 1) /\ at2[node.tail] = at[node.tail]
                      BY ONLY <1>15
                <3>3. number <= count2[j] + made2[j]
                      BY <1>3 DEF number
                <3>4. at2[k][1] = j /\ at2[k][2] = number BY <3>1
                <3>5. \/ node.tail = NoNode
                      \/ node.tail \in 1..(s + 1) /\ at2[node.tail][1] < j
                      BY <3>2 DEF s
                <3> QED BY <3>1, <3>3, <3>4, <3>5, <1>3
          <2> QED BY <2>1, <2>2, <1>8
    <1>12. ASSUME NEW g \in 1..lim
           PROVE  /\ at2[q.lists[g][1]][1] <= g /\ at2[q.lists[g][2]][1] <= g
                  /\ count2[g] + made2[g] > 2 => at2[q.lists[g][2]][1] = g
          <2>1. CASE g = j
                <3>1. p.lists[g][2] \in 1..s /\ at[p.lists[g][2]][1] <= g BY <1>6
                <3>2. q.lists[g][1] = p.lists[g][2] /\ q.lists[g][2] = s + 1 BY <2>1, <1>2
                <3>3. at2[q.lists[g][1]] = at[p.lists[g][2]] BY <3>1, <3>2, <1>15
                <3>4. at2[q.lists[g][2]][1] = j BY <3>2, <1>7
                <3> QED BY <2>1, <3>1, <3>3, <3>4
          <2>2. CASE g # j
                <3>1. q.lists[g] = p.lists[g] BY <2>2, <1>2
                <3>2. /\ p.lists[g][1] \in 1..s /\ p.lists[g][2] \in 1..s
                      /\ at[p.lists[g][1]][1] <= g /\ at[p.lists[g][2]][1] <= g
                      /\ count[g] + made[g] > 2 => at[p.lists[g][2]][1] = g
                      BY <1>6
                <3>3. at2[p.lists[g][1]] = at[p.lists[g][1]] /\ at2[p.lists[g][2]] = at[p.lists[g][2]]
                      BY <3>2, <1>15
                <3>4. count2[g] + made2[g] = count[g] + made[g] BY <2>2
                <3> QED BY SMTT(30), <3>1, <3>2, <3>3, <3>4
          <2> QED BY <2>1, <2>2
    <1>13. at2[1] = <<1, 1>> /\ at2[2] = <<1, 2>> /\ s + 1 >= 2
          <2>1. 1 \in 1..s /\ 2 \in 1..s BY <1>1, <1>4
          <2> QED BY SMTT(30), <2>1, <1>1, <1>4, <1>7
    <1>14. Placed(q, lim, n, count2, made2, at2)
          BY <1>2, <1>7, <1>10, <1>11, <1>12, <1>13 DEF Placed
    <1> QED BY <1>7, <1>14 DEF PlacedNext, q, s, number

LEMMA FitsKept ==
    ASSUME NEW pool, NEW pool2, NEW n, NEW at, NEW at2, NEW place, NEW node,
           Fits(pool, n, at, place, node),
           node.tail \in 1..Len(pool) =>
              /\ node.tail \in 1..Len(pool2) /\ pool2[node.tail].count = pool[node.tail].count
              /\ at2[node.tail] = at[node.tail]
    PROVE  Fits(pool2, n, at2, place, node)
    BY ZenonT(60) DEF Fits

LEMMA StepKept ==
    ASSUME NEW p, NEW lim \in Nat, PoolType(p, lim), NEW n,
           NEW count, NEW made, NEW at, Placed(p, lim, n, count, made, at),
           InStep(p, lim, n, count, made, at),
           NEW j \in 1..lim, NEW node \in NodeType,
           Fits(p.pool, n, at, <<j, count[j] + made[j] + 1>>, node),
           NEW count2, NEW made2,
           count2[j] + made2[j] = count[j] + made[j] + 1,
           \A g \in 1..lim : g # j => count2[g] + made2[g] = count[g] + made[g],
           NEW at2, at2[Len(p.pool) + 1] = <<j, count[j] + made[j] + 1>>,
           \A k \in 1..Len(p.pool) : at2[k] = at[k]
    PROVE  InStep(NextChain(p, j, node), lim, n, count2, made2, at2)
    <1> DEFINE q == NextChain(p, j, node)
               s == Len(p.pool)
               place == <<j, count[j] + made[j] + 1>>
    <1>1. s \in Nat /\ s >= 2 BY LenProperties DEF PoolType, Placed
    <1>2. /\ Len(q.pool) = s + 1
          /\ q.pool[s + 1] = node /\ \A k \in 1..s : q.pool[k] = p.pool[k]
          /\ q.lists[j][2] = s + 1
          /\ \A g \in 1..lim : g # j => q.lists[g] = p.lists[g]
          <2>1. PoolType(p, lim) /\ j \in 1..lim /\ node \in NodeType OBVIOUS
          <2> QED BY ONLY SMTT(60), <2>1, lim \in Nat, NextChainIs
    <1>3. place[2] = count[j] + made[j] + 1 OBVIOUS
    <1> HIDE DEF q, s, place
    <1>4. \A k \in 1..s : k \in 1..(s + 1) BY ONLY <1>1
    <1>5. ASSUME NEW at3, NEW x, Fits(p.pool, n, at, at3, x) PROVE Fits(q.pool, n, at2, at3, x)
          <2>1. x.tail \in 1..Len(p.pool) =>
                  /\ x.tail \in 1..Len(q.pool) /\ q.pool[x.tail].count = p.pool[x.tail].count
                  /\ at2[x.tail] = at[x.tail]
                BY <1>2, <1>4 DEF s
          <2> QED BY <1>5, <2>1, FitsKept
    <1>6. q.pool[2].count = 2
          <2>1. 2 \in 1..s BY ONLY <1>1
          <2> QED BY <2>1, <1>2 DEF InStep
    <1>7. ASSUME NEW k \in 1..Len(q.pool) PROVE Fits(q.pool, n, at2, at2[k], q.pool[k])
          <2>1. CASE k \in 1..s
                <3>1. Fits(p.pool, n, at, at[k], p.pool[k]) BY <2>1 DEF InStep, s
                <3>2. at2[k] = at[k] /\ q.pool[k] = p.pool[k] BY <2>1, <1>2 DEF s
                <3> QED BY <3>1, <3>2, <1>5
          <2>2. CASE k = s + 1
                <3>1. Fits(p.pool, n, at, place, node) BY DEF place
                <3>2. at2[k] = place /\ q.pool[k] = node BY <2>2, <1>2 DEF place, s
                <3> QED BY <3>1, <3>2, <1>5
          <2>3. k \in 1..s \/ k = s + 1 BY <1>1, <1>2
          <2> QED BY <2>1, <2>2, <2>3
    <1>8. ASSUME NEW g \in 1..lim PROVE at2[q.lists[g][2]][2] = count2[g] + made2[g]
          <2>1. CASE g = j
                <3>1. at2[q.lists[g][2]] = place BY <2>1, <1>2 DEF place, s
                <3> QED BY <2>1, <3>1, <1>3
          <2>2. CASE g # j
                <3>1. q.lists[g] = p.lists[g] /\ p.lists[g][2] \in 1..s BY <2>2, <1>2 DEF PoolType, s
                <3>2. at2[q.lists[g][2]] = at[p.lists[g][2]] BY <3>1 DEF s
                <3>3. at[p.lists[g][2]][2] = count[g] + made[g] BY DEF InStep
                <3> QED BY <2>2, <3>2, <3>3
          <2> QED BY <2>1, <2>2
    <1> QED BY <1>6, <1>7, <1>8 DEF InStep, q

(* One leaf more has the same packages.                                    *)
LEMMA LeafFits ==
    ASSUME NEW pool \in Seq(NodeType), NEW n, NEW at, NEW place, NEW last \in NodeType,
           Fits(pool, n, at, place, last), last.count # n,
           NEW j, NEW number \in Nat, place[2] = number,
           place[1] = j \/ number = last.count,
           NEW node, node.count = last.count + 1, node.tail = last.tail
    PROVE  Fits(pool, n, at, <<j, number + 1>>, node)
    <1> DEFINE tail == last.tail
    <1>1. last.count \in Nat /\ number >= last.count BY DEF Fits, NodeType
    <1>2. <<j, number + 1>>[1] = j /\ <<j, number + 1>>[2] = number + 1 OBVIOUS
    <1>3. CASE number = last.count
          <2>1. last.tail = NoNode BY <1>3 DEF Fits
          <2> QED BY <2>1, <1>1, <1>2, <1>3 DEF Fits
    <1>4. CASE number # last.count
          <2>1. /\ tail \in 1..Len(pool) /\ pool[tail].count <= last.count
                /\ tail = 2 \/ at[tail][1] = j - 1
                /\ at[tail][2] = 2 * (number - last.count)
                BY <1>4 DEF Fits
          <2>2. pool[tail].count \in Nat
                <3>1. pool[tail] \in NodeType BY <2>1, ElementOfSeq
                <3> QED BY <3>1 DEF NodeType
          <2>3. (number + 1) - (last.count + 1) = number - last.count /\ number + 1 >= last.count + 1
                /\ number + 1 # last.count + 1 /\ pool[tail].count <= last.count + 1
                <3> DEFINE x == last.count
                           y == pool[tail].count
                <3>1. x \in Nat /\ y \in Nat /\ number \in Nat /\ number >= x /\ number # x /\ y <= x
                      BY <1>1, <1>4, <2>1, <2>2
                <3> HIDE DEF x, y
                <3>2. /\ (number + 1) - (x + 1) = number - x /\ number + 1 >= x + 1
                      /\ number + 1 # x + 1 /\ y <= x + 1
                      BY ONLY <3>1
                <3> QED BY <3>2 DEF x, y
          <2> HIDE DEF tail
          <2>4. node.tail = tail /\ node.count = last.count + 1 BY DEF tail
          <2> DEFINE here == <<j, number + 1>>
          <2>5. here[1] = j /\ here[2] = number + 1 BY <1>2
          <2> HIDE DEF here
          <2>6. Fits(pool, n, at, here, node) BY <2>1, <2>3, <2>4, <2>5 DEF Fits
          <2> QED BY <2>6 DEF here
    <1> QED BY <1>3, <1>4

(* The package that the chains of the list below make.                     *)
LEMMA PackageFits ==
    ASSUME NEW p, NEW lim \in Nat, lim >= 2, PoolType(p, lim), NEW n \in Nat,
           NEW count, \A b \in 1..lim : count[b] = LastChain(p, b).count,
           NEW made, NEW c, NEW r, Balanced(n, lim, count, made, c, r),
           NEW at, Placed(p, lim, n, count, made, at), InStep(p, lim, n, count, made, at),
           NEW j \in 2..lim, c[j - 1] = 0, count[j - 1] <= count[j],
           NEW node, node.count = count[j], node.tail = p.lists[j - 1][2]
    PROVE  Fits(p.pool, n, at, <<j, count[j] + made[j] + 1>>, node)
    <1> DEFINE b == j - 1
               tail == node.tail
               place == <<j, count[j] + made[j] + 1>>
    <1>1. j \in 1..lim /\ b \in 1..lim /\ b # lim /\ b + 1 = j /\ c[b] = 0 OBVIOUS
    <1>2. place[1] = j /\ place[2] = count[j] + made[j] + 1 OBVIOUS
    <1>3. /\ tail \in 1..Len(p.pool) /\ p.pool[tail].count = count[b]
          /\ at[tail][2] = count[b] + made[b] /\ at[tail] \in (1..lim) \X (1..(2 * n - 2))
          /\ at[tail][1] <= b
          /\ count[b] + made[b] > 2 => at[tail][1] = b
          <2>1. tail = p.lists[b][2] OBVIOUS
          <2> HIDE DEF b, tail
          <2>2. tail \in 1..Len(p.pool) BY <1>1, <2>1 DEF PoolType
          <2>3. at \in [1..Len(p.pool) -> (1..lim) \X (1..(2 * n - 2))] BY DEF Placed
          <2> QED BY <1>1, <2>1, <2>2, <2>3 DEF Placed, InStep, LastChain
    <1> HIDE DEF b, tail, place
    <1>4. /\ count[j] \in Nat /\ count[j] <= n /\ made[j] \in Nat
          /\ count[b] \in Nat /\ count[b] <= n /\ count[b] >= 2 /\ made[b] \in Nat
          BY <1>1, BalancedTypes
    <1>5. AsAsked(n, lim, count, made, c, r, b) /\ Asked(lim, made, r, b) = 2 * made[j] + 2
          BY <1>1 DEF Balanced, Asked
    <1>6. tail = 2 \/ at[tail][1] = j - 1
          <2>1. CASE count[b] + made[b] > 2 BY <2>1, <1>1, <1>3
          <2>2. CASE ~ (count[b] + made[b] > 2)
                <3>1. at[tail][2] = 2 BY <2>2, <1>3, <1>4
                <3>2. ~ (tail > 2) /\ at[1] = <<1, 1>> BY <3>1, <1>3 DEF Placed
                <3>3. tail # 1 BY <3>1, <3>2
                <3>4. Len(p.pool) \in Nat BY LenProperties DEF PoolType
                <3>5. tail \in 1..Len(p.pool) BY <1>3
                <3>6. tail = 2 BY ONLY <3>2, <3>3, <3>4, <3>5
                <3> QED BY <3>6
          <2> QED BY ONLY <2>1, <2>2
    <1>7. place[2] - node.count = made[j] + 1 /\ place[2] >= node.count /\ place[2] # node.count
          BY <1>2, <1>4
    <1>8. \/ at[tail][2] = 2 * (place[2] - node.count)
          \/ /\ node.count = n /\ p.pool[tail].count = n /\ at[tail] = <<1, n>>
             /\ n <= 2 * (place[2] - node.count)
          <2>1. CASE count[b] + made[b] + c[b] = 2 * made[j] + 2
                <3>1. /\ c[b] = 0 /\ at[tail][2] = count[b] + made[b] /\ place[2] - node.count = made[j] + 1
                      /\ count[b] \in Nat /\ made[b] \in Nat /\ made[j] \in Nat
                      BY <1>1, <1>3, <1>4, <1>7
                <3>2. at[tail][2] = 2 * (place[2] - node.count) BY ONLY <2>1, <3>1
                <3> QED BY <3>2
          <2>2. CASE b = 1 /\ count[1] = n /\ n + c[1] <= 2 * made[j] + 2
                <3>1. count[j] = n BY <2>2, <1>1, <1>4 DEF b
                <3>2. made[b] = 0 BY <2>2 DEF Balanced
                <3>3. at[tail][2] = n BY <2>2, <3>2, <1>3, <1>4
                <3>4. at[tail][1] = 1
                      <4>1. at[tail][1] \in 1..lim BY <1>3
                      <4>2. at[tail][1] <= b /\ b = 1 BY ZenonT(30), <1>3, <2>2
                      <4> QED BY ONLY <4>1, <4>2, lim \in Nat
                <3>5. at[tail] = <<1, n>> BY <3>3, <3>4, <1>3
                <3>6. n <= 2 * (place[2] - node.count) BY <2>2, <1>1, <1>4, <1>7
                <3> QED BY <2>2, <3>1, <3>5, <3>6, <1>3
          <2> QED BY <2>1, <2>2, <1>1, <1>5 DEF AsAsked
    <1>9. p.pool[tail].count <= node.count BY <1>3 DEF b
    <1> QED BY <1>2, <1>3, <1>6, <1>7, <1>8, <1>9 DEF Fits, tail, place

(* No two nodes are the same chain, so that the chains bound the nodes.    *)
LEMMA PlacesBound ==
    ASSUME NEW p, NEW lim \in Nat, lim >= 1, PoolType(p, lim), NEW n \in Nat, n > 2,
           NEW count, NEW made, NEW at, Placed(p, lim, n, count, made, at)
    PROVE  Len(p.pool) <= 2 + lim * (2 * n - 4)
    <1> DEFINE s == Len(p.pool)
               first == {<<1, 1>>, <<1, 2>>}
               rest == (1..lim) \X (3..(2 * n - 2))
    <1>1. s \in Nat BY LenProperties DEF PoolType
    <1>2. IsFiniteSet(first) /\ Cardinality(first) <= 2
          <2>1. IsFiniteSet({<<1, 1>>}) /\ Cardinality({<<1, 1>>}) = 1 BY FS_Singleton
          <2>2. first = {<<1, 1>>} \cup {<<1, 2>>} OBVIOUS
          <2>3. IsFiniteSet({<<1, 1>>} \cup {<<1, 2>>})
                /\ Cardinality({<<1, 1>>} \cup {<<1, 2>>}) <= 2
                BY ONLY <2>1, FS_AddElement
          <2> QED BY <2>2, <2>3
    <1>3. IsFiniteSet(1..lim) /\ Cardinality(1..lim) = lim
          BY FS_Interval
    <1>4. IsFiniteSet(3..(2 * n - 2)) /\ Cardinality(3..(2 * n - 2)) = 2 * n - 4
          <2> DEFINE top == 2 * n - 2
          <2>1. top \in Int /\ top >= 3 /\ 3 \in Int OBVIOUS
          <2> HIDE DEF top
          <2>2. IsFiniteSet(3..top) /\ Cardinality(3..top) = IF 3 > top THEN 0 ELSE top - 3 + 1
                BY ONLY <2>1, FS_Interval
          <2>3. top - 3 + 1 = 2 * n - 4 /\ ~ (3 > top) BY <2>1 DEF top
          <2>4. Cardinality(3..top) = 2 * n - 4 BY <2>2, <2>3
          <2> QED BY <2>2, <2>4 DEF top
    <1>5. IsFiniteSet(rest) /\ Cardinality(rest) = lim * (2 * n - 4)
          <2> DEFINE A == 1..lim
                     B == 3..(2 * n - 2)
          <2>1. IsFiniteSet(A) /\ IsFiniteSet(B) /\ Cardinality(A) = lim /\ Cardinality(B) = 2 * n - 4
                BY <1>3, <1>4
          <2> HIDE DEF A, B
          <2>2. IsFiniteSet(A \X B) /\ Cardinality(A \X B) = Cardinality(A) * Cardinality(B)
                BY <2>1, FS_Product
          <2> QED BY <2>1, <2>2 DEF A, B
    <1> HIDE DEF first, rest
    <1>6. /\ IsFiniteSet(first \cup rest) /\ Cardinality(first \cup rest) \in Nat
          /\ Cardinality(first \cup rest) <= 2 + lim * (2 * n - 4)
          <2>1. /\ IsFiniteSet(first \cup rest)
                /\ Cardinality(first \cup rest)
                      = Cardinality(first) + Cardinality(rest) - Cardinality(first \cap rest)
                BY <1>2, <1>5, FS_Union
          <2>2. IsFiniteSet(first \cap rest) BY <1>2, FS_Intersection
          <2>3. /\ Cardinality(first) \in Nat /\ Cardinality(rest) \in Nat
                /\ Cardinality(first \cap rest) \in Nat /\ Cardinality(first \cup rest) \in Nat
                BY <2>1, <2>2, <1>2, <1>5, FS_CardinalityType
          <2> HIDE DEF first, rest
          <2>4. Cardinality(first \cup rest) <= 2 + Cardinality(rest) BY <2>1, <2>3, <1>2
          <2> QED BY <2>1, <2>3, <2>4, <1>5
    <1>7. ASSUME NEW k \in 1..s PROVE at[k] \in first \cup rest
          <2>1. CASE k = 1 BY <2>1 DEF Placed, first
          <2>2. CASE k = 2 BY <2>2 DEF Placed, first
          <2>3. CASE k > 2
                <3>1. at[k] \in (1..lim) \X (1..(2 * n - 2)) /\ at[k][2] > 2
                      BY <2>3 DEF Placed
                <3> QED BY <3>1 DEF rest
          <2> QED BY <2>1, <2>2, <2>3
    <1>8. at \in Injection(1..s, first \cup rest)
          <2>1. at \in [1..s -> first \cup rest] BY <1>7 DEF Placed
          <2>2. \A k, m \in 1..s : at[k] = at[m] => k = m BY DEF Placed
          <2> HIDE DEF s
          <2> QED BY <2>1, <2>2 DEF Injection, IsInjective
    <1>9. Cardinality(1..s) <= Cardinality(first \cup rest)
          BY <1>6, <1>8, FS_Injection
    <1>10. Cardinality(1..s) = s
          <2> HIDE DEF s
          <2> QED BY <1>1, FS_Interval
    <1> DEFINE bound == lim * (2 * n - 4)
    <1>11. bound \in Int OBVIOUS
    <1> HIDE DEF s, bound
    <1> QED BY <1>1, <1>6, <1>9, <1>10, <1>11 DEF s, bound

(* Each node of a chain is the tail of the one before.                     *)
FollowsTails(pool, s) ==
    /\ pool[s[Len(s)]].tail = NoNode
    /\ \A e \in 1..(Len(s) - 1) : pool[s[e]].tail = s[e + 1] /\ s[e + 1] # NoNode

(* Where each tail is a node of a lower level, a chain has no more nodes   *)
(* than levels.                                                            *)
LEMMA ChainIsShort ==
    ASSUME NEW pool \in Seq(NodeType), NEW lim \in Nat, NEW level, NEW start \in 1..Len(pool),
           \A k \in 1..Len(pool) :
              /\ level[k] \in Nat \ {0}
              /\ \/ pool[k].tail = NoNode
                 \/ pool[k].tail \in 1..Len(pool) /\ level[pool[k].tail] < level[k],
           level[start] <= lim
    PROVE  /\ Chain(pool, start, lim) \in Seq(1..Len(pool))
           /\ Len(Chain(pool, start, lim)) \in 1..lim
           /\ Chain(pool, start, lim)[1] = start
           /\ FollowsTails(pool, Chain(pool, start, lim))
    <1> DEFINE Nodes == 1..Len(pool)
               V == {s \in Seq(Nodes) : /\ s # <<>> /\ s[1] = start
                                        /\ Len(s) + level[s[Len(s)]] <= lim + 1
                                        /\ \A e \in 1..(Len(s) - 1) :
                                              pool[s[e]].tail = s[e + 1] /\ s[e + 1] # NoNode}
               Longer(s) == IF pool[s[Len(s)]].tail = NoNode THEN s ELSE Append(s, pool[s[Len(s)]].tail)
               step == [k \in 1..lim |-> [s \in V |-> Longer(s)]]
               body(f) == [k \in 0..lim |-> IF k = 0 THEN <<start>> ELSE Longer(f[k - 1])]
               g == CHOOSE f : f = body(f)
    <1>1. Chain(pool, start, lim) = g[lim]
          BY DEF Chain
    <1>2. <<start>> \in V
          <2>1. <<start>> \in Seq(Nodes) /\ Len(<<start>>) = 1 /\ <<start>>[1] = start /\ <<start>> # <<>>
                OBVIOUS
          <2>2. level[start] \in Nat OBVIOUS
          <2> QED BY <2>1, <2>2
    <1>3. ASSUME NEW s \in V
          PROVE  /\ s \in Seq(Nodes) /\ Len(s) \in Nat /\ Len(s) >= 1 /\ s[1] = start
                 /\ s[Len(s)] \in Nodes /\ level[s[Len(s)]] \in Nat \ {0}
                 /\ Len(s) + level[s[Len(s)]] <= lim + 1
                 /\ \A e \in 1..(Len(s) - 1) : pool[s[e]].tail = s[e + 1] /\ s[e + 1] # NoNode
          <2>1. s \in Seq(Nodes) /\ s # <<>> OBVIOUS
          <2> HIDE DEF Nodes
          <2>2. Len(s) \in Nat /\ Len(s) >= 1 BY <2>1, EmptySeq, LenProperties
          <2>3. s[Len(s)] \in Nodes BY <2>1, <2>2, ElementOfSeq
          <2> QED BY <2>1, <2>2, <2>3 DEF Nodes
    <1> HIDE DEF g
    <1>4. ASSUME NEW s \in V PROVE Longer(s) \in V
          <2> DEFINE last == s[Len(s)]
                     tail == pool[last].tail
          <2>1. CASE tail = NoNode BY <2>1
          <2>2. CASE tail # NoNode
                <3>1. last \in Nodes /\ level[last] \in Nat \ {0} /\ Len(s) \in Nat /\ Len(s) >= 1
                      /\ Len(s) + level[last] <= lim + 1 /\ s \in Seq(Nodes) /\ s[1] = start
                      BY <1>3
                <3>2. tail \in Nodes /\ level[tail] < level[last] /\ level[tail] \in Nat \ {0}
                      BY <3>1, <2>2
                <3> DEFINE a == Append(s, tail)
                <3> HIDE DEF last, tail, Nodes
                <3>3. /\ a \in Seq(Nodes) /\ a # <<>> /\ Len(a) = Len(s) + 1
                      /\ a[Len(a)] = tail /\ a[1] = s[1]
                      /\ \A e \in 1..Len(s) : a[e] = s[e]
                      BY <3>1, <3>2, AppendProperties
                <3>4. Len(a) + level[a[Len(a)]] <= lim + 1 BY <3>1, <3>2, <3>3
                <3>7. ASSUME NEW e \in 1..(Len(a) - 1) PROVE pool[a[e]].tail = a[e + 1] /\ a[e + 1] # NoNode
                      <4> HIDE DEF a
                      <4>1. e \in 1..Len(s) /\ a[e] = s[e] BY <3>1, <3>3
                      <4>2. CASE e = Len(s)
                            <5>1. a[e + 1] = tail /\ a[e] = last BY <4>1, <4>2, <3>3 DEF last
                            <5> QED BY <5>1, <2>2 DEF tail
                      <4>3. CASE e # Len(s)
                            <5>1. e \in 1..(Len(s) - 1) /\ e + 1 \in 1..Len(s) BY <4>1, <4>3, <3>1
                            <5>2. a[e + 1] = s[e + 1] BY <5>1, <3>3
                            <5>3. pool[s[e]].tail = s[e + 1] /\ s[e + 1] # NoNode BY <5>1, <1>3
                            <5> QED BY <4>1, <5>2, <5>3
                      <4> QED BY <4>2, <4>3
                <3> HIDE DEF a
                <3>5. a \in V BY <3>1, <3>3, <3>4, <3>7
                <3>6. Longer(s) = a BY <2>2 DEF a, tail, last
                <3> QED BY <3>5, <3>6
          <2> QED BY <2>1, <2>2
    <1> HIDE DEF V, Longer
    <1>5. step \in [1..lim -> [V -> V]] BY <1>4
    <1>6. \A k \in 1..lim : \A s \in V : step[k][s] = Longer(s) OBVIOUS
    <1> HIDE DEF step
    <1>7. PICK f : IsRecursion(f, V, lim, <<start>>, step)
          <2>1. HasRecursion(V, lim, <<start>>, step) BY <1>2, <1>5, RecursionDefines
          <2> QED BY <2>1 DEF HasRecursion
    <1>8. ASSUME NEW k \in 1..lim PROVE f[k] = Longer(f[k - 1])
          <2>1. k - 1 \in 0..lim OBVIOUS
          <2>2. f[k - 1] \in V /\ f[k] = step[k][f[k - 1]] BY <1>7, <2>1 DEF IsRecursion
          <2> QED BY <2>2, <1>6
    <1>9. f = body(f)
          <2>1. f \in [0..lim -> V] /\ f[0] = <<start>> BY <1>7 DEF IsRecursion
          <2>2. \A k \in 0..lim : k = 0 \/ k \in 1..lim OBVIOUS
          <2>3. \A k \in 0..lim : f[k] = IF k = 0 THEN <<start>> ELSE Longer(f[k - 1])
                BY <2>1, <2>2, <1>8
          <2> QED BY <2>1, <2>3
    <1>10. g = body(g) BY <1>9 DEF g
    <1>11. g[0] = <<start>> /\ \A k \in 1..lim : g[k] = Longer(g[k - 1]) BY SMTT(30), <1>10
    <1>12. \A k \in 1..lim : g[k - 1] \in V => g[k] \in V BY <1>4, <1>11
    <1>13. \A k \in 0..lim : g[k] \in V
           <2>1. g[0] \in V BY <1>2, <1>11
           <2> HIDE DEF g
           <2> QED BY ONLY <2>1, <1>12, lim \in Nat, RecursionStaysIn
    <1>14. g[lim] \in V BY <1>13
    <1>17. pool[g[lim][Len(g[lim])]].tail = NoNode
           <2> DEFINE S == {k \in 0..lim : pool[g[k][Len(g[k])]].tail = NoNode \/ Len(g[k]) = k + 1}
           <2>1. 0 \in S
                 <3>1. Len(<<start>>) = 0 + 1 /\ 0 \in 0..lim OBVIOUS
                 <3> HIDE DEF g
                 <3>2. Len(g[0]) = 0 + 1 BY ONLY <3>1, <1>11
                 <3> QED BY <3>1, <3>2
           <2>2. ASSUME NEW k \in 0..(lim - 1), k \in S PROVE k + 1 \in S
                 <3>1. k \in 0..lim /\ k + 1 \in 1..lim /\ (k + 1) - 1 = k OBVIOUS
                 <3>2. g[k + 1] = Longer(g[k]) BY <3>1, <1>11
                 <3>3. CASE pool[g[k][Len(g[k])]].tail = NoNode
                       <4>1. g[k + 1] = g[k] BY <3>2, <3>3 DEF Longer
                       <4> QED BY <4>1, <3>1, <3>3
                 <3>4. CASE pool[g[k][Len(g[k])]].tail # NoNode
                       <4>1. Len(g[k]) = k + 1 /\ g[k] \in Seq(Nodes)
                             <5>1. g[k] \in V BY <3>1, <1>13
                             <5> QED BY <5>1, <1>3, <2>2, <3>4
                       <4> DEFINE tail == pool[g[k][Len(g[k])]].tail
                       <4>2. tail \in Nodes
                             <5>1. g[k][Len(g[k])] \in Nodes
                                   <6>1. g[k] \in V BY <3>1, <1>13
                                   <6> QED BY <6>1, <1>3
                             <5> QED BY <5>1, <3>4
                       <4>3. g[k + 1] = Append(g[k], tail) BY <3>2, <3>4 DEF Longer
                       <4> HIDE DEF tail, Nodes
                       <4>4. Len(Append(g[k], tail)) = (k + 1) + 1 BY <4>1, <4>2, AppendProperties
                       <4> QED BY <3>1, <4>3, <4>4
                 <3> QED BY <3>3, <3>4
           <2> HIDE DEF S, g
           <2>3. 0..lim \subseteq S BY ONLY <2>1, <2>2, lim \in Nat, SetInductionUpTo
           <2>4. lim \in 0..lim OBVIOUS
           <2>5. pool[g[lim][Len(g[lim])]].tail = NoNode \/ Len(g[lim]) = lim + 1 BY <2>3, <2>4 DEF S
           <2>6. Len(g[lim]) # lim + 1
                 <3>1. /\ Len(g[lim]) \in Nat /\ level[g[lim][Len(g[lim])]] \in Nat \ {0}
                       /\ Len(g[lim]) + level[g[lim][Len(g[lim])]] <= lim + 1
                       BY <1>14, <1>3
                 <3> QED BY ONLY <3>1, lim \in Nat
           <2> QED BY <2>5, <2>6
    <1>15. /\ g[lim] \in Seq(Nodes) /\ Len(g[lim]) \in Nat /\ Len(g[lim]) >= 1 /\ g[lim][1] = start
           /\ level[g[lim][Len(g[lim])]] \in Nat \ {0}
           /\ Len(g[lim]) + level[g[lim][Len(g[lim])]] <= lim + 1
           BY <1>14, <1>3
    <1>16. Len(g[lim]) \in 1..lim BY <1>15
    <1>18. FollowsTails(pool, g[lim])
           <2>1. \A e \in 1..(Len(g[lim]) - 1) : pool[g[lim][e]].tail = g[lim][e + 1] /\ g[lim][e + 1] # NoNode
                 BY <1>14, <1>3
           <2> QED BY <2>1, <1>17 DEF FollowsTails
    <1> QED BY <1>1, <1>15, <1>16, <1>18

(* The lists between two calls.                                            *)
CountsOf(p, lim) == [b \in 1..lim |-> LastChain(p, b).count]

Merging(p, lv, lim, c, r) ==
    /\ PoolType(p, lim) /\ InOrder(p, lv, lim)
    /\ \E made, at : /\ Balanced(Len(lv), lim, CountsOf(p, lim), made, c, r)
                     /\ Placed(p, lim, Len(lv), CountsOf(p, lim), made, at)
                     /\ InStep(p, lim, Len(lv), CountsOf(p, lim), made, at)

LEMMA MergingStarts ==
    ASSUME NEW lv, SortedLeaves(lv), Len(lv) > 2, NEW lim \in Nat, lim >= 2
    PROVE  Merging(InitLists(lv, lim), lv, lim, [b \in 1..lim |-> 0], 0)
    <1> DEFINE p == InitLists(lv, lim)
               n == Len(lv)
               one == Node(lv[1].weight, 1, NoNode)
               two == Node(lv[2].weight, 2, NoNode)
               made == [b \in 1..lim |-> 0]
               at == [k \in 1..2 |-> <<1, k>>]
    <1>1. /\ n \in Nat /\ lv[1] \in LeafType /\ lv[2] \in LeafType /\ lv[3] \in LeafType
          /\ lv[1].weight <= lv[2].weight /\ lv[2].weight <= lv[3].weight
          <2>1. lv \in Seq(LeafType) /\ n \in Nat BY LenProperties DEF SortedLeaves
          <2>2. 1 \in 1..n /\ 2 \in 1..n /\ 3 \in 1..n BY <2>1
          <2> QED BY <2>1, <2>2, ElementOfSeq DEF SortedLeaves
    <1>2. /\ one \in NodeType /\ one.weight = lv[1].weight /\ one.count = 1 /\ one.tail = NoNode
          /\ two \in NodeType /\ two.weight = lv[2].weight /\ two.count = 2 /\ two.tail = NoNode
          BY <1>1 DEF Node, NodeType, LeafType, NoNode
    <1>3. /\ p.pool = <<one, two>> /\ p.lists = [b \in 1..lim |-> <<1, 2>>]
          /\ p = [pool |-> p.pool, lists |-> p.lists]
          BY DEF InitLists
    <1> HIDE DEF p, one, two
    <1>4. p.pool \in Seq(NodeType) /\ Len(p.pool) = 2 /\ p.pool[1] = one /\ p.pool[2] = two
          BY <1>2, <1>3
    <1>5. PoolType(p, lim)
          <2>1. p.lists \in [1..lim -> Nat \X Nat] /\ \A j \in 1..lim : p.lists[j][1] = 1 /\ p.lists[j][2] = 2
                BY <1>3
          <2>2. p \in [pool : Seq(NodeType), lists : [1..lim -> Nat \X Nat]]
                BY <2>1, <1>3, <1>4
          <2>3. 1 \in 1..2 /\ 2 \in 1..2 OBVIOUS
          <2> QED BY <2>1, <2>2, <2>3, <1>4 DEF PoolType
    <1>6. \A j \in 1..lim : FirstChain(p, j) = one /\ LastChain(p, j) = two
          BY <1>3, <1>4 DEF FirstChain, LastChain
    <1>7. \A j \in 1..lim : Pair(p, j) = lv[1].weight + lv[2].weight
          BY <1>2, <1>3, <1>4 DEF Pair
    <1>8. InOrder(p, lv, lim)
          <2> SUFFICES ASSUME NEW j \in 1..lim
                       PROVE  /\ one.weight > 0 /\ one.weight <= two.weight
                              /\ Heavier(p, lv, j, two)
                BY <1>6 DEF InOrder
          <2>1. lv[1].weight \in Nat \ {0} /\ lv[2].weight \in Nat \ {0} /\ lv[3].weight \in Nat \ {0}
                BY <1>1 DEF LeafType
          <2>2. j > 1 => Pair(p, j - 1) = lv[1].weight + lv[2].weight
                <3>1. j > 1 => j - 1 \in 1..lim OBVIOUS
                <3> QED BY <3>1, <1>7
          <2>3. two.count \in 2..n /\ two.count + 1 = 3 BY <1>1, <1>2
          <2> QED BY <2>1, <2>2, <2>3, <1>1, <1>2 DEF Heavier
    <1> DEFINE count == CountsOf(p, lim)
    <1>9. count = [b \in 1..lim |-> 2] BY <1>2, <1>6 DEF CountsOf
    <1> HIDE DEF count, n
    <1>10. Balanced(n, lim, count, made, [b \in 1..lim |-> 0], 0)
          <2>1. count \in [1..lim -> 2..n] /\ made \in [1..lim -> 0..(n - 2)] /\ 0 \in 0..(2 * n - 5)
                BY <1>1, <1>9 DEF n
          <2>2. made[1] = 0 OBVIOUS
          <2>3. ASSUME NEW j \in 1..lim
                PROVE  Numbered(n, count, made, j) /\ AsAsked(n, lim, count, made, [b \in 1..lim |-> 0], 0, j)
                <3>1. count[j] = 2 /\ made[j] = 0 BY <1>9
                <3>2. Asked(lim, made, 0, j) = 2
                      <4>1. j # lim => j + 1 \in 1..lim OBVIOUS
                      <4> QED BY <4>1 DEF Asked
                <3> QED BY <3>1, <3>2 DEF Numbered, AsAsked
          <2> QED BY <2>1, <2>2, <2>3 DEF Balanced
    <1>11. Placed(p, lim, n, count, made, at)
          <2>1. at \in [1..2 -> (1..lim) \X (1..(2 * n - 2))]
                <3>1. \A k \in 1..2 : k \in 1..(2 * n - 2) BY <1>1 DEF n
                <3> QED BY <3>1
          <2>2. at[1] = <<1, 1>> /\ at[2] = <<1, 2>> /\ \A k \in 1..2 : at[k][1] = 1 /\ at[k][2] = k
                OBVIOUS
          <2>3. \A k, m \in 1..2 : at[k] = at[m] => k = m BY <2>2
          <2>4. \A k \in 1..2 : p.pool[k].tail = NoNode
                <3>1. \A k \in 1..2 : k = 1 \/ k = 2 OBVIOUS
                <3> QED BY <3>1, <1>2, <1>4
          <2>5. 1 \in 1..lim /\ count[1] = 2 /\ made[1] = 0 BY <1>9
          <2>6. \A j \in 1..lim : /\ p.lists[j][1] = 1 /\ p.lists[j][2] = 2
                                  /\ count[j] = 2 /\ made[j] = 0
                BY <1>3, <1>9
          <2> HIDE DEF at, made
          <2>7. \A j \in 1..lim : ~ (count[j] + made[j] > 2) BY <2>6
          <2>8. \A j \in 1..lim : at[p.lists[j][1]][1] <= j /\ at[p.lists[j][2]][1] <= j BY <2>2, <2>6
          <2>9. \A k \in 1..2 : at[k][2] <= count[at[k][1]] + made[at[k][1]] /\ ~ (k > 2)
                BY <2>2, <2>5
          <2> QED BY <2>1, <2>2, <2>3, <2>4, <2>7, <2>8, <2>9, <1>4 DEF Placed
    <1>12. InStep(p, lim, n, count, made, at)
          <2>1. \A k \in 1..2 : at[k][1] = 1 /\ at[k][2] = k OBVIOUS
          <2>2. \A j \in 1..lim : /\ p.lists[j][2] = 2 /\ count[j] = 2 /\ made[j] = 0
                BY <1>3, <1>9
          <2> HIDE DEF at, made
          <2>3. ASSUME NEW k \in 1..Len(p.pool) PROVE Fits(p.pool, n, at, at[k], p.pool[k])
                <3>1. k \in 1..2 /\ (k = 1 \/ k = 2) BY <1>4
                <3>2. p.pool[k].count = k /\ p.pool[k].tail = NoNode BY <3>1, <1>2, <1>4
                <3>3. at[k][2] = k BY <3>1, <2>1
                <3> QED BY <3>1, <3>2, <3>3 DEF Fits
          <2>4. p.pool[2].count = 2 BY <1>2, <1>4
          <2>5. \A j \in 1..lim : at[p.lists[j][2]][2] = count[j] + made[j]
                <3>1. at[2][2] = 2 BY <2>1
                <3> QED BY <3>1, <2>2
          <2> QED BY <2>3, <2>4, <2>5 DEF InStep
    <1> QED BY <1>5, <1>8, <1>10, <1>11, <1>12 DEF Merging, count, n, p

(* What there is of the counts of the lists, from the invariant.           *)
LEMMA CountsTypes ==
    ASSUME NEW lv, SortedLeaves(lv), NEW p, NEW lim \in Nat, NEW made, NEW c, NEW r,
           Balanced(Len(lv), lim, CountsOf(p, lim), made, c, r), NEW j \in 1..lim
    PROVE  /\ Len(lv) \in Nat /\ c[j] \in Nat
           /\ CountsOf(p, lim)[j] = LastChain(p, j).count
           /\ CountsOf(p, lim)[j] \in Nat /\ made[j] \in Nat
           /\ CountsOf(p, lim)[j] + made[j] \in Nat /\ CountsOf(p, lim)[j] + made[j] >= 2
           /\ c[j] > 0 /\ (j > 1 \/ CountsOf(p, lim)[j] < Len(lv))
                 => CountsOf(p, lim)[j] + made[j] + 1 <= 2 * Len(lv) - 2
    <1> DEFINE n == Len(lv)
               count == CountsOf(p, lim)
    <1>1. n \in Nat BY LenProperties DEF SortedLeaves
    <1>2. count[j] = LastChain(p, j).count BY DEF CountsOf
    <1> HIDE DEF n, count
    <1>3. Balanced(n, lim, count, made, c, r) BY DEF n, count
    <1>4. /\ count[j] \in Nat /\ count[j] >= 2 /\ count[j] <= n /\ made[j] \in Nat /\ c[j] \in Nat
          BY <1>1, <1>3, BalancedTypes
    <1>5. ASSUME c[j] > 0, j > 1 \/ count[j] < n PROVE count[j] + made[j] + 1 <= 2 * n - 2
          <2>1. AsAsked(n, lim, count, made, c, r, j) BY <1>3 DEF Balanced
          <2>2. count[j] + made[j] + c[j] = Asked(lim, made, r, j)
                BY <2>1, <1>4, <1>5 DEF AsAsked
          <2>3. Asked(lim, made, r, j) \in Nat /\ Asked(lim, made, r, j) <= 2 * n - 2
                BY <1>1, <1>3, AskedBound
          <2> QED BY <2>2, <2>3, <1>1, <1>4, <1>5
    <1> QED BY <1>1, <1>2, <1>4, <1>5 DEF n, count

(* What a new chain does to the counts.                                    *)
LEMMA CountsNext ==
    ASSUME NEW p, NEW lim \in Nat, PoolType(p, lim), NEW j \in 1..lim, NEW node \in NodeType
    PROVE  CountsOf(NextChain(p, j, node), lim) = [CountsOf(p, lim) EXCEPT ![j] = node.count]
    <1> DEFINE q == NextChain(p, j, node)
    <1>1. LastChain(q, j) = node /\ \A g \in 1..lim : g # j => LastChain(q, g) = LastChain(p, g)
          BY ONLY PoolType(p, lim), lim \in Nat, j \in 1..lim, node \in NodeType, NextChainIs
    <1> HIDE DEF q
    <1>2. CountsOf(q, lim) = [CountsOf(p, lim) EXCEPT ![j] = node.count]
          BY <1>1 DEF CountsOf
    <1> QED BY <1>2 DEF q

LEMMA MergingLeaf ==
    ASSUME NEW lv, SortedLeaves(lv), NEW lim \in Nat, lim >= 2, NEW p, NEW c, NEW r,
           Merging(p, lv, lim, c, r), NEW j \in 1..lim, c[j] > 0,
           TakesLeaf(p, lv, j, LastChain(p, j).count)
    PROVE  Merging(NextLeaf(p, lv, j), lv, lim, [c EXCEPT ![j] = @ - 1], r)
    <1> DEFINE n == Len(lv)
               count == CountsOf(p, lim)
    <1>1. PoolType(p, lim) /\ InOrder(p, lv, lim) BY DEF Merging
    <1>2. PICK made, at : /\ Balanced(n, lim, count, made, c, r) /\ Placed(p, lim, n, count, made, at)
                          /\ InStep(p, lim, n, count, made, at)
          BY DEF Merging
    <1>3. PICK node \in NodeType :
              /\ NextLeaf(p, lv, j) = NextChain(p, j, node)
              /\ node.count = LastChain(p, j).count + 1
              /\ node.tail = IF j = 1 THEN NoNode ELSE LastChain(p, j).tail
              /\ InOrder(NextLeaf(p, lv, j), lv, lim)
          BY <1>1, LeafIs
    <1> DEFINE q == NextChain(p, j, node)
               count2 == CountsOf(q, lim)
    <1>4. PoolType(q, lim) BY <1>1, NextChainIs
    <1>5. /\ n \in Nat /\ count[j] = LastChain(p, j).count /\ count[j] \in Nat /\ made[j] \in Nat
          /\ count[j] + made[j] \in Nat /\ count[j] + made[j] >= 2
          /\ c[j] > 0 /\ (j > 1 \/ count[j] < n) => count[j] + made[j] + 1 <= 2 * n - 2
          BY <1>2, CountsTypes
    <1>6. count[j] < n BY <1>5 DEF TakesLeaf
    <1>7. count2 = [count EXCEPT ![j] = @ + 1] BY <1>1, <1>3, <1>5, CountsNext
    <1> HIDE DEF n, count, q, count2
    <1>8. Balanced(n, lim, count2, made, [c EXCEPT ![j] = @ - 1], r)
          BY <1>2, <1>5, <1>6, <1>7, LeafBalanced
    <1>9. \A g \in 1..lim : count[g] + made[g] \in Nat
          <2> TAKE g \in 1..lim
          <2> QED BY <1>2, CountsTypes DEF n, count
    <1>10. \/ node.tail = NoNode
           \/ node.tail \in 1..Len(p.pool) /\ at[node.tail][1] < j
          <2> DEFINE last == p.lists[j][2]
          <2>1. last \in 1..Len(p.pool) BY <1>1 DEF PoolType
          <2>2. at[last] \in (1..lim) \X (1..(2 * n - 2)) /\ at[last][1] <= j BY <2>1, <1>2 DEF Placed
          <2>3. \/ p.pool[last].tail = NoNode
                \/ p.pool[last].tail \in 1..Len(p.pool) /\ at[p.pool[last].tail][1] < at[last][1]
                BY <2>1, <1>2 DEF Placed
          <2>4. p.pool[last].tail \in 1..Len(p.pool) => at[p.pool[last].tail][1] \in 1..lim
                <3> HIDE DEF last
                <3>1. \A k \in 1..Len(p.pool) : at[k] \in (1..lim) \X (1..(2 * n - 2)) BY <1>2 DEF Placed
                <3>2. \A k \in 1..Len(p.pool) : at[k][1] \in 1..lim BY <3>1
                <3> QED BY ONLY <3>2
          <2>5. node.tail = NoNode \/ node.tail = p.pool[last].tail BY <1>3 DEF LastChain
          <2>6. at[last][1] \in 1..lim BY <2>2
          <2> HIDE DEF last
          <2> QED BY ONLY <2>2, <2>3, <2>4, <2>5, <2>6, j \in 1..lim, lim \in Nat
    <1>11. count \in [1..lim -> 2..n] BY <1>2 DEF Balanced
    <1>12. /\ count2[j] + made[j] = count[j] + made[j] + 1
           /\ \A g \in 1..lim : g # j => count2[g] + made[g] = count[g] + made[g]
           <2>1. count2[j] = count[j] + 1 /\ \A g \in 1..lim : g # j => count2[g] = count[g]
                 BY <1>7, <1>11
           <2> QED BY <2>1, <1>5
    <1> DEFINE number == count[j] + made[j]
    <1>17. PICK at2 : PlacedNext(p, q, lim, n, count2, made, at, <<j, number + 1>>, at2)
           BY <1>1, <1>2, <1>5, <1>6, <1>9, <1>10, <1>12, PlaceKept DEF q
    <1>13. /\ Placed(q, lim, n, count2, made, at2)
           /\ at2[Len(p.pool) + 1] = <<j, number + 1>> /\ \A k \in 1..Len(p.pool) : at2[k] = at[k]
           BY <1>17 DEF PlacedNext
    <1>14. Fits(p.pool, n, at, <<j, number + 1>>, node)
           <2> DEFINE last == p.lists[j][2]
           <2>1. /\ last \in 1..Len(p.pool) /\ p.pool[last] = LastChain(p, j) /\ LastChain(p, j) \in NodeType
                 /\ p.pool \in Seq(NodeType)
                 BY <1>1, ChainTypes DEF PoolType, LastChain
           <2>2. Fits(p.pool, n, at, at[last], LastChain(p, j)) /\ at[last][2] = number
                 <3>1. Fits(p.pool, n, at, at[last], p.pool[last]) BY <1>2, <2>1 DEF InStep
                 <3> QED BY <3>1, <1>2, <2>1 DEF InStep
           <2>3. number > 2 => at[last][1] = j BY <1>2 DEF Placed
           <2>4. count[j] >= 2 BY <1>2, <1>5, BalancedTypes
           <2>5. CASE j = 1
                 <3>1. made[j] = 0 BY <1>2, <2>5 DEF Balanced
                 <3>2. node.count = number + 1 /\ node.tail = NoNode BY <3>1, <2>5, <1>3, <1>5
                 <3>3. <<j, number + 1>>[2] = number + 1 OBVIOUS
                 <3> HIDE DEF number
                 <3>4. number \in Nat BY <1>5 DEF number
                 <3> QED BY <3>2, <3>3, <3>4 DEF Fits
           <2>6. CASE j # 1
                 <3>1. at[last][1] = j \/ number = LastChain(p, j).count BY <2>3, <2>4, <1>5
                 <3>2. node.tail = LastChain(p, j).tail BY <2>6, <1>3
                 <3>3. LastChain(p, j).count # n BY <1>5, <1>6
                 <3>4. number \in Nat BY <1>5
                 <3> HIDE DEF number, last
                 <3> QED BY <2>1, <2>2, <3>1, <3>2, <3>3, <3>4, <1>3, LeafFits
           <2> QED BY <2>5, <2>6
    <1>15. InStep(q, lim, n, count2, made, at2)
           BY ZenonT(60), <1>1, <1>2, <1>12, <1>13, <1>14, StepKept DEF q
    <1> QED BY <1>3, <1>4, <1>8, <1>13, <1>15 DEF Merging, n, q, count2

LEMMA MergingPackage ==
    ASSUME NEW lv, SortedLeaves(lv), NEW lim \in Nat, lim >= 2, NEW p, NEW c, NEW r,
           Merging(p, lv, lim, c, r), NEW j \in 2..lim, c[j] > 0, \A g \in 1..(j - 1) : c[g] = 0,
           ~TakesLeaf(p, lv, j, LastChain(p, j).count)
    PROVE  Merging(NextPackage(p, j), lv, lim, [c EXCEPT ![j] = @ - 1, ![j - 1] = 2], r)
    <1> DEFINE n == Len(lv)
               count == CountsOf(p, lim)
    <1>1. PoolType(p, lim) /\ InOrder(p, lv, lim) /\ j \in 1..lim /\ j - 1 \in 1..lim BY DEF Merging
    <1>2. PICK made, at : /\ Balanced(n, lim, count, made, c, r) /\ Placed(p, lim, n, count, made, at)
                          /\ InStep(p, lim, n, count, made, at)
          BY DEF Merging
    <1>3. PICK node \in NodeType :
              /\ NextPackage(p, j) = NextChain(p, j, node)
              /\ node.count = LastChain(p, j).count
              /\ node.tail = p.lists[j - 1][2]
              /\ InOrder(NextPackage(p, j), lv, lim)
          BY <1>1, PackageIs
    <1> DEFINE q == NextChain(p, j, node)
               count2 == CountsOf(q, lim)
               made2 == [made EXCEPT ![j] = @ + 1]
    <1>4. PoolType(q, lim) BY <1>1, NextChainIs
    <1>5. /\ n \in Nat /\ count[j] = LastChain(p, j).count /\ count[j] \in Nat /\ made[j] \in Nat
          /\ count[j] + made[j] \in Nat /\ count[j] + made[j] >= 2
          /\ c[j] > 0 /\ (j > 1 \/ count[j] < n) => count[j] + made[j] + 1 <= 2 * n - 2
          BY <1>1, <1>2, CountsTypes
    <1>6. count2 = count
          <2>1. count2 = [count EXCEPT ![j] = node.count] BY <1>1, CountsNext
          <2>2. count = [b \in 1..lim |-> count[b]] BY DEF CountsOf
          <2> HIDE DEF count, count2, q
          <2> QED BY <2>1, <2>2, <1>1, <1>3, <1>5
    <1>7. made[j] + 1 < count[j] \/ count[j] = n
          <2>1. ~TakesLeaf(p, lv, j, count[j]) BY <1>5
          <2>2. count = [b \in 1..lim |-> LastChain(p, b).count] BY DEF CountsOf
          <2> HIDE DEF count
          <2> QED BY <1>1, <1>2, <2>1, <2>2, LeavesBefore
    <1>16. count[j - 1] <= count[j]
          <2>1. ~TakesLeaf(p, lv, j, count[j]) BY <1>5
          <2>2. count = [b \in 1..lim |-> LastChain(p, b).count] BY DEF CountsOf
          <2> HIDE DEF count
          <2> QED BY <1>1, <1>2, <2>1, <2>2, LeavesBelow
    <1> HIDE DEF n, count, q, count2, made2
    <1>8. Balanced(n, lim, count, made2, [c EXCEPT ![j] = @ - 1, ![j - 1] = 2], r)
          BY <1>2, <1>5, <1>7, PackageBalanced DEF made2
    <1>9. \A g \in 1..lim : count[g] + made[g] \in Nat
          <2> TAKE g \in 1..lim
          <2> QED BY <1>2, CountsTypes DEF n, count
    <1>10. node.tail \in 1..Len(p.pool) /\ at[node.tail][1] < j
          <2>1. at[p.lists[j - 1][2]][1] <= j - 1 /\ p.lists[j - 1][2] \in 1..Len(p.pool)
                BY <1>1, <1>2 DEF Placed, PoolType
          <2>2. at[p.lists[j - 1][2]] \in (1..lim) \X (1..(2 * n - 2)) BY <2>1, <1>2 DEF Placed
          <2>3. at[p.lists[j - 1][2]][1] \in 1..lim BY <2>2
          <2>4. node.tail = p.lists[j - 1][2] BY <1>3
          <2>5. at[node.tail][1] \in 1..lim /\ at[node.tail][1] <= j - 1 BY <2>1, <2>3, <2>4
          <2>6. at[node.tail][1] < j BY ONLY <2>5, j \in 2..lim, lim \in Nat
          <2> QED BY <2>1, <2>4, <2>6
    <1>11. made \in [1..lim -> 0..(n - 2)] BY <1>2 DEF Balanced
    <1>12. /\ count[j] + made2[j] = count[j] + made[j] + 1
           /\ \A g \in 1..lim : g # j => count[g] + made2[g] = count[g] + made[g]
           <2>1. made2[j] = made[j] + 1 /\ \A g \in 1..lim : g # j => made2[g] = made[g]
                 BY <1>1, <1>11 DEF made2
           <2> QED BY <2>1, <1>5
    <1>17. PICK at2 : PlacedNext(p, q, lim, n, count, made2, at, <<j, count[j] + made[j] + 1>>, at2)
           <2>1. count[j] + made[j] >= 2 /\ count[j] + made[j] + 1 <= 2 * n - 2
                 <3>1. j > 1 OBVIOUS
                 <3> QED BY <3>1, <1>5
           <2>2. Placed(p, lim, n, count, made, at) /\ PoolType(p, lim) /\ n \in Nat BY <1>1, <1>2, <1>5
           <2>3. j \in 1..lim OBVIOUS
           <2> QED BY ONLY <2>1, <2>2, <2>3, lim \in Nat, node \in NodeType, <1>9, <1>10, <1>12,
                           PlaceKept DEF q
    <1>13. /\ Placed(q, lim, n, count, made2, at2)
           /\ at2[Len(p.pool) + 1] = <<j, count[j] + made[j] + 1>>
           /\ \A k \in 1..Len(p.pool) : at2[k] = at[k]
           BY <1>17 DEF PlacedNext
    <1>14. Fits(p.pool, n, at, <<j, count[j] + made[j] + 1>>, node)
           <2>1. \A b \in 1..lim : count[b] = LastChain(p, b).count BY DEF count, CountsOf
           <2>2. node.count = count[j] /\ node.tail = p.lists[j - 1][2] BY <1>3, <1>5
           <2>3. c[j - 1] = 0
                 <3>1. j - 1 \in 1..(j - 1) OBVIOUS
                 <3> QED BY <3>1
           <2> QED BY <1>1, <1>2, <1>5, <1>16, <2>1, <2>2, <2>3, PackageFits
    <1>15. InStep(q, lim, n, count, made2, at2)
           <2>1. /\ PoolType(p, lim) /\ Placed(p, lim, n, count, made, at) /\ InStep(p, lim, n, count, made, at)
                 /\ j \in 1..lim
                 BY <1>1, <1>2
           <2> QED BY ONLY ZenonT(60), <2>1, lim \in Nat, node \in NodeType, <1>12, <1>13, <1>14, StepKept DEF q
    <1> QED BY <1>3, <1>4, <1>6, <1>8, <1>13, <1>15 DEF Merging, n, q, count2

LEMMA MergingDrops ==
    ASSUME NEW lv, SortedLeaves(lv), NEW lim \in Nat, lim >= 2, NEW p, NEW c, NEW r,
           Merging(p, lv, lim, c, r), c[1] > 0, ~TakesLeaf(p, lv, 1, LastChain(p, 1).count)
    PROVE  Merging(p, lv, lim, [c EXCEPT ![1] = @ - 1], r)
    <1> DEFINE n == Len(lv)
               count == CountsOf(p, lim)
    <1>1. PICK made, at : /\ Balanced(n, lim, count, made, c, r) /\ Placed(p, lim, n, count, made, at)
                          /\ InStep(p, lim, n, count, made, at)
          BY DEF Merging
    <1>2. 1 \in 1..lim /\ n \in Nat /\ count[1] = LastChain(p, 1).count
          <2>1. 1 \in 1..lim OBVIOUS
          <2> QED BY <2>1, <1>1, CountsTypes
    <1>3. ~ (count[1] < n) BY <1>2 DEF TakesLeaf
    <1> HIDE DEF n, count
    <1>4. count[1] \in Nat /\ count[1] <= n BY <1>1, <1>2, BalancedTypes
    <1>5. count[1] = n BY <1>2, <1>3, <1>4
    <1>6. Balanced(n, lim, count, made, [c EXCEPT ![1] = @ - 1], r) BY <1>1, <1>2, <1>5, DropBalanced
    <1> QED BY <1>1, <1>6 DEF Merging, n, count

LEMMA MergingRuns ==
    ASSUME NEW lv, SortedLeaves(lv), NEW lim \in Nat, lim >= 2, NEW p, NEW c, NEW r,
           Merging(p, lv, lim, c, r), \A j \in 1..lim : c[j] = 0, r < 2 * Len(lv) - 5
    PROVE  Merging(p, lv, lim, [c EXCEPT ![lim] = 1], r + 1)
    <1> DEFINE n == Len(lv)
               count == CountsOf(p, lim)
    <1>1. PICK made, at : /\ Balanced(n, lim, count, made, c, r) /\ Placed(p, lim, n, count, made, at)
                          /\ InStep(p, lim, n, count, made, at)
          BY DEF Merging
    <1>2. n \in Nat BY LenProperties DEF SortedLeaves
    <1>3. r < 2 * n - 5 OBVIOUS
    <1> HIDE DEF n, count
    <1>4. Balanced(n, lim, count, made, [c EXCEPT ![lim] = 1], r + 1) BY <1>1, <1>2, <1>3, RunBalanced
    <1> QED BY <1>1, <1>4 DEF Merging, n, count

LEMMA MergingPool ==
    ASSUME NEW lv, SortedLeaves(lv), Len(lv) > 2, NEW lim \in Nat, lim >= 2, NEW p, NEW c, NEW r,
           Merging(p, lv, lim, c, r)
    PROVE  Len(p.pool) \in Nat /\ Len(p.pool) + 1 <= lim * 2 * Len(lv)
    <1> DEFINE n == Len(lv)
               s == Len(p.pool)
    <1>1. PoolType(p, lim) BY DEF Merging
    <1>2. n \in Nat /\ s \in Nat BY <1>1, LenProperties DEF SortedLeaves, PoolType
    <1>3. PICK made, at : Placed(p, lim, n, CountsOf(p, lim), made, at) BY DEF Merging
    <1>4. s <= 2 + lim * (2 * n - 4)
          <2> HIDE DEF n
          <2>1. n \in Nat /\ n > 2 BY <1>2 DEF n
          <2> QED BY <2>1, <1>1, <1>3, PlacesBound
    <1> HIDE DEF n, s
    <1>5. lim * (2 * n - 4) = lim * 2 * n - 4 * lim /\ lim * 2 * n \in Nat BY <1>2
    <1> DEFINE bound == lim * 2 * n
    <1>6. s <= 2 + (bound - 4 * lim) /\ bound \in Nat BY <1>4, <1>5
    <1> HIDE DEF bound
    <1>7. s + 1 <= bound BY <1>2, <1>6
    <1> QED BY <1>2, <1>7 DEF bound, n, s

(* What boundaryPMFinal leaves: the last chain of the last list has all    *)
(* leaves, two packages less than leaves, and fits like all others.        *)
FinalLists(q, top, lim, n, at) ==
    /\ q.pool \in Seq(NodeType) /\ top \in 1..Len(q.pool) /\ 2 \in 1..Len(q.pool)
    /\ at[top] = <<lim, 2 * n - 2>> /\ q.pool[top].count = n
    /\ at[2] = <<1, 2>> /\ q.pool[2].count = 2
    /\ \A k \in 1..Len(q.pool) :
          /\ at[k][1] \in 1..lim /\ at[k][2] \in Nat
          /\ \/ q.pool[k].tail = NoNode
             \/ q.pool[k].tail \in 1..Len(q.pool) /\ at[q.pool[k].tail][1] < at[k][1]
          /\ Fits(q.pool, n, at, at[k], q.pool[k])

LEMMA FinalShape ==
    ASSUME NEW lv, SortedLeaves(lv), Len(lv) > 2, NEW lim \in Nat, lim >= 2, NEW p, NEW c, NEW r,
           Merging(p, lv, lim, c, r), \A j \in 1..lim : c[j] = 0, r >= 2 * Len(lv) - 5,
           NEW q, q = BoundaryPMFinal(p, lv, lim)
    PROVE  /\ Len(q.pool) <= lim * 2 * Len(lv)
           /\ \E at : FinalLists(q, q.lists[lim][2], lim, Len(lv), at)
    <1> DEFINE n == Len(lv)
               s == Len(p.pool)
               count == CountsOf(p, lim)
               chain == p.lists[lim][2]
               last == LastChain(p, lim)
               place == <<lim, 2 * n - 2>>
    <1>1. PoolType(p, lim) /\ InOrder(p, lv, lim) /\ lim \in 1..lim /\ lim - 1 \in 1..lim BY DEF Merging
    <1>2. PICK made, at : /\ Balanced(n, lim, count, made, c, r) /\ Placed(p, lim, n, count, made, at)
                          /\ InStep(p, lim, n, count, made, at)
          BY DEF Merging
    <1>3. s \in Nat /\ s + 1 <= lim * 2 * n BY MergingPool
    <1>4. /\ n \in Nat /\ n > 2 /\ count[lim] = last.count /\ count[lim] \in Nat /\ made[lim] \in Nat
          /\ c[lim] = 0
          BY <1>1, <1>2, CountsTypes
    <1>5. count[lim] + made[lim] = 2 * n - 3
          <2> HIDE DEF n, count
          <2>1. r \in 0..(2 * n - 5) BY <1>2 DEF Balanced
          <2>2. r = 2 * n - 5 BY <2>1, <1>4 DEF n
          <2>3. AsAsked(n, lim, count, made, c, r, lim) BY <1>1, <1>2 DEF Balanced
          <2>4. count[lim] + made[lim] + c[lim] = 2 + r BY <2>3 DEF AsAsked, Asked
          <2> QED BY <2>2, <2>4, <1>4
    <1>6. /\ chain \in 1..s /\ at[chain][1] = lim /\ at[chain][2] = 2 * n - 3
          /\ p.lists[lim - 1][2] \in 1..s /\ at[p.lists[lim - 1][2]][1] <= lim - 1
          /\ last = p.pool[chain] /\ last \in NodeType /\ p.pool \in Seq(NodeType)
          <2>1. count[lim] + made[lim] > 2 BY <1>4, <1>5
          <2> QED BY <2>1, <1>1, <1>2, <1>5, ChainTypes DEF Placed, PoolType, LastChain, InStep
    <1>7. ASSUME NEW k \in 1..s
          PROVE  /\ at[k][1] \in 1..lim /\ at[k][2] \in Nat
                 /\ \/ p.pool[k].tail = NoNode
                    \/ p.pool[k].tail \in 1..s /\ at[p.pool[k].tail][1] < at[k][1]
                 /\ Fits(p.pool, n, at, at[k], p.pool[k])
          <2>1. at[k] \in (1..lim) \X (1..(2 * n - 2)) BY <1>2 DEF Placed
          <2>2. at[k][1] \in 1..lim /\ at[k][2] \in Nat BY <2>1
          <2> QED BY <2>2, <1>2 DEF Placed, InStep
    <1>8. s >= 2 /\ at[2] = <<1, 2>> /\ p.pool[2].count = 2 BY <1>2 DEF Placed, InStep
    <1>9. /\ last.count \in Nat /\ last.tail \in Nat
          /\ last = [weight |-> last.weight, count |-> last.count, tail |-> last.tail]
          /\ last.weight \in Nat
          <2> HIDE DEF last
          <2> QED BY <1>6 DEF NodeType
    <1>10. place[1] = lim /\ place[2] = 2 * n - 2 /\ 2 * n - 2 \in Nat BY <1>4
    <1>11. CASE TakesLeaf(p, lv, lim, last.count)
          <2> DEFINE node == Node(0, last.count + 1, last.tail)
                     at2 == [k \in 1..(s + 1) |-> IF k <= s THEN at[k] ELSE place]
          <2>1. q = NextChain(p, lim, node) BY <1>11 DEF BoundaryPMFinal
          <2>2. node \in NodeType /\ node.count = last.count + 1 /\ node.tail = last.tail
                <3> HIDE DEF last
                <3> QED BY <1>9 DEF Node, NodeType
          <2>3. count[lim] + 1 = n
                <3> HIDE DEF n, count, last
                <3>1. count[lim] < n BY <1>4, <1>11 DEF TakesLeaf, n
                <3>2. Numbered(n, count, made, lim) BY <1>1, <1>2 DEF Balanced
                <3>3. made[lim] < count[lim] BY <3>1, <3>2, <1>4 DEF Numbered
                <3> QED BY <3>1, <3>3, <1>4, <1>5
          <2>4. Fits(p.pool, n, at, place, node)
                <3>1. Fits(p.pool, n, at, at[chain], last) BY <1>6, <1>7
                <3>2. last.count # n BY <2>3, <1>4
                <3>3. (2 * n - 3) + 1 = 2 * n - 2 /\ 2 * n - 3 \in Nat BY <1>4
                <3> HIDE DEF n, last, chain, node, place
                <3>4. Fits(p.pool, n, at, <<lim, (2 * n - 3) + 1>>, node)
                      BY <3>1, <3>2, <3>3, <2>2, <1>6, LeafFits
                <3> QED BY <3>3, <3>4 DEF place
          <2> HIDE DEF node, last, chain
          <2>5. /\ PoolType(q, lim) /\ Len(q.pool) = s + 1 /\ q.pool[s + 1] = node
                /\ \A k \in 1..s : q.pool[k] = p.pool[k]
                /\ q.lists[lim][2] = s + 1
                BY SMTT(60), <1>1, <2>1, <2>2, NextChainIs
          <2> HIDE DEF s, n, count, place
          <2>6. at2[s + 1] = place /\ \A k \in 1..s : at2[k] = at[k] /\ k \in 1..(s + 1)
                BY <1>3
          <2> HIDE DEF at2
          <2>7. ASSUME NEW a, NEW x, Fits(p.pool, n, at, a, x) PROVE Fits(q.pool, n, at2, a, x)
                <3>1. x.tail \in 1..Len(p.pool) =>
                        /\ x.tail \in 1..Len(q.pool) /\ q.pool[x.tail].count = p.pool[x.tail].count
                        /\ at2[x.tail] = at[x.tail]
                      BY <2>5, <2>6 DEF s
                <3> QED BY <2>7, <3>1, FitsKept
          <2>8. ASSUME NEW k \in 1..(s + 1)
                PROVE  /\ at2[k][1] \in 1..lim /\ at2[k][2] \in Nat
                       /\ \/ q.pool[k].tail = NoNode
                          \/ q.pool[k].tail \in 1..(s + 1) /\ at2[q.pool[k].tail][1] < at2[k][1]
                       /\ Fits(q.pool, n, at2, at2[k], q.pool[k])
                <3>1. CASE k \in 1..s
                      <4>1. at2[k] = at[k] /\ q.pool[k] = p.pool[k] BY <3>1, <2>5, <2>6
                      <4>2. p.pool[k].tail \in 1..s => p.pool[k].tail \in 1..(s + 1) /\ at2[p.pool[k].tail] = at[p.pool[k].tail]
                            BY ONLY <2>6
                      <4>3. Fits(q.pool, n, at2, at[k], p.pool[k]) BY <3>1, <1>7, <2>7
                      <4> QED BY <3>1, <4>1, <4>2, <4>3, <1>7
                <3>2. CASE k = s + 1
                      <4>1. at2[k] = place /\ q.pool[k] = node BY <3>2, <2>5, <2>6
                      <4>2. \/ node.tail = NoNode
                            \/ node.tail \in 1..s /\ at[node.tail][1] < lim
                            BY <2>2, <1>6, <1>7
                      <4>3. node.tail \in 1..s => node.tail \in 1..(s + 1) /\ at2[node.tail] = at[node.tail]
                            BY ONLY <2>6
                      <4>4. Fits(q.pool, n, at2, place, node) BY <2>4, <2>7
                      <4> QED BY <4>1, <4>2, <4>3, <4>4, <1>1, <1>10
                <3> QED BY <3>1, <3>2, <1>3
          <2>9. /\ q.pool \in Seq(NodeType) /\ s + 1 \in 1..Len(q.pool) /\ 2 \in 1..Len(q.pool)
                /\ 2 \in 1..s
                BY <1>3, <1>8, <2>5 DEF PoolType
          <2>10. at2[2] = <<1, 2>> /\ q.pool[2].count = 2 BY <2>5, <2>6, <2>9, <1>8
          <2>11. node.count = n BY <2>2, <2>3, <1>4
          <2>12. FinalLists(q, s + 1, lim, n, at2)
                 BY <2>5, <2>6, <2>8, <2>9, <2>10, <2>11 DEF FinalLists, place
          <2> QED BY <2>5, <2>12, <1>3 DEF n
    <1>12. CASE ~TakesLeaf(p, lv, lim, last.count)
          <2> DEFINE tail == p.lists[lim - 1][2]
                     node == [last EXCEPT !.tail = tail]
                     at2 == [k \in 1..s |-> IF k = chain THEN place ELSE at[k]]
          <2>1. q = [p EXCEPT !.pool[chain].tail = tail] BY <1>12 DEF BoundaryPMFinal
          <2>2. p = [pool |-> p.pool, lists |-> p.lists] BY <1>1 DEF PoolType
          <2>3. count[lim - 1] <= count[lim] /\ (made[lim] + 1 < count[lim] \/ count[lim] = n)
                <3>1. lim \in 2..lim /\ \A g \in 1..(lim - 1) : c[g] = 0 OBVIOUS
                <3>2. ~TakesLeaf(p, lv, lim, count[lim]) BY <1>4, <1>12
                <3>3. count = [b \in 1..lim |-> LastChain(p, b).count] BY DEF CountsOf
                <3> HIDE DEF count
                <3> QED BY <1>1, <1>2, <3>1, <3>2, <3>3, LeavesBelow, LeavesBefore
          <2>4. count[lim] = n
                <3> HIDE DEF n, count
                <3>1. count[lim] <= n BY <1>1, <1>2, <1>4, BalancedTypes
                <3> QED BY <2>3, <3>1, <1>4, <1>5
          <2>5. node \in NodeType /\ node.count = last.count /\ node.tail = tail
                <3>1. tail \in Nat BY <1>3, <1>6 DEF tail
                <3> HIDE DEF tail, last
                <3> QED BY <3>1, <1>9 DEF NodeType
          <2>6. Fits(p.pool, n, at, place, node)
                <3>1. \A b \in 1..lim : count[b] = LastChain(p, b).count BY DEF CountsOf
                <3>2. lim \in 2..lim /\ c[lim - 1] = 0 BY <1>1
                <3>3. node.count = count[lim] /\ node.tail = p.lists[lim - 1][2] BY <2>5, <1>4
                <3>4. count[lim] + made[lim] + 1 = 2 * n - 2 BY <1>4, <1>5
                <3> HIDE DEF n, count, last, chain, node, place, tail
                <3>5. Fits(p.pool, n, at, <<lim, count[lim] + made[lim] + 1>>, node)
                      BY <3>1, <3>2, <3>3, <2>3, <1>1, <1>2, <1>4, PackageFits
                <3> QED BY <3>4, <3>5 DEF place
          <2> HIDE DEF chain, tail, n, count
          <2>7. q.pool = [p.pool EXCEPT ![chain] = [@ EXCEPT !.tail = tail]] /\ q.lists = p.lists
                BY <2>1, <2>2
          <2>8. q.pool = [p.pool EXCEPT ![chain] = node] BY <2>7, <1>6
          <2> HIDE DEF node, last
          <2>9. /\ q.pool \in Seq(NodeType) /\ Len(q.pool) = s /\ q.pool[chain] = node
                /\ \A k \in 1..s : k # chain => q.pool[k] = p.pool[k]
                BY <2>5, <2>8, <1>6, ExceptSeq
          <2> HIDE DEF s, place
          <2>10. at2[chain] = place /\ \A k \in 1..s : k # chain => at2[k] = at[k] BY <1>6
          <2> HIDE DEF at2
          <2>11. ASSUME NEW a, NEW x, Fits(p.pool, n, at, a, x), x.tail # chain
                 PROVE  Fits(q.pool, n, at2, a, x)
                 <3>1. x.tail \in 1..Len(p.pool) =>
                         /\ x.tail \in 1..Len(q.pool) /\ q.pool[x.tail].count = p.pool[x.tail].count
                         /\ at2[x.tail] = at[x.tail]
                       BY <2>9, <2>10, <2>11 DEF s
                 <3> QED BY <2>11, <3>1, FitsKept
          <2>12. ASSUME NEW k \in 1..s
                 PROVE  /\ at2[k][1] \in 1..lim /\ at2[k][2] \in Nat
                        /\ \/ q.pool[k].tail = NoNode
                           \/ q.pool[k].tail \in 1..s /\ at2[q.pool[k].tail][1] < at2[k][1]
                        /\ Fits(q.pool, n, at2, at2[k], q.pool[k])
                 <3>1. CASE k = chain
                       <4>1. at2[k] = place /\ q.pool[k] = node BY <3>1, <2>9, <2>10
                       <4>2. at[tail][1] <= lim - 1 /\ tail \in 1..s /\ at[tail][1] \in 1..lim
                             BY <1>6, <1>7 DEF tail
                       <4>3. at[tail][1] < lim BY ONLY <4>2, lim \in Nat
                       <4>4. tail # chain BY <4>3, <1>6
                       <4>5. at2[tail] = at[tail] BY <4>2, <4>4, <2>10
                       <4>6. Fits(q.pool, n, at2, place, node) BY <4>4, <2>5, <2>6, <2>11
                       <4> QED BY <4>1, <4>2, <4>3, <4>5, <4>6, <2>5, <1>1, <1>10
                 <3>2. CASE k # chain
                       <4>1. at2[k] = at[k] /\ q.pool[k] = p.pool[k] BY <3>2, <2>9, <2>10
                       <4>2. p.pool[k].tail # chain
                             <5>1. CASE p.pool[k].tail = NoNode BY <5>1, <1>6, <1>3 DEF NoNode
                             <5>2. CASE p.pool[k].tail # NoNode
                                   <6>1. at[p.pool[k].tail][1] < at[k][1] /\ at[k][1] \in 1..lim BY <5>2, <1>7
                                   <6>2. ~ (lim < at[k][1]) BY ONLY <6>1, lim \in Nat
                                   <6> QED BY <6>1, <6>2, <1>6
                             <5> QED BY <5>1, <5>2
                       <4>3. p.pool[k].tail \in 1..s => at2[p.pool[k].tail] = at[p.pool[k].tail]
                             BY <4>2, <2>10
                       <4>4. Fits(q.pool, n, at2, at[k], p.pool[k]) BY <4>2, <1>7, <2>11
                       <4> QED BY <4>1, <4>3, <4>4, <1>7
                 <3> QED BY <3>1, <3>2
          <2>13. q.lists[lim][2] = chain BY <2>7 DEF chain
          <2>14. Len(q.pool) <= lim * 2 * n
                 <3> DEFINE bound == lim * 2 * n
                 <3>1. bound \in Int BY <1>4
                 <3> HIDE DEF bound
                 <3>2. s + 1 <= bound BY <1>3 DEF bound
                 <3>3. s <= bound BY <3>1, <3>2, <1>3
                 <3> QED BY <3>3, <2>9 DEF bound
          <2>15. 2 \in 1..s /\ chain # 2
                 <3>1. 2 \in 1..s BY <1>3, <1>8
                 <3>2. at[2][1] = 1 /\ at[chain][1] = lim BY <1>6, <1>8
                 <3> QED BY <3>1, <3>2
          <2>16. at2[2] = <<1, 2>> /\ q.pool[2].count = 2 BY <2>9, <2>10, <2>15, <1>8
          <2>17. node.count = n BY <2>4, <2>5, <1>4
          <2>18. FinalLists(q, chain, lim, n, at2)
                 BY <2>9, <2>10, <2>12, <2>15, <2>16, <2>17, <1>6 DEF FinalLists, place
          <2> QED BY <2>13, <2>14, <2>18 DEF n
    <1> QED BY <1>11, <1>12

(* The last chain counts all leaves, and has no more nodes than lists.     *)
LEMMA FinalChain ==
    ASSUME NEW lim \in Nat, NEW q, NEW top, NEW n, NEW at, FinalLists(q, top, lim, n, at)
    PROVE  /\ Chain(q.pool, top, lim) \in Seq(1..Len(q.pool))
           /\ Len(Chain(q.pool, top, lim)) \in 1..lim
           /\ Chain(q.pool, top, lim)[1] = top
           /\ FollowsTails(q.pool, Chain(q.pool, top, lim))
    <1> DEFINE level == [k \in 1..Len(q.pool) |-> at[k][1]]
               pool == q.pool
    <1>1. pool \in Seq(NodeType) /\ top \in 1..Len(pool) /\ at[top] = <<lim, 2 * n - 2>>
          BY DEF FinalLists
    <1>2. \A k \in 1..Len(pool) : level[k] = at[k][1] OBVIOUS
    <1> HIDE DEF level
    <1>3. \A k \in 1..Len(pool) :
             /\ level[k] \in Nat \ {0}
             /\ \/ pool[k].tail = NoNode
                \/ pool[k].tail \in 1..Len(pool) /\ level[pool[k].tail] < level[k]
          <2> TAKE k \in 1..Len(pool)
          <2>1. /\ at[k][1] \in 1..lim
                /\ \/ pool[k].tail = NoNode
                   \/ pool[k].tail \in 1..Len(pool) /\ at[pool[k].tail][1] < at[k][1]
                BY DEF FinalLists
          <2> HIDE DEF pool
          <2>2. at[k][1] \in Nat \ {0} BY ONLY <2>1, lim \in Nat
          <2> QED BY <2>1, <2>2, <1>2
    <1>4. level[top] <= lim BY <1>1, <1>2
    <1> HIDE DEF pool
    <1> QED BY <1>1, <1>3, <1>4, ChainIsShort DEF pool

(* Powers of two.                                                          *)
IsPower(f, n) == f = [k \in 0..n |-> IF k = 0 THEN 1 ELSE 2 * f[k - 1]]

LEMMA PowerIs ==
    ASSUME NEW n \in Nat
    PROVE  /\ \E f : IsPower(f, n) /\ f \in [0..n -> Nat] /\ f[0] = 1 /\ TwoTo(n) = f[n]
           /\ \A f : IsPower(f, n) => /\ f[0] = 1 /\ f[n] = TwoTo(n)
                                      /\ \A k \in 1..n : f[k] = 2 * f[k - 1]
    <1> DEFINE step == [k \in 1..n |-> [v \in Nat |-> 2 * v]]
               g == CHOOSE f : IsPower(f, n)
    <1>1. PICK f : IsRecursion(f, Nat, n, 1, step)
          <2>1. step \in [1..n -> [Nat -> Nat]] OBVIOUS
          <2> HIDE DEF step
          <2>2. HasRecursion(Nat, n, 1, step) BY <2>1, RecursionDefines
          <2> QED BY <2>2 DEF HasRecursion
    <1>2. IsPower(f, n)
          <2>1. f \in [0..n -> Nat] /\ f[0] = 1 /\ \A k \in 1..n : f[k] = step[k][f[k - 1]]
                BY <1>1 DEF IsRecursion
          <2>2. \A k \in 1..n : f[k] = 2 * f[k - 1]
                <3> TAKE k \in 1..n
                <3>1. k - 1 \in 0..n OBVIOUS
                <3>2. f[k - 1] \in Nat BY <2>1, <3>1
                <3> QED BY <2>1, <3>2
          <2>3. \A k \in 0..n : k = 0 \/ k \in 1..n OBVIOUS
          <2> QED BY <2>1, <2>2, <2>3 DEF IsPower
    <1>3. ASSUME NEW h, IsPower(h, n)
          PROVE  h[0] = 1 /\ \A k \in 1..n : h[k] = 2 * h[k - 1]
          BY SMTT(30), <1>3 DEF IsPower
    <1>4. ASSUME NEW h, IsPower(h, n) PROVE h = f
          <2> DEFINE S == {k \in 0..n : h[k] = f[k]}
          <2>1. 0 \in S BY <1>2, <1>3, <1>4
          <2>2. ASSUME NEW k \in 0..(n - 1), k \in S PROVE k + 1 \in S
                <3>1. k + 1 \in 1..n /\ (k + 1) - 1 = k /\ h[k] = f[k] BY <2>2
                <3>2. h[k + 1] = 2 * h[k] /\ f[k + 1] = 2 * f[k] BY <3>1, <1>2, <1>3, <1>4
                <3> QED BY <3>1, <3>2
          <2> HIDE DEF S
          <2>3. 0..n \subseteq S BY <2>1, <2>2, SetInductionUpTo
          <2>4. \A k \in 0..n : h[k] = f[k] BY <2>3 DEF S
          <2>5. h = [k \in 0..n |-> h[k]] /\ f = [k \in 0..n |-> f[k]] BY <1>2, <1>4 DEF IsPower
          <2> QED BY <2>4, <2>5
    <1>5. IsPower(g, n) BY <1>2
    <1>6. TwoTo(n) = g[n] BY DEF TwoTo, IsPower
    <1> HIDE DEF g
    <1>7. g = f BY <1>4, <1>5
    <1>8. f \in [0..n -> Nat] BY <1>1 DEF IsRecursion
    <1> QED BY <1>2, <1>3, <1>4, <1>6, <1>7, <1>8

LEMMA TwoToIs ==
    ASSUME NEW n \in Nat
    PROVE  /\ TwoTo(n) \in Nat /\ TwoTo(0) = 1 /\ TwoTo(n + 1) = 2 * TwoTo(n)
    <1>1. PICK f : IsPower(f, n) /\ f \in [0..n -> Nat] /\ f[0] = 1 /\ TwoTo(n) = f[n]
          BY PowerIs
    <1>2. n + 1 \in Nat /\ n \in 0..n OBVIOUS
    <1>3. PICK g : IsPower(g, n + 1) /\ g \in [0..(n + 1) -> Nat] /\ g[0] = 1 /\ TwoTo(n + 1) = g[n + 1]
          BY <1>2, PowerIs
    <1>4. \A k \in 1..n : f[k] = 2 * f[k - 1] BY <1>1, PowerIs
    <1>5. \A k \in 1..(n + 1) : g[k] = 2 * g[k - 1] BY <1>2, <1>3, PowerIs
    <1> DEFINE S == {k \in 0..n : g[k] = f[k]}
    <1>6. 0 \in S BY <1>1, <1>3
    <1>7. ASSUME NEW k \in 0..(n - 1), k \in S PROVE k + 1 \in S
          <2>1. k + 1 \in 1..n /\ k + 1 \in 1..(n + 1) /\ (k + 1) - 1 = k /\ g[k] = f[k] BY <1>7
          <2>2. g[k + 1] = 2 * g[k] /\ f[k + 1] = 2 * f[k] BY <2>1, <1>4, <1>5
          <2> QED BY <2>1, <2>2
    <1> HIDE DEF S
    <1>8. 0..n \subseteq S BY <1>6, <1>7, SetInductionUpTo
    <1>9. g[n] = f[n] BY <1>2, <1>8 DEF S
    <1>10. g[n + 1] = 2 * g[n] BY <1>2, <1>5
    <1>11. TwoTo(0) = 1
           <2>1. PICK h : h[0] = 1 /\ TwoTo(0) = h[0] BY PowerIs
           <2> QED BY <2>1
    <1>12. f[n] \in Nat BY <1>1, <1>2
    <1> QED BY <1>1, <1>3, <1>9, <1>10, <1>11, <1>12

(* There are more code words of so many bits than bits.                    *)
LEMMA TwoToGrows ==
    ASSUME NEW n \in Nat
    PROVE  n + 1 <= TwoTo(n)
    <1> DEFINE S == {k \in Nat : k + 1 <= TwoTo(k)}
    <1>1. 0 \in S BY TwoToIs
    <1>2. ASSUME NEW k \in Nat, k \in S PROVE k + 1 \in S
          <2>1. TwoTo(k) \in Nat /\ TwoTo(k + 1) = 2 * TwoTo(k) /\ k + 1 <= TwoTo(k) BY <1>2, TwoToIs
          <2>2. (k + 1) + 1 <= TwoTo(k + 1) BY <2>1
          <2> QED BY <2>2
    <1> HIDE DEF S
    <1>3. Nat \subseteq S BY <1>1, <1>2, SetInduction
    <1> QED BY <1>3 DEF S

(* Sums of the first terms.                                                *)
IsSum(f, n, t) == f = [m \in 0..n |-> IF m = 0 THEN 0 ELSE f[m - 1] + t[m]]

LEMMA SumSteps ==
    ASSUME NEW n \in Nat, NEW f, NEW t, IsSum(f, n, t)
    PROVE  f[0] = 0 /\ \A m \in 0..(n - 1) : f[m + 1] = f[m] + t[m + 1]
    <1>1. f[0] = 0 BY DEF IsSum
    <1>2. ASSUME NEW m \in 0..(n - 1) PROVE f[m + 1] = f[m] + t[m + 1]
          <2>1. m + 1 \in 0..n /\ m + 1 # 0 /\ (m + 1) - 1 = m OBVIOUS
          <2>2. f[m + 1] = f[(m + 1) - 1] + t[m + 1] BY <2>1 DEF IsSum
          <2> QED BY <2>1, <2>2
    <1> QED BY <1>1, <1>2

LEMMA SumExists ==
    ASSUME NEW n \in Nat, NEW t, \A m \in 1..n : t[m] \in Nat
    PROVE  \E f : IsSum(f, n, t)
    <1> DEFINE step == [k \in 1..n |-> [v \in Nat |-> v + t[k]]]
    <1>1. step \in [1..n -> [Nat -> Nat]] OBVIOUS
    <1>2. \A k \in 1..n : \A v \in Nat : step[k][v] = v + t[k] OBVIOUS
    <1> HIDE DEF step
    <1>3. PICK f : IsRecursion(f, Nat, n, 0, step)
          <2>2. HasRecursion(Nat, n, 0, step) BY <1>1, RecursionDefines
          <2> QED BY <2>2 DEF HasRecursion
    <1>4. f \in [0..n -> Nat] /\ f[0] = 0 /\ \A k \in 1..n : f[k] = step[k][f[k - 1]]
          BY <1>3 DEF IsRecursion
    <1>5. \A k \in 1..n : f[k] = f[k - 1] + t[k]
          <2> TAKE k \in 1..n
          <2>1. k - 1 \in 0..n OBVIOUS
          <2>2. f[k - 1] \in Nat BY <1>4, <2>1
          <2> QED BY <1>2, <1>4, <2>2
    <1>6. \A k \in 0..n : k = 0 \/ k \in 1..n OBVIOUS
    <1> QED BY <1>4, <1>5, <1>6 DEF IsSum

LEMMA SumTypes ==
    ASSUME NEW n \in Nat, NEW f, NEW t, IsSum(f, n, t), \A m \in 1..n : t[m] \in Nat
    PROVE  \A m \in 0..n : f[m] \in Nat
    <1> DEFINE S == {m \in 0..n : f[m] \in Nat}
    <1>1. 0 \in S BY SumSteps
    <1>2. ASSUME NEW m \in 0..(n - 1), m \in S PROVE m + 1 \in S
          <2>1. m + 1 \in 1..n /\ f[m] \in Nat /\ f[m + 1] = f[m] + t[m + 1] BY <1>2, SumSteps
          <2>2. t[m + 1] \in Nat BY <2>1
          <2>3. m + 1 \in 0..n OBVIOUS
          <2> QED BY <2>1, <2>2, <2>3
    <1> HIDE DEF S
    <1>3. 0..n \subseteq S BY <1>1, <1>2, SetInductionUpTo
    <1> QED BY <1>3 DEF S

(* Terms that are the same.                                                *)
LEMMA SumOfOne ==
    ASSUME NEW n \in Nat, NEW x \in Nat, NEW f, NEW t, IsSum(f, n, t), \A m \in 1..n : t[m] = x
    PROVE  f[n] = n * x
    <1> DEFINE S == {m \in 0..n : f[m] = m * x}
    <1>1. 0 \in S BY SumSteps
    <1>2. ASSUME NEW m \in 0..(n - 1), m \in S PROVE m + 1 \in S
          <2>1. m + 1 \in 0..n /\ f[m] = m * x /\ f[m + 1] = f[m] + t[m + 1] BY <1>2, SumSteps
          <2>2. t[m + 1] = x OBVIOUS
          <2>3. (m + 1) * x = m * x + x OBVIOUS
          <2> QED BY <2>1, <2>2, <2>3
    <1> HIDE DEF S
    <1>3. 0..n \subseteq S BY <1>1, <1>2, SetInductionUpTo
    <1> QED BY <1>3 DEF S

(* Terms of which the first are larger.                                    *)
LEMMA SumOfMore ==
    ASSUME NEW n \in Nat, NEW x \in Nat, NEW a \in 0..n, NEW f, NEW t, NEW g, NEW u,
           IsSum(f, n, t), IsSum(g, n, u), \A m \in 1..n : u[m] \in Nat,
           \A m \in 1..n : t[m] = u[m] + (IF m <= a THEN x ELSE 0)
    PROVE  f[n] = g[n] + a * x
    <1> DEFINE S == {m \in 0..n : f[m] = g[m] + Smaller(m, a) * x}
    <1>0. \A m \in 0..n : g[m] \in Nat BY SumTypes
    <1>1. 0 \in S
          <2>1. f[0] = 0 /\ g[0] = 0 BY SumSteps
          <2>2. Smaller(0, a) = 0 BY DEF Smaller
          <2> QED BY <2>1, <2>2
    <1>2. ASSUME NEW m \in 0..(n - 1), m \in S PROVE m + 1 \in S
          <2>1. /\ m + 1 \in 1..n /\ m \in 0..n /\ f[m] = g[m] + Smaller(m, a) * x
                /\ f[m + 1] = f[m] + t[m + 1] /\ g[m + 1] = g[m] + u[m + 1]
                BY <1>2, SumSteps
          <2>2. t[m + 1] = u[m + 1] + (IF m + 1 <= a THEN x ELSE 0) /\ u[m + 1] \in Nat BY <2>1
          <2>3. Smaller(m + 1, a) * x = Smaller(m, a) * x + (IF m + 1 <= a THEN x ELSE 0)
                <3>1. CASE m + 1 <= a
                      <4>1. Smaller(m + 1, a) = m + 1 /\ Smaller(m, a) = m BY <3>1 DEF Smaller
                      <4>2. (m + 1) * x = m * x + x OBVIOUS
                      <4> QED BY <3>1, <4>1, <4>2
                <3>2. CASE ~ (m + 1 <= a)
                      <4>1. Smaller(m + 1, a) = a /\ Smaller(m, a) = a BY <3>2 DEF Smaller
                      <4>2. a * x + 0 = a * x OBVIOUS
                      <4> QED BY <3>2, <4>1, <4>2
                <3> QED BY <3>1, <3>2
          <2>4. Smaller(m, a) * x \in Nat
                <3>1. Smaller(m, a) \in Nat BY DEF Smaller
                <3> QED BY <3>1
          <2> DEFINE d == IF m + 1 <= a THEN x ELSE 0
                     y == Smaller(m, a) * x
                     z == Smaller(m + 1, a) * x
          <2>5. d \in Nat OBVIOUS
          <2>6. z = y + d /\ t[m + 1] = u[m + 1] + d /\ f[m] = g[m] + y /\ y \in Nat BY <2>1, <2>2, <2>3, <2>4
          <2>7. g[m] \in Nat BY <1>0, <2>1
          <2> HIDE DEF d, y, z
          <2>8. f[m + 1] = g[m + 1] + z BY ONLY <2>1, <2>2, <2>5, <2>6, <2>7
          <2> QED BY <2>1, <2>8 DEF z
    <1> HIDE DEF S
    <1>3. 0..n \subseteq S BY <1>1, <1>2, SetInductionUpTo
    <1>4. Smaller(n, a) = a BY DEF Smaller
    <1>5. n \in 0..n OBVIOUS
    <1> QED BY <1>3, <1>4, <1>5 DEF S

(* The nodes of a chain, numbered from one, each count leaves and have     *)
(* packages; a package is two chains of the next.  Then code words as long *)
(* as there are nodes that count the leaf are all the words.               *)
ChainFits(n, len, a, p) ==
    /\ len \in Nat /\ len >= 1
    /\ a \in [1..len -> 0..n] /\ p \in [1..len -> Nat]
    /\ a[1] = n /\ p[1] = n - 2 /\ p[len] = 0
    /\ \A e \in 1..(len - 1) : a[e + 1] <= a[e] /\ a[e + 1] + p[e + 1] = 2 * p[e]

(* So deep is each leaf, and so many words its code takes up.              *)
TermsAre(n, len, a, deep, bits, t) ==
    /\ deep \in [1..n -> 1..len]
    /\ \A m \in 1..n : \A e \in 1..len : m <= a[e] <=> e <= deep[m]
    /\ \A m \in 1..n : t[m] = TwoTo(bits - deep[m])

LEMMA WordsTaken ==
    ASSUME NEW n \in Nat, n > 2, NEW len, NEW a, NEW p, ChainFits(n, len, a, p),
           NEW bits \in Nat, len <= bits,
           NEW deep, NEW t, TermsAre(n, len, a, deep, bits, t), NEW f, IsSum(f, n, t)
    PROVE  f[n] = TwoTo(bits)
    <1>0. /\ deep \in [1..n -> 1..len]
          /\ \A m \in 1..n : \A e \in 1..len : m <= a[e] <=> e <= deep[m]
          /\ \A m \in 1..n : t[m] = TwoTo(bits - deep[m])
          BY DEF TermsAre
    <1> DEFINE Cut(e) == [m \in 1..n |-> TwoTo(bits - Smaller(deep[m], e))]
               S == {e \in 0..(len - 1) :
                        \A g : IsSum(g, n, Cut(e + 1))
                                  => g[n] = TwoTo(bits) + p[e + 1] * TwoTo(bits - (e + 1))}
    <1>1. /\ len \in Nat /\ len >= 1 /\ len - 1 \in Nat
          /\ a[1] = n /\ p[1] = n - 2 /\ p[len] = 0
          /\ \A e \in 1..len : a[e] \in 0..n /\ p[e] \in Nat
          /\ \A e \in 1..(len - 1) : a[e + 1] <= a[e] /\ a[e + 1] + p[e + 1] = 2 * p[e]
          <2>1. /\ len \in Nat /\ len >= 1 /\ a \in [1..len -> 0..n] /\ p \in [1..len -> Nat]
                /\ a[1] = n /\ p[1] = n - 2 /\ p[len] = 0
                BY DEF ChainFits
          <2>2. \A e \in 1..(len - 1) : a[e + 1] <= a[e] /\ a[e + 1] + p[e + 1] = 2 * p[e]
                BY DEF ChainFits
          <2>3. \A e \in 1..len : a[e] \in 0..n /\ p[e] \in Nat BY <2>1
          <2>4. len - 1 \in Nat BY <2>1
          <2> QED BY <2>1, <2>2, <2>3, <2>4
    <1>2. ASSUME NEW e \in 1..len, NEW m \in 1..n
          PROVE  /\ Smaller(deep[m], e) \in 1..e /\ bits - Smaller(deep[m], e) \in Nat
                 /\ Cut(e)[m] = TwoTo(bits - Smaller(deep[m], e)) /\ Cut(e)[m] \in Nat
          <2>1. deep[m] \in 1..len BY <1>0, <1>1
          <2>2. Smaller(deep[m], e) \in 1..e /\ bits - Smaller(deep[m], e) \in Nat
                BY <1>1, <2>1 DEF Smaller
          <2> QED BY <2>2, TwoToIs
    <1>3. 0 \in S
          <2> SUFFICES ASSUME NEW g, IsSum(g, n, Cut(1))
                       PROVE  g[n] = TwoTo(bits) + p[1] * TwoTo(bits - 1)
                BY <1>1
          <2>1. bits - 1 \in Nat /\ bits = (bits - 1) + 1 BY <1>1
          <2>2. TwoTo(bits) = 2 * TwoTo(bits - 1) /\ TwoTo(bits - 1) \in Nat BY <2>1, TwoToIs
          <2>3. ASSUME NEW m \in 1..n PROVE Cut(1)[m] = TwoTo(bits - 1)
                <3>1. 1 \in 1..len BY <1>1
                <3>2. Smaller(deep[m], 1) \in 1..1 BY <3>1, <1>2
                <3>3. Smaller(deep[m], 1) = 1 BY <3>2
                <3> QED BY <3>3
          <2>4. g[n] = n * TwoTo(bits - 1)
                <3> DEFINE x == TwoTo(bits - 1)
                           u == Cut(1)
                <3>1. x \in Nat /\ IsSum(g, n, u) /\ \A m \in 1..n : u[m] = x BY <2>2, <2>3
                <3> HIDE DEF x, u
                <3>2. g[n] = n * x BY <3>1, SumOfOne
                <3> QED BY <3>2 DEF x
          <2> DEFINE x == TwoTo(bits - 1)
          <2>5. n * x = 2 * x + (n - 2) * x BY <2>2
          <2> QED BY <2>2, <2>4, <2>5, <1>1
    <1>4. ASSUME NEW e \in 0..((len - 1) - 1), e \in S PROVE e + 1 \in S
          <2> DEFINE b == e + 1
                     x == TwoTo(bits - (b + 1))
          <2>1. b \in 1..(len - 1) /\ b \in 1..len /\ b + 1 \in 1..len /\ e + 1 \in 0..(len - 1)
                BY <1>1
          <2>2. bits - (b + 1) \in Nat /\ bits - b = (bits - (b + 1)) + 1 BY <1>1
          <2>3. TwoTo(bits - b) = 2 * x /\ x \in Nat BY <2>2, TwoToIs
          <2> SUFFICES ASSUME NEW g, IsSum(g, n, Cut(b + 1))
                       PROVE  g[n] = TwoTo(bits) + p[b + 1] * x
                BY <2>1
          <2>4. \A m \in 1..n : Cut(b)[m] \in Nat /\ Cut(b + 1)[m] \in Nat BY <2>1, <1>2
          <2>5. PICK h : IsSum(h, n, Cut(b))
                <3> DEFINE u == Cut(b)
                <3>1. \A m \in 1..n : u[m] \in Nat BY <2>4
                <3> HIDE DEF u
                <3>2. \E h : IsSum(h, n, u) BY <3>1, SumExists
                <3> QED BY <3>2 DEF u
          <2>6. h[n] = TwoTo(bits) + p[b] * TwoTo(bits - b) BY <2>5, <1>4
          <2>7. ASSUME NEW m \in 1..n
                PROVE  Cut(b)[m] = Cut(b + 1)[m] + (IF m <= a[b + 1] THEN x ELSE 0)
                <3>1. deep[m] \in 1..len /\ b \in Nat BY <1>0, <1>1, <2>1
                <3>2. m <= a[b + 1] <=> b + 1 <= deep[m] BY <1>0, <2>1
                <3>3. CASE m <= a[b + 1]
                      <4>1. b + 1 <= deep[m] BY <3>2, <3>3
                      <4>2. Smaller(deep[m], b) = b /\ Smaller(deep[m], b + 1) = b + 1
                            BY <3>1, <4>1 DEF Smaller
                      <4>3. Cut(b)[m] = 2 * x /\ Cut(b + 1)[m] = x BY <4>2, <2>3
                      <4> QED BY <3>3, <4>3, <2>3
                <3>4. CASE ~ (m <= a[b + 1])
                      <4>1. ~ (b + 1 <= deep[m]) BY <3>2, <3>4
                      <4>2. Smaller(deep[m], b) = deep[m] /\ Smaller(deep[m], b + 1) = deep[m]
                            BY <3>1, <4>1 DEF Smaller
                      <4>3. Cut(b)[m] = Cut(b + 1)[m] BY <4>2
                      <4> QED BY <3>4, <4>3, <2>4
                <3> QED BY <3>3, <3>4
          <2>8. h[n] = g[n] + a[b + 1] * x
                <3> DEFINE u == Cut(b)
                           v == Cut(b + 1)
                           y == a[b + 1]
                <3>1. /\ IsSum(h, n, u) /\ IsSum(g, n, v) /\ \A m \in 1..n : v[m] \in Nat
                      /\ \A m \in 1..n : u[m] = v[m] + (IF m <= y THEN x ELSE 0)
                      /\ y \in 0..n /\ x \in Nat
                      BY <2>1, <2>3, <2>4, <2>5, <2>7, <1>1
                <3> HIDE DEF u, v, x, y
                <3>2. h[n] = g[n] + y * x BY ONLY <3>1, n \in Nat, SumOfMore
                <3> QED BY <3>2 DEF y
          <2>9. g[n] \in Nat
                <3> DEFINE v == Cut(b + 1)
                <3>1. IsSum(g, n, v) /\ \A m \in 1..n : v[m] \in Nat BY <2>4
                <3>2. n \in 0..n OBVIOUS
                <3> HIDE DEF v
                <3> QED BY <3>1, <3>2, SumTypes
          <2>10. TwoTo(bits) \in Nat BY TwoToIs
          <2>11. a[b + 1] + p[b + 1] = 2 * p[b] /\ a[b + 1] \in Nat /\ p[b + 1] \in Nat /\ p[b] \in Nat
                 BY <2>1, <1>1
          <2> DEFINE A == a[b + 1]
                     P == p[b]
                     Q == p[b + 1]
                     T == TwoTo(bits)
                     G == g[n]
          <2>12. /\ A + Q = 2 * P /\ A \in Nat /\ P \in Nat /\ Q \in Nat /\ T \in Nat /\ G \in Nat /\ x \in Nat
                 /\ T + P * (2 * x) = G + A * x
                 BY <2>3, <2>6, <2>8, <2>9, <2>10, <2>11
          <2> HIDE DEF A, P, Q, T, G, x
          <2>13. P * (2 * x) = (2 * P) * x /\ (A + Q) * x = A * x + Q * x BY ONLY <2>12
          <2>14. P * (2 * x) = A * x + Q * x BY <2>12, <2>13
          <2>15. A * x \in Nat /\ Q * x \in Nat BY ONLY <2>12
          <2>16. G = T + Q * x
                 <3> DEFINE ax == A * x
                            qx == Q * x
                            px == P * (2 * x)
                 <3>1. px = ax + qx /\ T + px = G + ax /\ ax \in Nat /\ qx \in Nat BY <2>12, <2>14, <2>15
                 <3> HIDE DEF ax, qx, px
                 <3>2. G = T + qx BY ONLY <3>1, <2>12
                 <3> QED BY <3>2 DEF qx
          <2> QED BY <2>16 DEF Q, T, G
    <1> HIDE DEF S
    <1>5. 0..(len - 1) \subseteq S BY <1>1, <1>3, <1>4, SetInductionUpTo
    <1>6. len - 1 \in S /\ (len - 1) + 1 = len BY <1>1, <1>5
    <1>7. IsSum(f, n, Cut(len))
          <2>1. ASSUME NEW m \in 1..n PROVE Cut(len)[m] = t[m]
                <3>1. deep[m] \in 1..len BY <1>0, <1>1
                <3>2. Smaller(deep[m], len) = deep[m] BY <3>1, <1>1 DEF Smaller
                <3> QED BY <1>0, <3>2
          <2> DEFINE u == Cut(len)
          <2> HIDE DEF u
          <2>2. \A m \in 1..n : u[m] = t[m] BY <2>1 DEF u
          <2>3. IsSum(f, n, u)
                <3>1. \A m \in 0..n : m = 0 \/ m \in 1..n OBVIOUS
                <3>2. [m \in 0..n |-> IF m = 0 THEN 0 ELSE f[m - 1] + t[m]]
                      = [m \in 0..n |-> IF m = 0 THEN 0 ELSE f[m - 1] + u[m]]
                      BY <2>2, <3>1
                <3> QED BY <3>2 DEF IsSum
          <2> QED BY <2>3 DEF u
    <1>8. f[n] = TwoTo(bits) + p[len] * TwoTo(bits - len)
          <2>1. \A g : IsSum(g, n, Cut((len - 1) + 1))
                         => g[n] = TwoTo(bits) + p[(len - 1) + 1] * TwoTo(bits - ((len - 1) + 1))
                BY <1>6 DEF S
          <2> HIDE DEF Cut
          <2> QED BY <2>1, <1>6, <1>7
    <1>9. bits - len \in Nat BY <1>1
    <1>10. TwoTo(bits) \in Nat /\ TwoTo(bits - len) \in Nat BY <1>9, TwoToIs
    <1> QED BY <1>1, <1>8, <1>10

(* What holds of the node with e nodes before it.                          *)
IsNode(q, lim, n, at, k, e) ==
    /\ k \in 1..Len(q.pool) /\ q.pool[k].count <= n
    /\ k = 2 \/ at[k][1] = lim - e
    /\ q.pool[k].count = n => at[k][2] - n + TwoTo(e + 1) = n

(* From one node of the last chain to the next.  Where a list has fewer    *)
(* chains than the packages above call for, all nodes down to it have all  *)
(* leaves, and as there are not more leaves than code words there are just *)
(* enough chains.                                                          *)
LEMMA NextNode ==
    ASSUME NEW lim \in Nat, NEW q, NEW top, NEW n \in Nat, n > 2, NEW at, FinalLists(q, top, lim, n, at),
           n <= TwoTo(lim),
           NEW k, NEW e \in Nat, IsNode(q, lim, n, at, k, e), q.pool[k].tail # NoNode
    PROVE  /\ IsNode(q, lim, n, at, q.pool[k].tail, e + 1)
           /\ q.pool[q.pool[k].tail].count <= q.pool[k].count
           /\ at[q.pool[k].tail][2] = 2 * (at[k][2] - q.pool[k].count)
    <1> DEFINE t == q.pool[k].tail
               a == q.pool[k].count
               b == q.pool[t].count
               x == at[k][2]
               y == at[t][2]
    <1>0. k \in 1..Len(q.pool) /\ a <= n /\ (k = 2 \/ at[k][1] = lim - e)
          /\ (a = n => x - n + TwoTo(e + 1) = n)
          BY DEF IsNode
    <1>1. /\ x \in Nat /\ a \in Nat /\ at[k][1] \in 1..lim /\ Fits(q.pool, n, at, at[k], q.pool[k])
          /\ at[2] = <<1, 2>> /\ q.pool[2].count = 2
          <2>1. q.pool[k] \in NodeType BY <1>0, ElementOfSeq DEF FinalLists
          <2>2. a \in Nat BY <2>1 DEF NodeType
          <2> QED BY <1>0, <2>2 DEF FinalLists
    <1> HIDE DEF t
    <1>2. /\ x >= a /\ x # a /\ t \in 1..Len(q.pool) /\ b <= a
          /\ t = 2 \/ at[t][1] = at[k][1] - 1
          /\ \/ y = 2 * (x - a)
             \/ a = n /\ b = n /\ at[t] = <<1, n>> /\ n <= 2 * (x - a)
          <2> HIDE DEF x, y
          <2> QED BY <1>1 DEF Fits, x, y, t
    <1>3. y \in Nat /\ b \in Nat /\ y >= b
          <2>1. q.pool[t] \in NodeType BY <1>2, ElementOfSeq DEF FinalLists
          <2>2. b \in Nat BY <2>1 DEF NodeType
          <2>3. y \in Nat /\ Fits(q.pool, n, at, at[t], q.pool[t]) BY <1>2 DEF FinalLists
          <2> QED BY <2>2, <2>3 DEF Fits
    <1>4. at[k][1] = lim - e
          <2>1. k # 2
                <3>1. k = 2 => x = 2 /\ a = 2 BY <1>1
                <3> QED BY <3>1, <1>2
          <2> QED BY <1>0, <2>1
    <1>5. e + 1 \in Nat /\ TwoTo(e + 1) \in Nat /\ TwoTo((e + 1) + 1) = 2 * TwoTo(e + 1)
          <2>1. e + 1 \in Nat OBVIOUS
          <2> QED BY ONLY <2>1, TwoToIs
    <1>6. t = 2 \/ at[t][1] = lim - (e + 1) BY <1>2, <1>4
    <1>7. y = 2 * (x - a)
          <2> SUFFICES ASSUME a = n, at[t] = <<1, n>>, n <= 2 * (x - a) PROVE y = 2 * (x - a)
                BY <1>2
          <2>1. y = n /\ at[t][1] = 1 OBVIOUS
          <2>2. t # 2
                <3>1. t = 2 => y = 2 BY <1>1
                <3> QED BY <2>1, <3>1
          <2>3. 1 = lim - (e + 1) BY <1>6, <2>1, <2>2
          <2>4. lim = (e + 1) + 1 BY ONLY <2>3, lim \in Nat, e \in Nat
          <2>5. x - n + TwoTo(e + 1) = n BY <1>0
          <2> DEFINE w == TwoTo(e + 1)
          <2>6. w \in Nat /\ n <= 2 * w /\ x - n + w = n /\ n <= 2 * (x - n)
                BY <2>4, <2>5, <1>5
          <2> HIDE DEF w, x, y
          <2>7. n = 2 * (x - n) BY ONLY <2>6, <1>1, n \in Nat
          <2> QED BY <2>1, <2>7
    <1>8. ASSUME b = n PROVE y - n + TwoTo((e + 1) + 1) = n
          <2> HIDE DEF a, b, x, y
          <2>1. a <= n /\ a \in Nat BY <1>0, <1>1 DEF a
          <2>2. a = n BY ONLY <2>1, <1>2, <1>8, n \in Nat
          <2>3. x - n + TwoTo(e + 1) = n BY <1>0, <2>2
          <2> DEFINE w == TwoTo(e + 1)
          <2>4. w \in Nat /\ x - n + w = n /\ TwoTo((e + 1) + 1) = 2 * w /\ y = 2 * (x - n)
                BY <2>2, <2>3, <1>5, <1>7
          <2> HIDE DEF w
          <2>5. y - n + 2 * w = n BY ONLY <2>4, <1>1, n \in Nat
          <2> QED BY <2>4, <2>5
    <1>9. b <= n
          <2> HIDE DEF a, b, x, y
          <2> QED BY ONLY <1>0, <1>1, <1>2, <1>3, n \in Nat
    <1>10. IsNode(q, lim, n, at, t, e + 1) BY <1>2, <1>6, <1>8, <1>9 DEF IsNode
    <1> QED BY <1>2, <1>7, <1>10 DEF t

LEMMA ChainIsFit ==
    ASSUME NEW lim \in Nat, NEW q, NEW top, NEW n \in Nat, n > 2, NEW at, FinalLists(q, top, lim, n, at),
           n <= TwoTo(lim),
           NEW chain \in Seq(1..Len(q.pool)), Len(chain) \in 1..lim, chain[1] = top,
           FollowsTails(q.pool, chain)
    PROVE  ChainFits(n, Len(chain), [e \in 1..Len(chain) |-> q.pool[chain[e]].count],
                     [e \in 1..Len(chain) |-> at[chain[e]][2] - q.pool[chain[e]].count])
    <1> DEFINE len == Len(chain)
               pool == q.pool
               Holds(k, e) == IsNode(q, lim, n, at, k, e)
               S == {e \in 0..(len - 1) : Holds(chain[e + 1], e)}
    <1>1. len \in Nat /\ len >= 1 /\ len \in 1..len OBVIOUS
    <1>2. ASSUME NEW e \in 1..len
          PROVE  /\ chain[e] \in 1..Len(pool) /\ pool[chain[e]].count \in Nat
                 /\ at[chain[e]][2] - pool[chain[e]].count \in Nat
                 /\ Fits(pool, n, at, at[chain[e]], pool[chain[e]])
          <2>1. chain[e] \in 1..Len(pool) BY ElementOfSeq
          <2>2. pool[chain[e]] \in NodeType BY <2>1, ElementOfSeq DEF FinalLists
          <2>3. at[chain[e]][2] \in Nat /\ Fits(pool, n, at, at[chain[e]], pool[chain[e]])
                BY <2>1 DEF FinalLists
          <2>4. pool[chain[e]].count \in Nat BY <2>2 DEF NodeType
          <2>5. at[chain[e]][2] >= pool[chain[e]].count BY <2>3 DEF Fits
          <2>6. at[chain[e]][2] - pool[chain[e]].count \in Nat
                <3> DEFINE x == at[chain[e]][2]
                           y == pool[chain[e]].count
                <3>1. x \in Nat /\ y \in Nat /\ x >= y BY <2>3, <2>4, <2>5
                <3> HIDE DEF x, y
                <3>2. x - y \in Nat BY ONLY <3>1
                <3> QED BY <3>2 DEF x, y
          <2> QED BY <2>1, <2>3, <2>4, <2>6
    <1>3. ASSUME NEW e \in 1..(len - 1)
          PROVE  /\ e \in 1..len /\ e + 1 \in 1..len
                 /\ chain[e + 1] = pool[chain[e]].tail /\ chain[e + 1] # NoNode
          BY SMTT(60), <1>1 DEF FollowsTails
    <1>4. ASSUME NEW e \in 1..(len - 1), Holds(chain[e], e - 1)
          PROVE  /\ Holds(chain[e + 1], e) /\ pool[chain[e + 1]].count <= pool[chain[e]].count
                 /\ at[chain[e + 1]][2] = 2 * (at[chain[e]][2] - pool[chain[e]].count)
          <2>1. q.pool[chain[e]].tail = chain[e + 1] /\ chain[e + 1] # NoNode BY <1>3
          <2>2. e - 1 \in Nat /\ (e - 1) + 1 = e /\ e \in 1..len /\ e + 1 \in 1..len BY <1>3
          <2>3. IsNode(q, lim, n, at, chain[e], e - 1) BY <1>4
          <2> HIDE DEF len
          <2>4. /\ IsNode(q, lim, n, at, chain[e + 1], (e - 1) + 1)
                /\ q.pool[chain[e + 1]].count <= q.pool[chain[e]].count
                /\ at[chain[e + 1]][2] = 2 * (at[chain[e]][2] - q.pool[chain[e]].count)
                <3> DEFINE k == chain[e]
                           t == chain[e + 1]
                           g == e - 1
                <3>1. g \in Nat /\ IsNode(q, lim, n, at, k, g) /\ q.pool[k].tail = t /\ t # NoNode
                      BY <2>1, <2>2, <2>3
                <3> HIDE DEF k, t, g
                <3>2. /\ IsNode(q, lim, n, at, q.pool[k].tail, g + 1)
                      /\ q.pool[q.pool[k].tail].count <= q.pool[k].count
                      /\ at[q.pool[k].tail][2] = 2 * (at[k][2] - q.pool[k].count)
                      BY SMTT(60), <3>1, NextNode
                <3> QED BY <3>1, <3>2 DEF k, t, g
          <2> QED BY <2>2, <2>4
    <1>5. 0 \in S
          <2>1. /\ pool[top].count = n /\ at[top] = <<lim, 2 * n - 2>> BY DEF FinalLists
          <2>2. at[top][1] = lim /\ at[top][2] = 2 * n - 2 BY <2>1
          <2>3. TwoTo(0 + 1) = 2 BY TwoToIs
          <2>4. Holds(top, 0)
                <3>1. top \in 1..Len(q.pool) BY DEF FinalLists
                <3> QED BY <2>1, <2>2, <2>3, <3>1 DEF IsNode
          <2>5. 0 \in 0..(len - 1) /\ chain[0 + 1] = top BY <1>1
          <2> HIDE DEF Holds
          <2> QED BY <2>4, <2>5
    <1> HIDE DEF Holds, pool
    <1>6. ASSUME NEW e \in 0..((len - 1) - 1), e \in S PROVE e + 1 \in S
          <2>1. e + 1 \in 1..(len - 1) /\ (e + 1) - 1 = e /\ e + 1 \in 0..(len - 1) BY <1>1
          <2>2. Holds(chain[e + 1], (e + 1) - 1) BY <1>6, <2>1
          <2>3. Holds(chain[(e + 1) + 1], e + 1) BY <2>1, <2>2, <1>4
          <2> QED BY <2>1, <2>3
    <1> HIDE DEF S
    <1>7. 0..(len - 1) \subseteq S
          <2>1. len - 1 \in Nat BY <1>1
          <2> HIDE DEF len
          <2> QED BY ONLY <2>1, <1>5, <1>6, SetInductionUpTo
    <1>8. ASSUME NEW e \in 1..len PROVE Holds(chain[e], e - 1)
          <2>1. e - 1 \in 0..(len - 1) /\ (e - 1) + 1 = e BY <1>1
          <2>2. e - 1 \in S BY <2>1, <1>7
          <2>3. Holds(chain[(e - 1) + 1], e - 1) BY <2>2 DEF S
          <2> QED BY <2>1, <2>3
    <1> DEFINE a == [e \in 1..len |-> pool[chain[e]].count]
               p == [e \in 1..len |-> at[chain[e]][2] - pool[chain[e]].count]
    <1>9. a \in [1..len -> 0..n] /\ p \in [1..len -> Nat]
          <2>1. \A e \in 1..len : pool[chain[e]].count \in 0..n /\ at[chain[e]][2] - pool[chain[e]].count \in Nat
                BY <1>2, <1>8 DEF Holds, IsNode, pool
          <2> HIDE DEF len
          <2> QED BY <2>1
    <1>10. a[1] = n /\ p[1] = n - 2
          <2>1. pool[top].count = n /\ at[top] = <<lim, 2 * n - 2>> BY DEF FinalLists, pool
          <2>2. at[top][2] = 2 * n - 2 BY <2>1
          <2>3. 1 \in 1..len /\ chain[1] = top BY <1>1
          <2> QED BY <2>1, <2>2, <2>3
    <1>11. p[len] = 0
          <2>1. pool[chain[len]].tail = NoNode BY DEF FollowsTails, pool
          <2>2. Fits(pool, n, at, at[chain[len]], pool[chain[len]]) BY <1>1, <1>2
          <2>3. at[chain[len]][2] = pool[chain[len]].count BY <2>1, <2>2 DEF Fits, NoNode
          <2>4. pool[chain[len]].count \in Nat BY <1>1, <1>2
          <2> QED BY <2>3, <2>4, <1>1
    <1>12. ASSUME NEW e \in 1..(len - 1) PROVE a[e + 1] <= a[e] /\ a[e + 1] + p[e + 1] = 2 * p[e]
          <2>1. /\ e \in 1..len /\ e + 1 \in 1..len BY <1>3
          <2>2. /\ pool[chain[e + 1]].count <= pool[chain[e]].count
                /\ at[chain[e + 1]][2] = 2 * (at[chain[e]][2] - pool[chain[e]].count)
                BY <2>1, <1>4, <1>8
          <2>3. /\ a[e] = pool[chain[e]].count /\ a[e + 1] = pool[chain[e + 1]].count
                /\ p[e] = at[chain[e]][2] - pool[chain[e]].count
                /\ p[e + 1] = at[chain[e + 1]][2] - pool[chain[e + 1]].count
                BY <2>1
          <2>4. a[e + 1] \in 0..n /\ p[e] \in Nat BY ONLY <2>1, <1>9
          <2> DEFINE y == at[chain[e + 1]][2]
          <2>5. y = 2 * p[e] /\ p[e + 1] = y - a[e + 1] BY <2>2, <2>3
          <2> HIDE DEF a, p, y
          <2>6. a[e + 1] + p[e + 1] = 2 * p[e] BY ONLY <2>4, <2>5, n \in Nat
          <2> QED BY <2>2, <2>3, <2>6
    <1> HIDE DEF a, p
    <1>13. ChainFits(n, len, a, p) BY <1>1, <1>9, <1>10, <1>11, <1>12 DEF ChainFits
    <1> QED BY <1>13 DEF a, p, pool

(* A leaf is as deep as the last node that counts it.                      *)
LEMMA DepthIs ==
    ASSUME NEW n \in Nat, NEW len, NEW a, NEW p, ChainFits(n, len, a, p), NEW m \in 1..n,
           NEW D, D = {e \in 1..len : a[e] >= m}
    PROVE  Cardinality(D) \in 1..len /\ \A e \in 1..len : m <= a[e] <=> e <= Cardinality(D)
    <1>1. /\ len \in Nat /\ len >= 1 /\ a[1] = n
          /\ \A e \in 1..len : a[e] \in 0..n
          /\ \A e \in 1..(len - 1) : a[e + 1] <= a[e]
          <2>1. len \in Nat /\ len >= 1 /\ a[1] = n /\ a \in [1..len -> 0..n]
                /\ \A e \in 1..(len - 1) : a[e + 1] <= a[e]
                BY DEF ChainFits
          <2> QED BY <2>1
    <1>2. ASSUME NEW e \in 1..len, e \in D PROVE \A g \in 1..e : g \in D
          <2> DEFINE S == {g \in 0..(e - 1) : e - g \in D}
          <2>1. 0 \in S BY <1>2
          <2>2. ASSUME NEW g \in 0..((e - 1) - 1), g \in S PROVE g + 1 \in S
                <3>1. e - (g + 1) \in 1..(len - 1) /\ (e - (g + 1)) + 1 = e - g /\ g + 1 \in 0..(e - 1)
                      /\ e - (g + 1) \in 1..len /\ e - g \in 1..len
                      BY <1>1
                <3>2. a[e - g] >= m /\ a[e - g] <= a[e - (g + 1)] BY <3>1, <2>2, <1>1
                <3>3. a[e - g] \in 0..n /\ a[e - (g + 1)] \in 0..n BY <3>1, <1>1
                <3>4. a[e - (g + 1)] >= m BY <3>2, <3>3
                <3> QED BY <3>1, <3>4
          <2> HIDE DEF S
          <2>3. e - 1 \in Nat BY <1>1
          <2>4. 0..(e - 1) \subseteq S BY <2>1, <2>2, <2>3, SetInductionUpTo
          <2>5. ASSUME NEW g \in 1..e PROVE g \in D
                <3>1. e - g \in 0..(e - 1) /\ e - (e - g) = g BY <1>1
                <3>2. e - g \in S BY <2>4, <3>1
                <3>3. e - (e - g) \in D BY <3>2 DEF S
                <3> QED BY <3>1, <3>3
          <2> QED BY <2>5
    <1>3. ASSUME NEW g \in Nat PROVE IsFiniteSet(1..g) /\ Cardinality(1..g) = g
          BY FS_Interval
    <1>4. D \in SUBSET (1..len) OBVIOUS
    <1>5. IsFiniteSet(D) /\ Cardinality(D) \in Nat
          BY <1>1, <1>3, <1>4, FS_Subset, FS_CardinalityType
    <1>6. ASSUME NEW e \in 1..len, e \in D PROVE e <= Cardinality(D)
          <2>1. (1..e) \in SUBSET D BY <1>2, <1>6
          <2>2. Cardinality(1..e) <= Cardinality(D) BY <1>5, <2>1, FS_Subset
          <2>3. e \in Nat BY <1>1
          <2> QED BY <2>2, <2>3, <1>3
    <1>7. ASSUME NEW e \in 1..len, e \notin D PROVE ~ (e <= Cardinality(D))
          <2>1. e - 1 \in Nat BY <1>1
          <2>2. \A g \in D : g < e
                <3> TAKE g \in D
                <3>1. g \in 1..len BY <1>4
                <3>2. e \in 1..g => e \in D BY <1>2, <3>1
                <3>3. ~ (e \in 1..g) BY <3>2, <1>7
                <3> QED BY <3>1, <3>3, <1>1
          <2>3. D \in SUBSET (1..(e - 1)) BY <2>2, <1>4, <1>1
          <2>4. IsFiniteSet(1..(e - 1)) /\ Cardinality(1..(e - 1)) = e - 1 BY <2>1, <1>3
          <2>5. Cardinality(D) <= e - 1 BY <2>3, <2>4, FS_Subset
          <2> QED BY <2>5, <1>5, <1>1
    <1>8. \A e \in 1..len : m <= a[e] <=> e \in D
          <2> TAKE e \in 1..len
          <2>1. a[e] \in 0..n BY <1>1
          <2> QED BY <2>1
    <1>9. 1 \in D BY <1>1
    <1>10. Cardinality(D) \in 1..len
           <2>1. 1 <= Cardinality(D) BY <1>1, <1>6, <1>9
           <2>2. Cardinality(D) <= len
                 <3>1. Cardinality(1..len) = len /\ IsFiniteSet(1..len) BY <1>1, <1>3
                 <3> QED BY <3>1, <1>4, FS_Subset
           <2> QED BY <2>1, <2>2, <1>1, <1>5
    <1> QED BY <1>6, <1>7, <1>8, <1>10

SumsWords(g, lv, lengths, bits, t) ==
    IsSum(g, Len(lv), t) /\ Words(lv, lengths, bits) = g[Len(lv)]

LEMMA WordsIs ==
    ASSUME NEW lv, NEW lengths, NEW bits, Len(lv) \in Nat,
           NEW t, \A m \in 1..Len(lv) : t[m] = TwoTo(bits - lengths[lv[m].symbol]) /\ t[m] \in Nat
    PROVE  \E f : SumsWords(f, lv, lengths, bits, t)
    <1> DEFINE n == Len(lv)
               body(f) == [m \in 0..n |-> IF m = 0 THEN 0
                                          ELSE f[m - 1] + TwoTo(bits - lengths[lv[m].symbol])]
               g == CHOOSE f : f = body(f)
    <1>1. ASSUME NEW f PROVE body(f) = [m \in 0..n |-> IF m = 0 THEN 0 ELSE f[m - 1] + t[m]]
          <2>1. \A m \in 0..n : m = 0 \/ m \in 1..n OBVIOUS
          <2> QED BY <2>1
    <1>2. PICK f : IsSum(f, n, t)
          <2>1. \A m \in 1..n : t[m] \in Nat OBVIOUS
          <2> HIDE DEF n
          <2> QED BY <2>1, SumExists DEF n
    <1>3. f = body(f) BY <1>1, <1>2 DEF IsSum
    <1>4. Words(lv, lengths, bits) = g[n] BY DEF Words
    <1> HIDE DEF body
    <1>5. g = body(g) BY <1>3
    <1> HIDE DEF g
    <1>6. IsSum(g, n, t) BY <1>1, <1>5 DEF IsSum
    <1>7. SumsWords(g, lv, lengths, bits, t) BY <1>4, <1>6 DEF SumsWords
    <1> QED BY <1>7

(* One or two leaves, with a bit each.                                     *)
LEMMA FewWords ==
    ASSUME NEW f \in Frequencies, Len(Leaves(f)) = 2, NEW bits \in Nat, bits >= 2
    PROVE  Words(Leaves(f), FewSymbols(f), bits) = TwoTo(bits)
    <1> DEFINE lv == Leaves(f)
               t == [m \in 1..2 |-> TwoTo(bits - 1)]
    <1>1. bits - 1 \in Nat /\ (bits - 1) + 1 = bits OBVIOUS
    <1>2. TwoTo(bits - 1) \in Nat /\ TwoTo(bits) = 2 * TwoTo(bits - 1) BY <1>1, TwoToIs
    <1>3. ASSUME NEW m \in 1..2 PROVE FewSymbols(f)[lv[m].symbol] = 1
          <2>1. lv[m].symbol \in Used(f) BY LeavesAreUsed
          <2> QED BY <2>1 DEF Used, FewSymbols
    <1>4. \A m \in 1..2 : t[m] = TwoTo(bits - FewSymbols(f)[lv[m].symbol]) /\ t[m] \in Nat
          BY <1>2, <1>3
    <1>5. \A m \in 1..2 : t[m] = TwoTo(bits - 1) OBVIOUS
    <1> HIDE DEF t
    <1>6. PICK g : IsSum(g, 2, t) /\ Words(lv, FewSymbols(f), bits) = g[2]
          <2>1. Len(lv) = 2 /\ Len(lv) \in Nat OBVIOUS
          <2> HIDE DEF lv
          <2>2. \A m \in 1..Len(lv) : t[m] = TwoTo(bits - FewSymbols(f)[lv[m].symbol]) /\ t[m] \in Nat
                BY <1>4, <2>1
          <2> DEFINE lengths == FewSymbols(f)
          <2>3. \A m \in 1..Len(lv) : t[m] = TwoTo(bits - lengths[lv[m].symbol]) /\ t[m] \in Nat
                BY <2>2
          <2> HIDE DEF lengths
          <2>4. \E g : SumsWords(g, lv, lengths, bits, t) BY <2>1, <2>3, WordsIs
          <2> QED BY <2>1, <2>4 DEF SumsWords, lengths
    <1>7. g[2] = 2 * TwoTo(bits - 1) BY <1>2, <1>5, <1>6, SumOfOne
    <1> QED BY <1>2, <1>6, <1>7

(* The lengths of the last chain use up all code words.                    *)
LEMMA MergedWords ==
    ASSUME NEW f \in Frequencies, NEW n, n = Len(Leaves(f)), n > 2,
           NEW bits \in Nat, NEW lim \in Nat, lim >= 2, lim <= bits, n <= TwoTo(lim),
           NEW q, NEW at, FinalLists(q, q.lists[lim][2], lim, n, at)
    PROVE  Words(Leaves(f), BitLengths(f, Leaves(f), q, lim), bits) = TwoTo(bits)
    <1> DEFINE lv == Leaves(f)
               chain == Chain(q.pool, q.lists[lim][2], lim)
               len == Len(chain)
               a == [e \in 1..len |-> q.pool[chain[e]].count]
               p == [e \in 1..len |-> at[chain[e]][2] - q.pool[chain[e]].count]
               Deep(m) == {e \in 1..len : a[e] >= m}
               deep == [m \in 1..n |-> Cardinality(Deep(m))]
               t == [m \in 1..n |-> TwoTo(bits - deep[m])]
               lengths == BitLengths(f, lv, q, lim)
    <1>1. n \in Nat /\ lv \in Seq(LeafType) BY LeavesAreUsed, LenProperties DEF SortedLeaves
    <1>2. /\ chain \in Seq(1..Len(q.pool)) /\ len \in 1..lim /\ chain[1] = q.lists[lim][2]
          /\ FollowsTails(q.pool, chain)
          <2> HIDE DEF len
          <2> QED BY FinalChain DEF len
    <1>3. ChainFits(n, len, a, p)
          <2> HIDE DEF chain
          <2> QED BY <1>1, <1>2, ChainIsFit
    <1>4. DOMAIN chain = 1..len
          <2> HIDE DEF chain
          <2> QED BY <1>2, LenProperties
    <1>5. ASSUME NEW m \in 1..n PROVE lengths[lv[m].symbol] = deep[m]
          <2> DEFINE s == lv[m].symbol
                     which == CHOOSE k \in 1..Len(lv) : lv[k].symbol = s
          <2>1. s \in Used(f) /\ s \in DOMAIN f /\ f[s] # 0
                BY LeavesAreUsed DEF Used
          <2>2. which = m
                <3>1. m \in 1..Len(lv) /\ lv[m].symbol = s OBVIOUS
                <3>2. which \in 1..Len(lv) /\ lv[which].symbol = s BY <3>1
                <3>3. lv[which].symbol = lv[m].symbol BY <3>2
                <3> HIDE DEF which, s
                <3> QED BY <3>1, <3>2, <3>3, LeavesAreUsed
          <2> HIDE DEF which
          <2>3. lengths[s] = Cardinality({e \in DOMAIN chain : q.pool[chain[e]].count >= which})
                <3> HIDE DEF s
                <3> QED BY <2>1 DEF BitLengths, which
          <2>4. {e \in DOMAIN chain : q.pool[chain[e]].count >= m} = Deep(m)
                <3> HIDE DEF chain, len
                <3> QED BY <1>4
          <2> QED BY <2>2, <2>3, <2>4
    <1> HIDE DEF chain, len, a, p
    <1>6. ASSUME NEW m \in 1..n
          PROVE  deep[m] \in 1..len /\ \A e \in 1..len : m <= a[e] <=> e <= deep[m]
          <2> DEFINE D == Deep(m)
          <2>1. D = {e \in 1..len : a[e] >= m} /\ deep[m] = Cardinality(D) OBVIOUS
          <2> HIDE DEF D, deep
          <2>2. Cardinality(D) \in 1..len /\ \A e \in 1..len : m <= a[e] <=> e <= Cardinality(D)
                BY <1>1, <1>3, <2>1, DepthIs
          <2> QED BY <2>1, <2>2
    <1>7. deep \in [1..n -> 1..len] BY <1>6
    <1> HIDE DEF deep, lv, lengths
    <1>8. len \in Nat /\ len <= bits BY <1>2
    <1>9. ASSUME NEW m \in 1..n PROVE t[m] = TwoTo(bits - lengths[lv[m].symbol]) /\ t[m] \in Nat
          <2>1. deep[m] \in 1..len BY <1>6
          <2>2. bits - deep[m] \in Nat BY ONLY <2>1, <1>8, bits \in Nat
          <2>3. TwoTo(bits - deep[m]) \in Nat BY <2>2, TwoToIs
          <2> QED BY <1>5, <2>3
    <1>10. \A m \in 1..n : t[m] = TwoTo(bits - deep[m]) OBVIOUS
    <1> HIDE DEF t
    <1>11. PICK g : IsSum(g, n, t) /\ Words(lv, lengths, bits) = g[n]
           <2>1. Len(lv) = n BY DEF lv
           <2>2. \A m \in 1..Len(lv) : t[m] = TwoTo(bits - lengths[lv[m].symbol]) /\ t[m] \in Nat
                 BY <1>9, <2>1
           <2>3. Len(lv) \in Nat BY <1>1, <2>1
           <2>4. \E g : SumsWords(g, lv, lengths, bits, t) BY <2>2, <2>3, WordsIs
           <2> QED BY <2>1, <2>4 DEF SumsWords
    <1>12. g[n] = TwoTo(bits)
           <2>2. TermsAre(n, len, a, deep, bits, t) BY <1>6, <1>7, <1>10 DEF TermsAre
           <2>3. n \in Nat /\ n > 2 BY <1>1
           <2>4. IsSum(g, n, t) BY <1>11
           <2> QED BY ONLY <2>2, <2>3, <2>4, <1>3, <1>8, bits \in Nat, WordsTaken
    <1> QED BY <1>11, <1>12 DEF lv, lengths

(* The lengths that a finished chain gives: each used symbol is counted by *)
(* the first node of the chain, and by as many as it is deep.              *)
LEMMA LengthsFit ==
    ASSUME NEW f \in Frequencies, NEW lim \in Nat, NEW q,
           NEW chain, chain = Chain(q.pool, q.lists[lim][2], lim), Len(chain) \in 1..lim,
           DOMAIN chain = 1..Len(chain), q.pool[chain[1]].count = Len(Leaves(f)),
           NEW s \in DOMAIN f
    PROVE  BitLengths(f, Leaves(f), q, lim)[s] \in IF s \in Used(f) THEN 1..lim ELSE {0}
    <1> DEFINE lv == Leaves(f)
               symbol == CHOOSE k \in 1..Len(lv) : lv[k].symbol = s
               Deep(k) == {c \in DOMAIN chain : q.pool[chain[c]].count >= k}
    <1>1. BitLengths(f, lv, q, lim)[s] = IF f[s] = 0 THEN 0 ELSE Cardinality(Deep(symbol))
          BY DEF BitLengths
    <1>2. s \in Used(f) <=> f[s] # 0 BY DEF Used
    <1>3. CASE f[s] = 0 BY <1>1, <1>2, <1>3
    <1>4. CASE f[s] # 0
          <2>1. Len(lv) \in Nat /\ \E k \in 1..Len(lv) : lv[k].symbol = s
                BY <1>2, <1>4, LeavesAreUsed, LenProperties DEF SortedLeaves
          <2>2. symbol \in 1..Len(lv) BY <2>1
          <2> HIDE DEF symbol, lv
          <2>3. 1 \in Deep(symbol) BY <2>1, <2>2 DEF lv
          <2>4. Deep(symbol) \subseteq 1..Len(chain) OBVIOUS
          <2> HIDE DEF Deep
          <2>5. IsFiniteSet(1..Len(chain)) /\ Cardinality(1..Len(chain)) = Len(chain)
                <3>1. Len(chain) \in Nat /\ 1 \in Int OBVIOUS
                <3> DEFINE m == Len(chain)
                <3> HIDE DEF m
                <3>2. IsFiniteSet(1..m) /\ Cardinality(1..m) = IF 1 > m THEN 0 ELSE m - 1 + 1
                      BY <3>1, FS_Interval DEF m
                <3>3. m \in 1..lim BY DEF m
                <3> QED BY <3>2, <3>3 DEF m
          <2>6. IsFiniteSet(Deep(symbol)) /\ Cardinality(Deep(symbol)) <= Len(chain)
                BY <2>4, <2>5, FS_Subset
          <2>7. Cardinality(Deep(symbol)) \in Nat /\ Cardinality(Deep(symbol)) # 0
                BY <2>3, <2>6, FS_CardinalityType, FS_EmptySet
          <2>8. Cardinality(Deep(symbol)) \in 1..lim BY <2>6, <2>7
          <2> QED BY <2>8, <1>1, <1>2, <1>4 DEF lv
    <1> QED BY <1>3, <1>4

MergeInv ==
    /\ frequencies \in Frequencies /\ maxBits \in MaxBits
    /\ pc \in {"start", "merge", "done", "failed"}
    /\ pc \in {"start", "failed"} => pm.pool = <<>> /\ runs = 0
    /\ pc = "merge" => /\ Len(leaves) > 2 /\ Merging(pm, leaves, limit, calls, runs)
                       /\ ~TooFewBits(frequencies, maxBits)
    /\ pc = "done" => WithinPool /\ WithinLimit /\ Complete

LEMMA LimitIs ==
    ASSUME frequencies \in Frequencies, maxBits \in MaxBits
    PROVE  /\ SortedLeaves(leaves) /\ Len(leaves) \in Nat
           /\ maxBits \in Nat /\ maxBits >= 2 /\ limit \in Int /\ limit <= maxBits
           /\ Len(leaves) > 2 => limit \in Nat /\ limit >= 2
    <1>1. SortedLeaves(leaves) /\ Len(leaves) \in Nat
          BY LeavesAreUsed, LenProperties DEF leaves, SortedLeaves
    <1>2. maxBits \in Nat /\ maxBits >= 2 BY FrequenciesAssumption
    <1>3. limit = IF maxBits < Len(leaves) - 1 THEN maxBits ELSE Len(leaves) - 1
          BY DEF limit, Limit, Smaller
    <1> QED BY <1>1, <1>2, <1>3

(* There are code words enough of as many bits as there are lists.         *)
LEMMA WordsSuffice ==
    ASSUME frequencies \in Frequencies, maxBits \in MaxBits, Len(leaves) > 2,
           ~TooFewBits(frequencies, maxBits)
    PROVE  Len(leaves) <= TwoTo(limit)
    <1>1. Len(leaves) = Cardinality(Used(frequencies)) BY LeavesAreUsed DEF leaves
    <1>2. Len(leaves) \in Nat /\ maxBits \in Nat BY LimitIs
    <1>3. limit = IF maxBits < Len(leaves) - 1 THEN maxBits ELSE Len(leaves) - 1
          BY DEF limit, Limit, Smaller
    <1>4. TwoTo(maxBits) \in Nat BY <1>2, TwoToIs
    <1>5. Len(leaves) <= TwoTo(maxBits) BY <1>1, <1>2, <1>4 DEF TooFewBits
    <1>6. Len(leaves) <= TwoTo(Len(leaves) - 1)
          <2>1. Len(leaves) - 1 \in Nat /\ (Len(leaves) - 1) + 1 = Len(leaves) BY <1>2
          <2> QED BY <2>1, TwoToGrows
    <1> QED BY <1>3, <1>5, <1>6

LEMMA MergeBegins == MergeInit => MergeInv
    BY DEF MergeInit, MergeInv

LEMMA MergeStep == MergeInv /\ [MergeNext]_mergeVars => MergeInv'
    <1> SUFFICES ASSUME MergeInv, [MergeNext]_mergeVars PROVE MergeInv'
        OBVIOUS
    <1>1. /\ frequencies \in Frequencies /\ maxBits \in MaxBits
          /\ pc \in {"start", "merge", "done", "failed"}
          BY DEF MergeInv
    <1>2. /\ SortedLeaves(leaves) /\ Len(leaves) \in Nat
          /\ maxBits \in Nat /\ maxBits >= 2 /\ limit \in Int /\ limit <= maxBits
          /\ Len(leaves) > 2 => limit \in Nat /\ limit >= 2
          BY <1>1, LimitIs
    <1>3. NumRuns(leaves) - 1 = 2 * Len(leaves) - 5 BY <1>2 DEF NumRuns
    <1>4. ASSUME pc = "merge" PROVE /\ Len(leaves) > 2 /\ Merging(pm, leaves, limit, calls, runs)
                                    /\ limit \in Nat /\ limit >= 2
                                    /\ ~TooFewBits(frequencies, maxBits)
          BY <1>2, <1>4 DEF MergeInv
    <1>5. ASSUME frequencies' = frequencies, maxBits' = maxBits
          PROVE  leaves' = leaves /\ limit' = limit
          BY <1>5 DEF leaves, limit
    <1>6. CASE TooFew
          BY <1>6 DEF TooFew, MergeInv
    <1>7. CASE Few
          <2>1. /\ pc = "start" /\ Len(leaves) <= 2 /\ bitlengths' = FewSymbols(frequencies)
                /\ pc' = "done" /\ frequencies' = frequencies /\ maxBits' = maxBits
                BY <1>7 DEF Few
          <2>2. leaves' = leaves BY <2>1, <1>5
          <2>3. WithinPool' BY <2>1, <2>2, <1>2 DEF WithinPool
          <2>4. WithinLimit'
                <3>1. ASSUME NEW s \in DOMAIN frequencies
                      PROVE  FewSymbols(frequencies)[s] \in
                                 IF s \in Used(frequencies) THEN 1..maxBits ELSE {0}
                      BY <1>2 DEF FewSymbols, Used
                <3> QED BY <2>1, <3>1 DEF WithinLimit
          <2>5. Complete'
                <3> SUFFICES ASSUME Len(leaves) > 1
                             PROVE  Words(leaves, FewSymbols(frequencies), maxBits) = TwoTo(maxBits)
                      BY <2>1, <2>2 DEF Complete
                <3> DEFINE n == Len(leaves)
                <3>1. n \in Nat /\ n > 1 /\ n <= 2 BY <2>1, <1>2
                <3> HIDE DEF n
                <3>2. n = 2 BY ONLY <3>1
                <3> QED BY <3>2, <1>1, <1>2, FewWords DEF leaves, n
          <2> QED BY <2>1, <2>3, <2>4, <2>5, <1>1 DEF MergeInv
    <1>8. CASE Start
          <2>1. /\ pc = "start" /\ Len(leaves) > 2 /\ pm' = InitLists(leaves, limit)
                /\ calls' = [b \in 1..limit |-> 0] /\ pc' = "merge" /\ runs' = 0
                /\ frequencies' = frequencies /\ maxBits' = maxBits
                /\ ~TooFewBits(frequencies, maxBits)
                BY <1>8 DEF Start, MergeInv
          <2>2. Merging(InitLists(leaves, limit), leaves, limit, [b \in 1..limit |-> 0], 0)
                BY <2>1, <1>2, MergingStarts
          <2>3. leaves' = leaves /\ limit' = limit BY <2>1, <1>5
          <2> QED BY <2>1, <2>2, <2>3, <1>1 DEF MergeInv
    <1>9. CASE Run
          <2>1. /\ pc = "merge" /\ NoCalls /\ runs < NumRuns(leaves) - 1 /\ runs' = runs + 1
                /\ calls' = [calls EXCEPT ![limit] = 1] /\ pm' = pm /\ pc' = "merge"
                /\ frequencies' = frequencies /\ maxBits' = maxBits
                BY <1>9 DEF Run
          <2>2. Merging(pm, leaves, limit, [calls EXCEPT ![limit] = 1], runs + 1)
                BY <2>1, <1>2, <1>3, <1>4, MergingRuns DEF NoCalls
          <2>3. leaves' = leaves /\ limit' = limit BY <2>1, <1>5
          <2> QED BY <2>1, <2>2, <2>3, <1>1, <1>4 DEF MergeInv
    <1>10. CASE NoMoreLeaves
          <2>1. /\ pc = "merge" /\ calls[1] > 0 /\ ~TakesLeaf(pm, leaves, 1, LastChain(pm, 1).count)
                /\ calls' = [calls EXCEPT ![1] = @ - 1] /\ pm' = pm /\ pc' = "merge" /\ runs' = runs
                /\ frequencies' = frequencies /\ maxBits' = maxBits
                BY <1>10 DEF NoMoreLeaves, Called
          <2>2. Merging(pm, leaves, limit, [calls EXCEPT ![1] = @ - 1], runs)
                BY <2>1, <1>2, <1>4, MergingDrops
          <2>3. leaves' = leaves /\ limit' = limit BY <2>1, <1>5
          <2> QED BY <2>1, <2>2, <2>3, <1>1, <1>4 DEF MergeInv
    <1>11. CASE Finish
          <2>1. /\ pc = "merge" /\ NoCalls /\ runs >= NumRuns(leaves) - 1
                /\ pm' = BoundaryPMFinal(pm, leaves, limit)
                /\ bitlengths' = BitLengths(frequencies, leaves, pm', limit) /\ pc' = "done"
                /\ frequencies' = frequencies /\ maxBits' = maxBits
                BY <1>11 DEF Finish
          <2> DEFINE chain == Chain(pm'.pool, pm'.lists[limit][2], limit)
          <2>2. /\ Len(pm'.pool) <= limit * 2 * Len(leaves)
                /\ \E at : FinalLists(pm', pm'.lists[limit][2], limit, Len(leaves), at)
                BY <2>1, <1>2, <1>3, <1>4, FinalShape DEF NoCalls
          <2>3. PICK at : FinalLists(pm', pm'.lists[limit][2], limit, Len(leaves), at) BY <2>2
          <2>4. /\ chain \in Seq(1..Len(pm'.pool)) /\ Len(chain) \in 1..limit
                /\ pm'.pool[chain[1]].count = Len(leaves)
                <3>1. pm'.pool[pm'.lists[limit][2]].count = Len(leaves) BY <2>3 DEF FinalLists
                <3> DEFINE q == pm'
                           lim == limit
                           top == q.lists[lim][2]
                           n == Len(leaves)
                <3>2. lim \in Nat /\ FinalLists(q, top, lim, n, at) /\ chain = Chain(q.pool, top, lim)
                      BY <2>1, <2>3, <1>4
                <3> HIDE DEF chain, q, lim, top, n
                <3>3. chain \in Seq(1..Len(q.pool)) /\ Len(chain) \in 1..lim /\ chain[1] = top
                      BY <3>2, FinalChain
                <3> QED BY <3>1, <3>3 DEF q, lim, top
          <2>5. leaves' = leaves /\ limit' = limit BY <2>1, <1>5
          <2>6. WithinPool' BY <2>5, <2>2 DEF WithinPool, NeededPool
          <2>7. DOMAIN chain = 1..Len(chain)
                <3> HIDE DEF chain
                <3> QED BY <2>4, LenProperties
          <2>8. WithinLimit'
                <3>1. ASSUME NEW s \in DOMAIN frequencies
                      PROVE  bitlengths'[s] \in IF s \in Used(frequencies) THEN 1..limit ELSE {0}
                      <4> HIDE DEF chain
                      <4>1. chain = Chain(pm'.pool, pm'.lists[limit][2], limit) BY DEF chain
                      <4>2. BitLengths(frequencies, leaves, pm', limit)[s] \in
                               IF s \in Used(frequencies) THEN 1..limit ELSE {0}
                            BY <4>1, <1>1, <1>4, <2>1, <2>4, <2>7, LengthsFit DEF leaves
                      <4> QED BY <4>2, <2>1
                <3>2. 1..limit \subseteq 1..maxBits BY <1>2
                <3> QED BY <2>1, <3>1, <3>2 DEF WithinLimit
          <2>9. Complete'
                <3>1. Len(leaves) <= TwoTo(limit) BY <2>1, <1>1, <1>4, WordsSuffice
                <3>2. Words(leaves, BitLengths(frequencies, leaves, pm', limit), maxBits) = TwoTo(maxBits)
                      <4> DEFINE f == frequencies
                                 n == Len(leaves)
                                 q == pm'
                                 lim == limit
                                 bits == maxBits
                      <4>1. f \in Frequencies /\ n = Len(Leaves(f)) /\ n > 2 /\ bits \in Nat
                            /\ lim \in Nat /\ lim >= 2 /\ lim <= bits /\ n <= TwoTo(lim)
                            /\ FinalLists(q, q.lists[lim][2], lim, n, at) /\ leaves = Leaves(f)
                            BY <2>1, <2>3, <3>1, <1>1, <1>2, <1>4 DEF leaves
                      <4> HIDE DEF f, n, q, lim, bits
                      <4>2. Words(Leaves(f), BitLengths(f, Leaves(f), q, lim), bits) = TwoTo(bits)
                            BY <4>1, MergedWords
                      <4> QED BY <4>1, <4>2 DEF f, q, lim, bits
                <3> QED BY <2>1, <2>5, <3>2 DEF Complete
          <2> QED BY <2>1, <2>6, <2>8, <2>9, <1>1 DEF MergeInv
    <1>12. ASSUME NEW list \in 1..limit, MergeLeaf(list) PROVE MergeInv'
          <2>1. /\ pc = "merge" /\ calls[list] > 0 /\ TakesLeaf(pm, leaves, list, LastChain(pm, list).count)
                /\ calls' = [calls EXCEPT ![list] = @ - 1] /\ pm' = NextLeaf(pm, leaves, list)
                /\ pc' = "merge" /\ runs' = runs /\ frequencies' = frequencies /\ maxBits' = maxBits
                BY <1>12 DEF MergeLeaf, Called
          <2>2. Merging(NextLeaf(pm, leaves, list), leaves, limit, [calls EXCEPT ![list] = @ - 1], runs)
                BY <2>1, <1>2, <1>4, MergingLeaf
          <2>3. leaves' = leaves /\ limit' = limit BY <2>1, <1>5
          <2> QED BY <2>1, <2>2, <2>3, <1>1, <1>4 DEF MergeInv
    <1>13. ASSUME NEW list \in 1..limit, MergePackage(list) PROVE MergeInv'
          <2>1. /\ pc = "merge" /\ calls[list] > 0 /\ \A b \in 1..(list - 1) : calls[b] = 0
                /\ ~TakesLeaf(pm, leaves, list, LastChain(pm, list).count) /\ list > 1
                /\ calls' = [calls EXCEPT ![list] = @ - 1, ![list - 1] = 2]
                /\ pm' = NextPackage(pm, list)
                /\ pc' = "merge" /\ runs' = runs /\ frequencies' = frequencies /\ maxBits' = maxBits
                BY <1>13 DEF MergePackage, Called
          <2>2. list \in 2..limit BY <2>1
          <2>3. Merging(NextPackage(pm, list), leaves, limit,
                        [calls EXCEPT ![list] = @ - 1, ![list - 1] = 2], runs)
                BY <2>1, <2>2, <1>2, <1>4, MergingPackage
          <2>4. leaves' = leaves /\ limit' = limit BY <2>1, <1>5
          <2> QED BY <2>1, <2>3, <2>4, <1>1, <1>4 DEF MergeInv
    <1>14. CASE CodeReturned \/ UNCHANGED mergeVars
          <2>1. UNCHANGED mergeVars BY <1>14 DEF CodeReturned
          <2> QED BY <2>1 DEF mergeVars, MergeInv, WithinPool, WithinLimit, Complete, leaves, limit
    <1> QED BY <1>6, <1>7, <1>8, <1>9, <1>10, <1>11, <1>12, <1>13, <1>14 DEF MergeNext

(* In every reachable state the lists are as boundaryPM keeps them.        *)
THEOREM MergeInvariant == MergeSpec => []MergeInv
    BY MergeBegins, MergeStep, PTL DEF MergeSpec

(* The pool, allocated once for maxBits * 2 * numSymbols nodes and indexed *)
(* without a check, never runs out, for any frequencies and limits.        *)
THEOREM PoolSuffices == MergeSpec => []WithinPool
    <1>1. MergeInv => WithinPool
          <2> SUFFICES ASSUME MergeInv, Len(leaves) > 2 PROVE Len(pm.pool) <= NeededPool(leaves, limit)
                BY DEF WithinPool
          <2>1. /\ SortedLeaves(leaves) /\ Len(leaves) \in Nat /\ limit \in Nat /\ limit >= 2
                BY LimitIs DEF MergeInv
          <2>2. CASE pc = "merge"
                <3>1. Len(pm.pool) \in Nat /\ Len(pm.pool) + 1 <= limit * 2 * Len(leaves)
                      BY <2>1, <2>2, MergingPool DEF MergeInv
                <3> DEFINE bound == limit * 2 * Len(leaves)
                <3>2. bound \in Int BY <2>1
                <3> HIDE DEF bound
                <3>3. Len(pm.pool) <= bound BY <3>1, <3>2 DEF bound
                <3> QED BY <3>3 DEF NeededPool, bound
          <2>3. CASE pc \in {"start", "failed"}
                <3>1. Len(pm.pool) = 0 BY <2>3 DEF MergeInv
                <3>2. limit * 2 * Len(leaves) \in Nat BY <2>1
                <3> QED BY <3>1, <3>2 DEF NeededPool
          <2>4. CASE pc = "done" BY <2>4 DEF MergeInv, WithinPool
          <2> QED BY <2>2, <2>3, <2>4 DEF MergeInv
    <1> QED BY <1>1, MergeInvariant, PTL

(* No code word is longer than maxBits, or than deflate can say, and every *)
(* used symbol has one (boundaryPM, extractBitLengths).                    *)
THEOREM LengthsStayWithinLimit == MergeSpec => [](pc = "done" => WithinLimit)
    <1>1. MergeInv => (pc = "done" => WithinLimit) BY DEF MergeInv
    <1> QED BY <1>1, MergeInvariant, PTL

(* No code word is wasted, for any frequencies and limits: words of those  *)
(* lengths take up all strings of maxBits bits (boundaryPM,                *)
(* boundaryPMFinal, extractBitLengths).  A decoder rejects other codes.    *)
THEOREM CodeIsComplete == MergeSpec => [](pc = "done" => Complete)
    <1>1. MergeInv => (pc = "done" => Complete) BY DEF MergeInv
    <1> QED BY <1>1, MergeInvariant, PTL

=============================================================================
