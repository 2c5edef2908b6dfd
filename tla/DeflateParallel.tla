--------------------------- MODULE DeflateParallel ---------------------------
(***************************************************************************)
(* deflate (deflate.go) and everything it starts: the input is cut into    *)
(* parts of MasterBlockSize bytes, a batch of parts is analysed by one     *)
(* goroutine each, or one part by a pool that shares out its blocks, the   *)
(* plans are collected behind wg.Wait, and the main goroutine writes them  *)
(* in order.                                                               *)
(*                                                                         *)
(* What the analysis computes is data, given by operators: any parser that *)
(* covers a block with tokens and any splitters that cut inside a part.    *)
(* They depend on the bytes alone.  What is modelled is who computes it,   *)
(* in which scratch memory, in which order results are stored, joined and  *)
(* written, and when a block is marked final.                              *)
(***************************************************************************)
EXTENDS Integers, Sequences, FiniteSets, SequencesExt

CONSTANTS
    MasterBlockSize,        \* bytes of a part
    MaxCompressionWorkers,  \* cap on the workers of one call
    StoredMax,              \* bytes of the longest stored block, 65535
    Inputs,                 \* the inputs, records with a field len
    Calls,                  \* the arguments: [btype, splitting, verbose, workers]
    Parse(_, _, _),         \* tokens of bytes from..to-1 of an input
    FixedParse(_, _, _),    \* the same, parsed for the fixed code
    BlockSplit(_, _, _),    \* bytes before which the first splitter cuts from..to-1
    Stores(_),              \* the stores an analysis of the input can join
    BlockSplitLZ77(_, _),   \* tokens before which the second one cuts a joined store
    Cheaper(_, _),          \* whether a part costs less cut the second way
    Cheapest(_, _, _)       \* the type in which a block costs least

(* A token is the range of bytes a literal or a match stands for; a store  *)
(* is a sequence of tokens.                                                *)
Tokens == [pos: Nat, len: Nat]

Covers(s, from, to) ==
    /\ s \in Seq(Tokens) /\ s # <<>>
    /\ s[1].pos = from /\ s[Len(s)].pos + s[Len(s)].len = to
    /\ \A n \in 1..Len(s) : s[n].len > 0
    /\ \A n \in 1..(Len(s) - 1) : s[n + 1].pos = s[n].pos + s[n].len
    /\ \A m, n \in 1..Len(s) : m < n => s[m].pos + s[m].len <= s[n].pos

CutsInside(cs, from, to) ==
    /\ cs \in Seq(Nat)
    /\ \A n \in 1..Len(cs) : from < cs[n] /\ cs[n] < to
    /\ \A m, n \in 1..Len(cs) : m < n => cs[m] < cs[n]

Smaller(a, b) == IF a < b THEN a ELSE b

ASSUME SizesAssumption ==
    /\ MasterBlockSize \in Nat \ {0}
    /\ MaxCompressionWorkers \in Nat \ {0}
    /\ StoredMax \in Nat \ {0}

ASSUME CallAssumption ==
    /\ \A i \in Inputs : i.len \in Nat
    /\ Calls \subseteq [btype: 0..2, splitting: BOOLEAN, verbose: BOOLEAN, workers: Int]

ASSUME AnalysisAssumption ==
    \A i \in Inputs :
        /\ \A from, to \in 0..i.len : from < to =>
              /\ Covers(Parse(i, from, to), from, to)
              /\ Covers(FixedParse(i, from, to), from, to)
              /\ CutsInside(BlockSplit(i, from, to), from, to)
              /\ Cheapest(i, from, to) \in {"stored", "fixed", "reparsed", "dynamic"}
        /\ \A p \in 0..i.len : Cheaper(i, p) \in BOOLEAN

(* Stores are the parses of a part's first blocks, joined. *)
ASSUME StoresAssumption ==
    \A i \in Inputs :
        /\ \A s \in Stores(i) : /\ s \in Seq(Tokens)
                               /\ CutsInside(BlockSplitLZ77(i, s), 0, Len(s))
        /\ \A p \in 0..i.len :
              LET start == p * MasterBlockSize
                  end == Smaller(start + MasterBlockSize, i.len)
              IN  /\ \A to \in (start + 1)..end : Parse(i, start, to) \in Stores(i)
                  /\ \A to \in (start + 2)..end : \A from \in (start + 1)..(to - 1) :
                        \A s \in Stores(i) : Covers(s, start, from) =>
                            s \o Parse(i, from, to) \in Stores(i)

(* Goroutines that analyse a part, by their offset in the batch; the       *)
(* scratch memory of one, and of a worker of its pool.                     *)
Slots == 0..(MaxCompressionWorkers - 1)
Workers == 1..MaxCompressionWorkers
Own == 0

Off == -2       \* a pool worker that is not running
Recv == -1      \* a pool worker receiving from the channel of tasks

-----------------------------------------------------------------------------
(* blockSplitWithScratch runs only when splitting is on. *)
FirstCuts(i, c, from, to) == IF c.splitting THEN BlockSplit(i, from, to) ELSE <<>>

(* Block n of a part cut at cuts, n = 0 .. Len(cuts). *)
BlockFrom(cuts, n, start) == IF n > 0 THEN cuts[n] ELSE start
BlockTo(cuts, n, end) == IF n < Len(cuts) THEN cuts[n + 1] ELSE end

Plan(btype, from, to, s, pts) ==
    [btype |-> btype, from |-> from, to |-> to, store |-> s, points |-> pts]

(* The zero deflatePartPlan of a fresh or a cleared slot. *)
ZeroPlan == Plan(0, 0, 0, <<>>, <<>>)

(* The bytes tokens a+1 .. b of a store stand for. *)
RangeFrom(s, a, b) == IF a = b THEN 0 ELSE s[a + 1].pos
RangeTo(s, a, b) == IF a = b THEN 0 ELSE s[b].pos + s[b].len

Blocks(plan) == IF plan.btype = 2 THEN Len(plan.points) + 1 ELSE 1

(* Block n of a plan, n = 0 .. Blocks(plan) - 1, before it is written.  A  *)
(* block of btype 2 takes the cheapest type; where the fixed code is close *)
(* to it, the bytes are parsed again for that code.                        *)
PlannedBlock(i, plan, n) ==
    LET a == BlockFrom(plan.points, n, 0)
        b == BlockTo(plan.points, n, Len(plan.store))
        from == IF plan.btype = 0 THEN plan.from ELSE RangeFrom(plan.store, a, b)
        to == IF plan.btype = 0 THEN plan.to ELSE RangeTo(plan.store, a, b)
        type == IF plan.btype = 0 THEN "stored"
                ELSE IF plan.btype = 1 \/ a = b THEN "fixed"
                ELSE Cheapest(i, from, to)
    IN  [kind |-> IF type = "reparsed" THEN "fixed" ELSE type,
         from |-> from,
         to |-> to,
         tokens |-> CASE type = "stored" -> <<>>
                      [] type = "reparsed" -> FixedParse(i, from, to)
                      [] OTHER -> SubSeq(plan.store, a + 1, b)]

(* What is written of a block when its first done bytes already are: a     *)
(* stored block goes out in chunks of at most StoredMax bytes.             *)
ChunkTo(b, done) ==
    IF b.kind = "stored" THEN Smaller(b.to, b.from + done + StoredMax) ELSE b.to

LastChunk(b, done) == ChunkTo(b, done) >= b.to

Piece(b, done, last) ==
    [final |-> last, kind |-> b.kind, from |-> b.from + done, to |-> ChunkTo(b, done),
     tokens |-> b.tokens]

EmptyBlock == [kind |-> "fixed", from |-> 0, to |-> 0, tokens |-> <<>>]

-----------------------------------------------------------------------------
VARIABLES
    in, opt,    \* the input and the arguments of the call
    pc,         \* where deflate stands: begin, spawn, wait, write, done
    first,      \* batchStart: the part slot 0 of the batch analyses
    slot,       \* offset the spawn or the write loop has reached
    block,      \* block of plans[slot] being written
    written,    \* bytes of it that are written
    plans,      \* plans[offset] of the batch
    out,        \* the blocks written
    stage,      \* where prepareDeflatePart stands in each slot
    cuts,       \* its splitpointsUncompressed
    next,       \* the next block to analyse or to join
    store,      \* its plan.lz77
    points,     \* its plan.splitPoints so far
    task,       \* what each worker of its pool is doing
    sent,       \* offsets sent on the channel of tasks
    base,       \* first block of the pool's batch
    results,    \* results[offset] of the pool's batch
    scratch     \* block range each scratch memory was loaded for

call == <<in, opt>>
main == <<pc, first, slot, block, written, out>>
frame == <<stage, cuts, next, store, points>>
pool == <<task, sent, base, results>>
vars == <<call, main, plans, frame, pool, scratch>>

-----------------------------------------------------------------------------
NormalizeWorkers(n) == IF n <= 1 THEN 1 ELSE Smaller(n, MaxCompressionWorkers)

CompressionWorkers(c, n, tasks) ==
    IF tasks <= 1 \/ n <= 1 \/ c.verbose THEN 1
    ELSE Smaller(NormalizeWorkers(n), tasks)

Parts == IF in.len = 0 THEN 0 ELSE 1 + (in.len - 1) \div MasterBlockSize

BatchWorkers == CompressionWorkers(opt, opt.workers, Parts)
BatchSize == Smaller(BatchWorkers, Parts - first)

MutNestedWorkers == opt.workers

(* With one worker the parts are analysed in turn and each may have a      *)
(* pool; parts analysed side by side get none.                             *)
NestedWorkers == IF BatchWorkers = 1 THEN opt.workers ELSE 1

PartFrom(p) == p * MasterBlockSize
PartTo(p) == PartFrom(p) + Smaller(MasterBlockSize, in.len - PartFrom(p))

(* The serial loop and the batch loop decide on the final part each in its *)
(* own way.                                                                *)
FinalPart(p) == IF BatchWorkers = 1 THEN PartTo(p) = in.len ELSE p = Parts - 1

MutScratchOf(o, w) == <<o, Own>>

(* Each goroutine declares a compressionScratch of its own. *)
ScratchOf(o, w) == <<o, w>>

BlockRange(o, n) == <<BlockFrom(cuts[o], n, PartFrom(first + o)),
                      BlockTo(cuts[o], n, PartTo(first + o))>>

Optimized(s) == Parse(in, scratch[s][1], scratch[s][2])

PoolSize(o) == Smaller(CompressionWorkers(opt, NestedWorkers, Len(cuts[o]) + 1),
                       Len(cuts[o]) + 1 - base[o])

Serially(o) == CompressionWorkers(opt, NestedWorkers, Len(cuts[o]) + 1) = 1

(* The part is analysed: its plan goes to plans[offset]. *)
Deliver(o, s, pts) ==
    /\ plans' = [plans EXCEPT ![o] =
                   Plan(opt.btype, PartFrom(first + o), PartTo(first + o), s, pts)]
    /\ stage' = [stage EXCEPT ![o] = "done"]

(* One more block's store is appended to plan.lz77, the joined length      *)
(* becoming a split point unless the block is the last.                    *)
Join(o, s) ==
    /\ store' = [store EXCEPT ![o] = @ \o s]
    /\ points' = [points EXCEPT ![o] =
                    IF next[o] < Len(cuts[o]) THEN Append(@, Len(store'[o])) ELSE @]
    /\ next' = [next EXCEPT ![o] = @ + 1]

(* The block about to be written, and whether this piece of it gets the    *)
(* final bit.                                                              *)
Pending == PlannedBlock(in, plans[slot], block)

MutIsFinal == FinalPart(first + slot) /\ block = Blocks(plans[slot]) - 1

IsFinal ==
    /\ FinalPart(first + slot)
    /\ block = Blocks(plans[slot]) - 1
    /\ LastChunk(Pending, written)

-----------------------------------------------------------------------------
Init ==
    /\ in \in Inputs /\ opt \in Calls
    /\ pc = "begin"
    /\ first = 0 /\ slot = 0 /\ block = 0 /\ written = 0
    /\ out = <<>>
    /\ plans = [o \in Slots |-> ZeroPlan]
    /\ stage = [o \in Slots |-> "none"]
    /\ cuts = [o \in Slots |-> <<>>]
    /\ next = [o \in Slots |-> 0]
    /\ store = [o \in Slots |-> <<>>]
    /\ points = [o \in Slots |-> <<>>]
    /\ task = [o \in Slots |-> [w \in Workers |-> Off]]
    /\ sent = [o \in Slots |-> 0]
    /\ base = [o \in Slots |-> 0]
    /\ results = [o \in Slots |-> [i \in Slots |-> <<>>]]
    /\ scratch = [s \in Slots \X ({Own} \cup Workers) |-> <<0, 0>>]

-----------------------------------------------------------------------------
(* The main goroutine. *)

(* The empty input is one empty final block with the fixed code. *)
WriteEmpty ==
    /\ pc = "begin" /\ in.len = 0
    /\ out' = <<Piece(EmptyBlock, 0, TRUE)>>
    /\ pc' = "done"
    /\ UNCHANGED <<call, first, slot, block, written, plans, frame, pool, scratch>>

Begin ==
    /\ pc = "begin" /\ in.len > 0
    /\ pc' = "spawn"
    /\ UNCHANGED <<call, first, slot, block, written, out, plans, frame, pool, scratch>>

(* wg.Go, or the plain call of the serial loop, for the next part. *)
Spawn ==
    /\ pc = "spawn" /\ slot < BatchSize
    /\ stage' = [stage EXCEPT ![slot] = "split"]
    /\ next' = [next EXCEPT ![slot] = 0]
    /\ store' = [store EXCEPT ![slot] = <<>>]
    /\ points' = [points EXCEPT ![slot] = <<>>]
    /\ slot' = slot + 1
    /\ pc' = IF slot' = BatchSize THEN "wait" ELSE pc
    /\ UNCHANGED <<call, first, block, written, out, plans, cuts, pool, scratch>>

MutWait ==
    /\ pc = "wait"
    /\ stage[0] = "done"
    /\ pc' = "write"
    /\ slot' = 0 /\ block' = 0 /\ written' = 0
    /\ UNCHANGED <<call, first, out, plans, frame, pool, scratch>>

(* wg.Wait. *)
Wait ==
    /\ pc = "wait"
    /\ \A o \in 0..(BatchSize - 1) : stage[o] = "done"
    /\ pc' = "write"
    /\ slot' = 0 /\ block' = 0 /\ written' = 0
    /\ UNCHANGED <<call, first, out, plans, frame, pool, scratch>>

(* writeDeflatePartPlan, one block of the stream at a time; the plan is    *)
(* cleared behind its last block.                                          *)
Write ==
    LET lastOfBlock == LastChunk(Pending, written)
        lastOfPlan == lastOfBlock /\ block = Blocks(plans[slot]) - 1
        lastOfBatch == lastOfPlan /\ slot = BatchSize - 1
    IN  /\ pc = "write"
        /\ out' = Append(out, Piece(Pending, written, IsFinal))
        /\ written' = IF lastOfBlock THEN 0 ELSE ChunkTo(Pending, written) - Pending.from
        /\ block' = IF lastOfPlan THEN 0 ELSE IF lastOfBlock THEN block + 1 ELSE block
        /\ plans' = IF lastOfPlan THEN [plans EXCEPT ![slot] = ZeroPlan] ELSE plans
        /\ stage' = IF lastOfPlan THEN [stage EXCEPT ![slot] = "none"] ELSE stage
        /\ slot' = IF lastOfBatch THEN 0 ELSE IF lastOfPlan THEN slot + 1 ELSE slot
        /\ first' = IF lastOfBatch THEN first + BatchWorkers ELSE first
        /\ pc' = IF ~lastOfBatch THEN "write" ELSE IF first' < Parts THEN "spawn" ELSE "done"
        /\ UNCHANGED <<call, cuts, next, store, points, pool, scratch>>

Main == WriteEmpty \/ Begin \/ Spawn \/ Wait \/ Write

-----------------------------------------------------------------------------
(* prepareDeflatePart, in the goroutine of slot o. *)

(* Block types 0 and 1 do not split: type 0 has no tokens, type 1 is one   *)
(* parse of the part for the fixed code.                                   *)
PlanWhole(o) ==
    /\ stage[o] = "split" /\ opt.btype # 2
    /\ Deliver(o, IF opt.btype = 0 THEN <<>>
                  ELSE FixedParse(in, PartFrom(first + o), PartTo(first + o)), <<>>)
    /\ UNCHANGED <<call, main, cuts, next, store, points, pool, scratch>>

SplitPart(o) ==
    /\ stage[o] = "split" /\ opt.btype = 2
    /\ cuts' = [cuts EXCEPT ![o] =
                  FirstCuts(in, opt, PartFrom(first + o), PartTo(first + o))]
    /\ stage' = [stage EXCEPT ![o] = "blocks"]
    /\ UNCHANGED <<call, main, plans, next, store, points, pool, scratch>>

(* optimizeBlock: the match cache of the scratch memory is prepared for    *)
(* the block, and the parse is read from it afterwards.                    *)
LoadBlock(o) ==
    /\ stage[o] = "blocks" /\ next[o] <= Len(cuts[o]) /\ Serially(o)
    /\ scratch' = [scratch EXCEPT ![ScratchOf(o, Own)] = BlockRange(o, next[o])]
    /\ stage' = [stage EXCEPT ![o] = "parse"]
    /\ UNCHANGED <<call, main, plans, cuts, next, store, points, pool>>

ParseBlock(o) ==
    /\ stage[o] = "parse"
    /\ Join(o, Optimized(ScratchOf(o, Own)))
    /\ stage' = [stage EXCEPT ![o] = "blocks"]
    /\ UNCHANGED <<call, main, plans, cuts, pool, scratch>>

(* optimizeSplitBlockBatch starts its workers on the next few blocks. *)
OpenPool(o) ==
    /\ stage[o] = "blocks" /\ next[o] <= Len(cuts[o]) /\ ~Serially(o)
    /\ base' = [base EXCEPT ![o] = next[o]]
    /\ sent' = [sent EXCEPT ![o] = 0]
    /\ results' = [results EXCEPT ![o] = [i \in Slots |-> <<>>]]
    /\ task' = [task EXCEPT ![o] =
                  LET count == Smaller(CompressionWorkers(opt, NestedWorkers, Len(cuts[o]) + 1),
                                       Len(cuts[o]) + 1 - next[o])
                  IN  [w \in Workers |->
                         IF w <= CompressionWorkers(opt, NestedWorkers, count)
                         THEN Recv ELSE Off]]
    /\ stage' = [stage EXCEPT ![o] = "send"]
    /\ UNCHANGED <<call, main, plans, cuts, next, store, points, scratch>>

(* A worker takes the next offset and prepares its scratch memory for it.  *)
(* The channel has no buffer: sending and receiving are one step.          *)
Send(o, w) ==
    /\ stage[o] = "send" /\ sent[o] < PoolSize(o)
    /\ task[o][w] = Recv
    /\ task' = [task EXCEPT ![o][w] = sent[o]]
    /\ sent' = [sent EXCEPT ![o] = @ + 1]
    /\ scratch' = [scratch EXCEPT ![ScratchOf(o, w)] = BlockRange(o, base[o] + sent[o])]
    /\ UNCHANGED <<call, main, plans, frame, base, results>>

ParseTask(o, w) ==
    /\ task[o][w] >= 0
    /\ results' = [results EXCEPT ![o][task[o][w]] = Optimized(ScratchOf(o, w))]
    /\ task' = [task EXCEPT ![o][w] = Recv]
    /\ UNCHANGED <<call, main, plans, frame, sent, base, scratch>>

CloseTasks(o) ==
    /\ stage[o] = "send" /\ sent[o] = PoolSize(o)
    /\ stage' = [stage EXCEPT ![o] = "drain"]
    /\ UNCHANGED <<call, main, plans, cuts, next, store, points, pool, scratch>>

MutStopWorker(o, w) ==
    /\ stage[o] = "drain" /\ task[o][w] = Recv
    /\ task' = [task EXCEPT ![o][w] = 0]
    /\ UNCHANGED <<call, main, plans, frame, sent, base, results, scratch>>

(* A worker's range loop ends when it finds the channel closed. *)
StopWorker(o, w) ==
    /\ stage[o] = "drain" /\ task[o][w] = Recv
    /\ task' = [task EXCEPT ![o][w] = Off]
    /\ UNCHANGED <<call, main, plans, frame, sent, base, results, scratch>>

MutCollect(o) ==
    /\ stage[o] = "drain"
    /\ stage' = [stage EXCEPT ![o] = "join"]
    /\ UNCHANGED <<call, main, plans, cuts, next, store, points, pool, scratch>>

(* The pool's own wg.Wait. *)
Collect(o) ==
    /\ stage[o] = "drain"
    /\ \A w \in Workers : task[o][w] = Off
    /\ stage' = [stage EXCEPT ![o] = "join"]
    /\ UNCHANGED <<call, main, plans, cuts, next, store, points, pool, scratch>>

(* The stores of the pool's batch are joined in block order. *)
JoinResult(o) ==
    /\ stage[o] = "join"
    /\ Join(o, results[o][next[o] - base[o]])
    /\ stage' = [stage EXCEPT ![o] =
                   IF next'[o] = base[o] + PoolSize(o) THEN "blocks" ELSE @]
    /\ UNCHANGED <<call, main, plans, cuts, pool, scratch>>

(* With more than one split point the joined store is split a second time, *)
(* and that split is used when its blocks are cheaper.                     *)
SplitAgain(o) ==
    /\ stage[o] = "blocks" /\ next[o] > Len(cuts[o])
    /\ Deliver(o, store[o],
               IF opt.splitting /\ Len(cuts[o]) > 1 /\ Cheaper(in, first + o)
               THEN BlockSplitLZ77(in, store[o]) ELSE points[o])
    /\ UNCHANGED <<call, main, cuts, next, store, points, pool, scratch>>

Prepare(o) ==
    \/ PlanWhole(o) \/ SplitPart(o) \/ LoadBlock(o) \/ ParseBlock(o)
    \/ OpenPool(o) \/ CloseTasks(o) \/ Collect(o) \/ JoinResult(o) \/ SplitAgain(o)

Worker(o, w) == Send(o, w) \/ ParseTask(o, w) \/ StopWorker(o, w)

(* The call has returned. *)
Returned == pc = "done" /\ UNCHANGED vars

Next ==
    \/ Main
    \/ \E o \in Slots : Prepare(o)
    \/ \E o \in Slots, w \in Workers : Worker(o, w)
    \/ Returned

(* The Go scheduler lets every goroutine that can run, run. *)
Fairness ==
    /\ WF_vars(Main)
    /\ \A o \in Slots : WF_vars(Prepare(o))
    /\ \A o \in Slots, w \in Workers : WF_vars(Worker(o, w))

Spec == Init /\ [][Next]_vars /\ Fairness

-----------------------------------------------------------------------------
(* The stream the serial algorithm writes, computed from the input alone.  *)

SerialStore(i, cs, from, to) ==
    FlattenSeq([n \in 1..(Len(cs) + 1) |->
                  Parse(i, BlockFrom(cs, n - 1, from), BlockTo(cs, n - 1, to))])

SerialPlan(i, c, p) ==
    LET from == PartFrom(p)
        to == PartTo(p)
        cs == IF c.btype = 2 THEN FirstCuts(i, c, from, to) ELSE <<>>
        s == CASE c.btype = 0 -> <<>>
               [] c.btype = 1 -> FixedParse(i, from, to)
               [] OTHER -> SerialStore(i, cs, from, to)
        before(n) == Cardinality({m \in 1..Len(s) : s[m].pos < cs[n]})
    IN  Plan(c.btype, from, to, s,
             IF c.splitting /\ Len(cs) > 1 /\ Cheaper(i, p) THEN BlockSplitLZ77(i, s)
             ELSE [n \in 1..Len(cs) |-> before(n)])

SerialChunks(b) ==
    LET pieces == IF b.kind = "stored"
                  THEN 1 + (b.to - b.from - 1) \div StoredMax ELSE 1
    IN  [n \in 1..pieces |-> [block |-> b, done |-> (n - 1) * StoredMax]]

SerialStream ==
    LET plan(p) == SerialPlan(in, opt, p)
        ofPlan(p) == FlattenSeq([n \in 1..Blocks(plan(p)) |->
                                   SerialChunks(PlannedBlock(in, plan(p), n - 1))])
        all == IF in.len = 0 THEN SerialChunks(EmptyBlock)
               ELSE FlattenSeq([p \in 1..Parts |-> ofPlan(p - 1)])
    IN  [n \in 1..Len(all) |-> Piece(all[n].block, all[n].done, n = Len(all))]

-----------------------------------------------------------------------------
Stages == {"none", "split", "blocks", "parse", "send", "drain", "join", "done"}
Plans == [btype: 0..2, from: Nat, to: Nat, store: Seq(Tokens), points: Seq(Nat)]
OutBlocks == [final: BOOLEAN, kind: {"stored", "fixed", "dynamic"},
              from: Nat, to: Nat, tokens: Seq(Tokens)]

(* Every variable stays in its range: in particular the slots of plans and *)
(* results, the offsets sent to a pool and the kinds of blocks written.    *)
TypeOK ==
    /\ in \in Inputs /\ opt \in Calls
    /\ pc \in {"begin", "spawn", "wait", "write", "done"}
    /\ first \in Nat /\ slot \in 0..MaxCompressionWorkers
    /\ block \in Nat /\ written \in Nat
    /\ plans \in [Slots -> Plans]
    /\ out \in Seq(OutBlocks)
    /\ stage \in [Slots -> Stages]
    /\ cuts \in [Slots -> Seq(Nat)]
    /\ next \in [Slots -> Nat]
    /\ store \in [Slots -> Seq(Tokens)]
    /\ points \in [Slots -> Seq(Nat)]
    /\ task \in [Slots -> [Workers -> {Off, Recv} \cup Slots]]
    /\ sent \in [Slots -> 0..MaxCompressionWorkers]
    /\ base \in [Slots -> Nat]
    /\ results \in [Slots -> [Slots -> Seq(Tokens)]]
    /\ scratch \in [Slots \X ({Own} \cup Workers) -> Nat \X Nat]

(* The final bit is set on one block, the last one of the stream, and only *)
(* when all of the input is written: across the chunks of a stored block,  *)
(* the blocks of a plan and the parts of a batch (addNonCompressedBlock,   *)
(* writeDeflatePartPlan, deflate).                                         *)
OneFinalBlock ==
    /\ \A n \in 1..Len(out) : out[n].final => n = Len(out) /\ pc = "done" /\ out[n].to = in.len
    /\ pc = "done" => out # <<>> /\ out[Len(out)].final

(* README: the output is deterministic.  Whatever number of workers        *)
(* analyses the parts or the blocks of a part, and in whatever order they  *)
(* finish, the stream grows to the one the serial algorithm writes.        *)
MatchesSerial ==
    /\ IsPrefix(out, SerialStream)
    /\ pc = "done" => out = SerialStream

(* A plan is written only when its goroutine has delivered it, and every   *)
(* goroutine of the batch has ended when the first of its blocks is        *)
(* written: none of them still runs while the writer uses the input        *)
(* options and clears the slots.                                           *)
WriteAfterWait ==
    pc = "write" =>
        /\ \A o \in slot..(BatchSize - 1) :
              stage[o] = "done" /\ plans[o].to = PartTo(first + o)
        /\ \A o \in Slots \ (slot..(BatchSize - 1)) : stage[o] = "none"

(* Goroutines at work on the analysis of parts or blocks. *)
Analysts ==
    Cardinality({o \in Slots : stage[o] \in {"split", "blocks", "parse"}})
    + Cardinality({t \in Slots \X Workers : task[t[1]][t[2]] # Off})

(* MaxCompressionWorkers is "the maximum parallel block-analysis workers   *)
(* used by one CompressParallel call" (zopfli.go): the parallelism over    *)
(* parts and the one over blocks never multiply, and a verbose call, whose *)
(* log lines would interleave, is serial.                                  *)
AnalysisBound ==
    Analysts <= IF opt.verbose THEN 1 ELSE NormalizeWorkers(opt.workers)

(* Scratch memory belongs to one goroutine: what a goroutine loaded into   *)
(* it is still there when it reads the parse of its block from it.         *)
OwnScratch(o) ==
    /\ stage[o] = "parse" => scratch[ScratchOf(o, Own)] = BlockRange(o, next[o])
    /\ \A w \in Workers : task[o][w] >= 0 =>
          scratch[ScratchOf(o, w)] = BlockRange(o, base[o] + task[o][w])

(* No goroutine finds another one's block in its scratch memory (the       *)
(* compressionScratch each goroutine of deflate and of                     *)
(* optimizeSplitBlockBatch declares).                                      *)
ScratchIsOwn == \A o \in Slots : OwnScratch(o)

(* The joined stores are the finished ones: when the batch of a pool is    *)
(* appended, no worker of it runs and every slot of results still to be    *)
(* appended holds the parse of its block (optimizeSplitBlockBatch).        *)
JoinAfterDrain ==
    \A o \in Slots : stage[o] = "join" =>
        /\ \A w \in Workers : task[o][w] = Off
        /\ \A i \in (next[o] - base[o])..(PoolSize(o) - 1) :
              results[o][i] = Parse(in, BlockRange(o, base[o] + i)[1],
                                        BlockRange(o, base[o] + i)[2])

(* The call returns: no pool waits for a worker that waits for a task, and *)
(* no batch for a goroutine that is gone.                                  *)
Terminates == <>(pc = "done")

Stream == INSTANCE DeflateStream WITH
    size <- in.len,
    stream <- [n \in DOMAIN out |->
                 [from |-> out[n].from, to |-> out[n].to, final |-> out[n].final]]

(* The batches, goroutines and pools implement the block layer of a stream *)
(* that covers the input once, in order, and is closed exactly at its end. *)
ImplementsStream == Stream!Spec

-----------------------------------------------------------------------------
(* The inductive invariant behind the safety properties, in parts.         *)

From(o) == PartFrom(first + o)
To(o) == PartTo(first + o)

(* The slots of the batch that hold an analysis or an unwritten plan. *)
Busy == CASE pc = "spawn" -> 0..(slot - 1)
          [] pc = "wait" -> 0..(BatchSize - 1)
          [] pc = "write" -> slot..(BatchSize - 1)
          [] OTHER -> {}

BatchInv ==
    /\ pc \in {"spawn", "wait", "write"} => first < Parts
    /\ pc \in {"spawn", "write"} => slot < BatchSize
    /\ pc = "begin" => first = 0 /\ slot = 0
    /\ \A o \in Slots : stage[o] # "none" <=> o \in Busy
    /\ pc = "write" => \A o \in Busy : stage[o] = "done"

FrameInv(o) ==
    /\ stage[o] = "split" => next[o] = 0 /\ store[o] = <<>> /\ points[o] = <<>>
    /\ stage[o] \in {"blocks", "parse", "send", "drain", "join"} =>
        /\ opt.btype = 2
        /\ CutsInside(cuts[o], From(o), To(o))
        /\ next[o] <= Len(cuts[o]) + 1
        /\ next[o] = 0 => store[o] = <<>>
        /\ next[o] > 0 =>
              /\ store[o] \in Stores(in)
              /\ Covers(store[o], From(o),
                        IF next[o] <= Len(cuts[o]) THEN cuts[o][next[o]] ELSE To(o))
        /\ Len(points[o]) = Smaller(next[o], Len(cuts[o]))
        /\ CutsInside(points[o], 0,
                      IF next[o] <= Len(cuts[o]) THEN Len(store[o]) + 1 ELSE Len(store[o]))
    /\ stage[o] = "parse" => next[o] <= Len(cuts[o])

PoolInv(o) ==
    /\ stage[o] \in {"send", "drain", "join"} =>
        /\ ~Serially(o)
        /\ base[o] <= Len(cuts[o])
        /\ base[o] + PoolSize(o) <= Len(cuts[o]) + 1
        /\ sent[o] <= PoolSize(o)
        /\ \A i \in 0..(sent[o] - 1) :
              \/ \E w \in Workers : task[o][w] = i
              \/ results[o][i] = Parse(in, BlockRange(o, base[o] + i)[1],
                                           BlockRange(o, base[o] + i)[2])
    /\ stage[o] \in {"send", "drain"} => next[o] = base[o]
    /\ stage[o] = "join" => base[o] <= next[o] /\ next[o] < base[o] + PoolSize(o)
    /\ stage[o] \in {"drain", "join"} => sent[o] = PoolSize(o)
    /\ stage[o] \notin {"send", "drain"} => \A w \in Workers : task[o][w] = Off
    /\ \A w \in Workers : task[o][w] < sent[o]

PlanOf(plan, p) ==
    /\ plan.btype = opt.btype /\ plan.from = PartFrom(p) /\ plan.to = PartTo(p)
    /\ opt.btype # 0 => /\ Covers(plan.store, PartFrom(p), PartTo(p))
                        /\ CutsInside(plan.points, 0, Len(plan.store))
    /\ opt.btype # 2 => plan.points = <<>>

SlotInv(o) ==
    /\ FrameInv(o)
    /\ PoolInv(o)
    /\ OwnScratch(o)
    /\ stage[o] = "done" => PlanOf(plans[o], first + o)

Written == IF out = <<>> THEN 0 ELSE out[Len(out)].to

OutInv ==
    /\ \A n \in 1..Len(out) : out[n].final <=> n = Len(out) /\ pc = "done"
    /\ pc = "begin" => out = <<>>
    /\ pc \in {"spawn", "wait"} => Written = PartFrom(first)
    /\ pc = "write" =>
          /\ block < Blocks(plans[slot])
          /\ Written = Pending.from + written
          /\ written < Pending.to - Pending.from
          /\ Pending.kind # "stored" => written = 0
    /\ pc = "done" => out # <<>> /\ Written = in.len

(* All parts together: what is true after every step of every goroutine.   *)
IInv ==
    /\ TypeOK
    /\ BatchInv
    /\ OutInv
    /\ \A o \in Slots : SlotInv(o)

=============================================================================
