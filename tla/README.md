# A TLA+ model of zopfli-go

zopfli-go compresses files to deflate streams by searching, at length, for a
short one. It is a Go library (`zopfli.Compress`, `zopfli.CompressParallel`)
and a command that precompresses the files of a web site. The library is a
sequential algorithm with two levels of parallelism laid over it; the command
adds a pool of workers over files. This directory holds TLA+ modules for the
parts where order, reuse of memory, limits and failures decide whether the
output is right, TLC runs on small instances of them, and proofs that TLAPS
checks for instances of any size.

## The system

| Part | State | Operations | What makes it hard | Module |
| --- | --- | --- | --- | --- |
| Block scheduling: `deflate.go` 460-797, `zopfli.go`, `scratch.go` | batch, `plans`, split points and joined store of each part, tasks and results of a pool, scratch memory, bits written | `deflate`, `prepareDeflatePart`, `optimizeSplitBlockBatch`, `writeDeflatePartPlan`, `addNonCompressedBlock` | goroutines finish in any order; scratch memory and result slots; channel and two wait groups; BFINAL decided in four places; two levels of parallelism that must not multiply | `DeflateParallel`, `DeflateStream` |
| Command: `cmd/zopfli-go/main.go` | files on disk, candidates, two channels, workers, report, exit code | `parseArgs`, `discoverCandidates`, `processCandidates`, `processCandidate`, `emitResults` | overlapping inputs; reads and writes that fail; a kill in the middle of a write; files that disappear; who closes which channel | `FileJobs` |
| Longest-match cache: `cache.go` | entry per position, arena of runs, budget | `initWithRunBudget`, `storeMatch`, three ways to ask | budget ends within an entry; arrays with old content; incomplete entries | `LongestMatchCache` |
| Greedy parser: `lz77Greedy` | position, match held back, store | loop over bytes | lazy matching with a loop variable changed in five places | `LZ77Greedy` |
| Token store: `lz77.go` 8-201 | tokens, cumulative counts | store, append, reset, histogram, byteRange | chunks of 288 and 32 tokens | `LZ77Store` |
| Block splitter: `blocksplitter.go` | split points, `done` | `blockSplitLZ77`, `findMinimum` | termination; blocks change under `done` | `BlockSplitter` |
| Optimal parser, outer loop: `lz77OptimalWithScratch` | two stores, three sets of statistics, costs | one iteration | stores swapped instead of copied; order of copies | `OptimalParse` |
| Optimal parser, one iteration: `squeeze.go` 63-475 | cost and length per byte, path, store | `getBestLengths*`, `traceBackwards`, `followPath` | dynamic programme with shortcuts for long runs and for lengths that cannot improve; distances are looked up a second time | `ShortestPath` |
| Hash chains: `hash.go`, `findLongestMatch` | heads and links of a window, run lengths | `reset`, `warmup`, `update`, search | window wraps, nothing is ever removed; two chains, and a change from one to the other during the walk | `HashChain` |
| Huffman codes: `katajainen.go`, `tree.go` | pool of nodes, lists of package-merge | `lengthLimitedCodeLengths`, `lengthsToSymbols` | length limit, ties, size of the pool | `HuffmanCodes`, `PackageMerge` |
| Block encoder: `deflate.go` 24-573 | measured sizes, lengths in scratch memory, bits | sizes of three types, `optimizeHuffmanForRLE`, `encodeTree`, `addLZ77Data` | estimate must equal what is written; repeats over the boundary of two alphabets; eight forms of the tree | `BlockEncoder` |
| Symbol tables: `symbols.go` | none | lengths and distances to symbols | boundaries at powers of two | `SymbolTables` |
| Containers, helpers | none | headers, checksums, conversions | nothing that happens in an order | left out |
| `cmd/zopfli-task` | none of the compressor's | benchmarks, profiles, README table | development tool | left out |

How they call each other: the command hands each file to
`CompressParallel`, which writes a container around `deflate`. `deflate` cuts
the input into parts of 1,000,000 bytes. For each part `prepareDeflatePart`
asks the block splitter for cuts (over a greedy parse), has each block parsed
by the optimal parser (over the match cache and the hash chains), joins the
stores, and asks the splitter again about the joined store. The plans are
written in order by the main goroutine. Nothing is shared between goroutines
but the input, the options, one slot of `plans` or `results` each, and the
channel of tasks; each has scratch memory of its own.

### What has to be right

* Block scheduling: the output is the serial one for every number of workers;
  it has exactly one final block; workers stay within the number asked for;
  the call returns.
* Command: each candidate is compressed exactly once; exit code 0 means that
  every output is there and whole; a repeated run ends where an undisturbed
  one would; the command ends.
* Cache: every answer is what the search finds; the arena stays within its
  budget and holds nothing else than complete entries.
* Search: the chains lead to positions of the window that are alike, the
  longest match is found, and for each length the nearest.
* Parsers and store: the tokens stand for the bytes of the block, once each;
  histograms of ranges are exact; the path found is the cheapest, and the
  cheapest parse seen is returned.
* Codes and encoder: the code lengths are the cheapest within the limit; a
  decoder gets the tokens back; a block has the size it was chosen for.
* Splitter: points in order and within the limit; no block left that was not
  looked at; termination.

`PROJECT.json` lists, under `hazards`, each place in the code where one of
these could break and the properties that would show it.

## The modules

`DeflateStream` is the abstract promise of the block layer: blocks are
appended, each begins where the one before it ends, and the one that reaches
the end of the input is final.

`DeflateParallel` is `deflate` with everything it starts. The main goroutine
is `pc`, `first`, `slot`, `block`, `written`; `Spawn` is one turn of the loop
with `wg.Go`, `Wait` is `wg.Wait`, `Write` writes one block (one chunk of a
stored block) and clears the plan behind its last one. The serial loop is the
same with batches of one part: its goroutine is the main one, which does
nothing else meanwhile. `stage[o]` is where `prepareDeflatePart` stands for
the part in slot `o`, with its local variables in `cuts`, `next`, `store` and
`points`. `OpenPool` .. `JoinResult` are `optimizeSplitBlockBatch`: `Send` is
the rendezvous on the channel of tasks, `ParseTask` fills `results[offset]`,
`StopWorker` ends a range loop on the closed channel. `scratch` records for
which block each scratch memory was last prepared; a parse is read from it,
so that two goroutines with one scratch memory would produce wrong stores. The
tokens of a range, the cuts and the cheapest type of a block are constants
(`Parse`, `FixedParse`, `BlockSplit`, `BlockSplitLZ77`, `Cheaper`,
`Cheapest`), which is what "they depend on the bytes alone" means; all that is
assumed of them is that a parse covers its range and that cuts lie inside. The
scratch memory of the writer, which parses a block again for the fixed code
between two writes of the same goroutine, is part of `Write`.

`FileJobs` is the command. Main is `pc`, the feeder `feeder`, `tasks` and
`open`, a worker `job[w]`. `Receive` is the rendezvous on the channel of
tasks; `results` is the buffered channel. Reading and compressing a file is one
step, writing it two: the file is emptied (`Torn`) and then complete, or the
write fails and leaves it torn. `Crash` kills the process and runs the same
command again on the files as they are; `Lose` removes a file. Discovery takes
one file at a time, as `filepath.WalkDir` visits them, in the order of
directory; no file the command writes appears while it searches.
`DiscoverFails` stands for each of its errors.

`LongestMatchCache` is `cache.go` with `buildLongestMatchCache` and the parsers'
questions. What the search finds at a position is a constant, one distance for
each length; `RunsOf` is the encoding as runs, `CapacityAfter` appends them
one by one against the budget. `AskRuns` and `AskDistance` are questions to a
complete cache, `FindFull`, `AskCompact` and `FindLimited` those to an
incomplete one, with the search behind it. The arena's old memory is kept
from block to block, like the arrays of the entries.

`LZ77Greedy` is the loop of `lz77Greedy`, one body of it an action: `Fresh`,
`GiveUp` (the match held back is given up) and `Keep`. `LZ77Store` is the token
store with its chunked counts. `BlockSplitter` is
`blockSplitLZ77WithScratch`; `FindMinimum` is both halves of `findMinimum`,
and `Locate` the walk at the end of `blockSplitWithScratch`. `OptimalParse` is
the loop of `lz77OptimalWithScratch`; the two stores are names of two buffers,
a parse is known by its cost and by the statistics it was made under.

`HashChain` is `hash` with `findLongestMatch`. `Enter` is one turn of the loop
over the window before a block, `Step` one of a parser's loop over the bytes:
the position enters both chains (`Update`) and is searched, under any limit a
parser may ask for. `Walk` is the search: `First` is where it begins, `Visit`
one turn of its loop, which may go over to the second chain, `Over` its end.
`NextParse` resets the same memory for the second parse of a block and for the
block after it. The bytes, the window and the hash are small, and the hash is
made the same way, from the low bits of three bytes; the operator `^` is a
constant, `BitXor`. What is read outside of the array is no byte, so that a
comparison with it fails.

`ShortestPath` is `lz77OptimalRunStat` and `lz77OptimalRunFixed`: `Relax` is
one turn of the loop of `getBestLengths*`, with the jump through a long run
where it is taken, `Trace` one of `traceBackwards`, `Follow` one of
`followPath`. `Runs` are the matches as the complete cache and the scan of
`sublen` give them, `Compact` with the padding of the compact form; `Relax`
may take either (`Answers`). The lengths of a match lead to places of their
own in the arrays, so `RelaxMatches` gives all of them at once what the loop
over the runs gives one after the other: `Candidate` is the cost taken for a
length, `Skipped` says which lengths are passed over. A block comes with its
code, which is given by its costs: that of a match is a term of its length and
a term of its distance, as in the code.

`HuffmanCodes` holds the steps of package-merge and canonical codes as
operators; `PackageMerge` is one call of `lengthLimitedCodeLengths`, an action
for each call of `boundaryPM` it leads to. `boundaryPM` calls itself last,
twice, for the list below, so that all that is left of its calls is how many
are still to be made for each list (`calls`), and the next is one of the
lowest: `MergeLeaf` makes a leaf the next chain, `MergePackage` a pair of
chains of the list below, and `NoMoreLeaves` returns early. `SymbolTables` gives the symbols of lengths and
distances; where the source has a table the module has the formula behind it.
`BlockEncoder` is `addLZ77BlockAutoType`: `Measure` computes the three sizes,
`Choose` parses again for fixed codes where the code does and takes a type,
`FixedCodes`, `DynamicCodes`, `AddDynamicTree` and `AddLZ77Data` write the
block. Its code lengths are the same package-merge, with `BoundaryPM` as a
recursive operator. It works with deflate's own alphabets, tables and limits; only the two
numbers of tokens at which the code changes its method are constants.
`Read...` are a decoder after RFC 1951, written without a look at the
encoder; no action uses it.

Modules named `MC...` give the constants for TLC; `OptimalParse` needs none.
Modules named `...Proofs` hold the theorems. Operators named `Mut...` beside a
definition are that definition with a plausible mistake; no specification uses
them. They document which mistake each property excludes: put in place of the
definition, TLC finds the property violated.

### Refinement

`DeflateParallel` implements `DeflateStream` with the stream being `out`
without kinds and tokens (`ImplementsStream`). `MatchesSerial` compares `out`
with `SerialStream`, the stream computed from the input by a definition that
knows no goroutine.

## The runs

| Run | Bounds | What it shows |
| --- | --- | --- |
| `deflate` | parts of 5 bytes, 48 inputs of one part with 1 to 5 blocks, 20 of up to four parts; 0 to 9 workers (cap 3), block types 0 to 2 | batches that are full, partial and alone; pools with more blocks than workers, the second split taken or not; stored blocks in several chunks; the stream is the serial one; termination and the refinement with its liveness |
| `files` | 3 files below 2 directories, 21 command lines, 3 processors; for 5 of them 1 kill, for 3 one file removed | overlap of inputs, invalid arguments, failing reads and writes, `.gz` inputs; a later success makes up for an earlier kill; the command ends |
| `files_stale` | 2 command lines | the divergence described below |
| `lmc` | 6 blocks of up to 5 positions, budgets 0, 1, 3, 4, 6, two blocks in a row | budgets that end before, within and behind an entry; old content in the arrays; arena cut and grown |
| `greedy` | blocks of 0, 2, 3 and 7 bytes, matches of 3 to 6 bytes, near or far | all combinations of matches at adjacent bytes, with the last byte in a match held back or not |
| `store` | up to 10 tokens, chunks of 3 and 2 tokens | ranges that begin and end in every place of a chunk, short and long |
| `splitter` | stores of 2, 8 and 9 tokens of two kinds, limits 0 to 9 | sorted points, the limit, the token missing at the end, both halves of `findMinimum` |
| `optimal` | 1, 2 and 9 iterations, 3 costs | shuffles (from the seventh iteration on) and improvements in every order |
| `path` | blocks of up to 26 of two bytes, matches of 3 to 5 bytes, 3 codes, compact answers of 2 runs | the cheapest parse, by definition; blocks where the jump through a run is taken, refused and just missed; stale lengths |
| `hash` | window of 8 bytes, arrays of 14 bytes that repeat what is 10 bytes before, and of 7 of three byte values; matches of 3 to 5, chains cut off after 2 and 8 steps | slots that were taken over, chains that wrap, the change of the chain, hash collisions |
| `huffman` | 5 symbols with frequencies 0, 1, 2, 5, two skewed sets of 6, limits 2, 3, 4 | cheapest and complete codes against all codes within the limit, ties, few symbols, too many for the limit; the pool |
| `block` | 207 blocks of up to some sixty tokens | see below |

The blocks of `block` are picked for the boundaries of the encoder: gaps of
3 to 255 unused symbols, so that zeros are cut by 18 and 17 with every kind of
remainder; up to 20 neighbours of one length, for 16; lengths that go on from
the literals into the distances; counts that are evened, nearly, and in strides
of zeros; all lengths of a match and the distances around each power of two;
no token, one literal, a block that is best stored, and parses for fixed codes
that differ from the other one. All three types are chosen, evened and plain
counts win, and each of the three repeat codes is used. No block is so large
that a length reaches 15 bits; limits that bind are `huffman`'s. The bits of
stored blocks are `deflate`'s blocks of bytes, and their estimated size, 40
bits for each chunk, is only used to choose the type.

Why these are enough: the code distinguishes the first, a middle and the last
part, batch, block and chunk, and full and partial batches; each run has all
of them. Chunks, windows and thresholds are scaled down with the sizes
(`MasterBlockSize`, `StoredMax`, `NumLL`, `NumD`, `MinSplit`, `Linear`,
`Samples`, `Far`, `MaxMatch`, `MinCapacity`, `CacheLength`, `WindowSize`,
`HashShift`, `HashMask`, `SameMask`, `SameMax`, `ShortRange`, `SmallStore`), never removed. Bounds that exist
for TLC only are `MaxTokens` and `MaxAppended` (`LZ77Store`), `MaxSize` and
`MaxBlocks` (`LongestMatchCache`), `MaxCrashes` and `MaxLost` (`FileJobs`).
`lmc` and `store` run without the deadlock check because their user may stop
at any time; all others check it.

### Fairness

`DeflateParallel` and `FileJobs` assume weak fairness of each goroutine: the
Go scheduler runs every goroutine that can go on, and all of them do nothing
but compute, send, receive and wait. No step that depends on the environment,
a failing write, a removed file or a kill, is required to happen; a file
operation is only required to return, whichever way. `LZ77Greedy` and
`BlockSplitter` assume that a loop goes on while its condition holds.
The other modules state safety only: `HashChain`, `ShortestPath`,
`PackageMerge` and `BlockEncoder` are loops over counted ranges, and a user of
`LongestMatchCache` or `LZ77Store` may stop at any time.

### A divergence from the documentation

README.md:89 says that when a file is skipped for size, "any stale adjacent
`.gz` output from an earlier run is removed". `processCandidate` (main.go:503)
returns without a look at the output path. `files_stale` shows a run that ends
with exit code 0 while the old `.gz`, which holds another content, is still
there. Web servers that prefer the `.gz` would serve the old content.

## The proofs

TLC checks instances; the theorems hold for every value of the constants that
the assumptions allow, so for any input length, part size, number of workers,
analysis, matches and costs.

`DeflateParallelProofs` (from `SizesAssumption`, `CallAssumption`,
`AnalysisAssumption`, `StoresAssumption`). The properties are not inductive:
that the final bit is right depends on the plan being written having points
inside its store, which depends on what the pool joined, which depends on
what its workers left in `results`. `IInv` carries this chain:

* `BatchInv`: which slots are busy in which phase of the main loop;
* `FrameInv`: the store joined so far covers the part up to the next cut, and
  the points so far lie inside it;
* `PoolInv`: each offset that was sent is either with a worker or its result
  is the parse of its block;
* `OwnScratch`: what a goroutine loaded is still in its scratch memory;
* `PlanOf`: a delivered plan covers its part;
* `OutInv`: what is written ends where the block being written goes on, and
  no block is final before the end.

`Init => IInv`, one lemma per action for `IInv /\ [Next]_vars => IInv'`, and
from `IInv` the theorems `TypeCorrect`, `FinalBlock`, `WritesAfterWait`,
`OwnScratchMemory`, `JoinsFinishedStores`. `BlockLayer` is the safety half of
the refinement of `DeflateStream`: every step of every goroutine is a step of
the abstract stream or leaves it alone. The lemmas about covering and cutting
(`CoversConcat`, `CutsAppend`, `TokenRange`, `PointRange`, `BlockOfPlan`)
are the part that has nothing to do with goroutines.

The second half of the module goes on from `IInv`, with two invariants of its own.
`AnalysisBound` follows from `PoolWorkers`: a worker of a pool that is not off
is one of the first `NormalizeWorkers(opt.workers)`; the rest is counting, with
one case for batches, where no part has a pool, and one for a single part.
`MatchesSerial` follows from `IsSerial`: what a frame holds is what the serial
algorithm has computed at that point (`FrameIsSerial`: the cuts, the first
`next[o]` block parses joined, their lengths as points; or the whole plan),
and the chunks written are the first ones of the serial stream, exactly as
many as stand before the chunk the main goroutine is at (`OutIsSerial`,
`Position`). What comes before it puts the serial stream together
from the input alone: `Joins` are the sequences joined one by one, a recursive
function that `FlattenIsJoins` shows to be the fold of `SerialStream`;
`PointsAreLengths` shows that the points a worker appends, the lengths of the
joined store, are those the definition counts in the finished store;
`ChunkAtPosition` finds block and chunk at each place of the stream.

`FileJobsProofs` (from the assumptions on commands and paths). The invariant
is in parts that need each other: `Phases` (what has ended when), `Tracked`
(each file handed out is with exactly one worker or has its one result, which
gives `OneWorkerPerFile` and `NoneLost`), `Truthful` (a result that says
"written" is on disk, which nothing but a worker on the same file could
change), `Counted` (the summary counts each result once), `Searched` (main
has found each file below the inputs it has passed) and `Replayable` (files
are as before the first run, but for outputs of candidates, so that a run
after a kill finds the same candidates with the same contents). `FanOut` is
arithmetic on `Jobs`, from `Tracked`. Only outputs that end in .gz are
written, and without `--allow-gzip-inputs` such files are no candidates: this
is why `SameOutcome` is true, and why it says nothing of command lines with
that flag. Beside a candidate that does not shrink `SameOutcome` allows the old
output to stay, as it does in the code, or to be gone, as the documentation has
it; that it stays is `files_stale`'s question.

`LongestMatchCacheProofs`. The first part is about data: the runs of a match
give back its distances (`RunsOf`), and growing the arena run by run never
passes the budget (`CapacityAfter`). The invariant: `Telling`, each complete
entry tells what the search finds at its position; `Apart`, the entries' runs
lie one behind the other in the order of positions; `Owned`, no run of the
arena is without an entry; `Building`, the entries behind the one being built
are complete, those ahead untouched, and the arena has as many runs as
`RunsBefore` counts. Old content of the arrays is covered because nothing is
assumed of entries that are not filled.

`StoreProofs` (from `StoreAssumption`, `SplitterAssumption`, `CostsAssumption`)
is about the store and about the splitter that divides it. Of the store,
`Count` is the number of times a
symbol occurs in a range, which is additive (`CountSplit`). The invariant is of
the store as a whole, because `appendStore` runs through stores that no state
shows: `Chunked`, chunk c counts the elements up to its end or up to now, and
just the chunks begun are there; `Adjacent`, a token begins where the one
before it ends. `ChunkStep` is a step of either alphabet, over the sequence of
its symbols; the -1 of a literal stands for no distance. From the first follows
the histogram up to a token (`HistogramUpTo`), and a range is a difference of
two; from the second the sum of the bytes of a range telescopes
(`BytesTelescope`).

The splitter keeps what is done by the start of a block, while the ends of
blocks change as points are added. `SplitterInv` says why this is right:
`DoneIsWhole`, a block whose start is done is the very block that was looked
at, because a block is split only while it is not done and no new point is a
start already in use; `Looking`, the block looked at next lies between two
points that follow each other (or is the whole store, up to the last token,
which later blocks leave out), and where the search ends below the limit each
block large enough is done, because the largest of the others is too small.
`AddSortedAdds` shows of the sort that the points increase and one is added;
`BlockEndsAre` that the blocks are the gaps between points. That a point lies
within its block is `MinimumIs`: the rounds of the search in a long range never
leave it, since the samples lie inside (`SampleWithin`). `LocateFinds` follows
the walk over the tokens: it has found the points it has passed, in order, so
that none is missed.

`InductionFacts` has what these proofs need of induction. The library's
theorems take the induction hypothesis as an operator; here it is a set: a
set of numbers that has 0 and with each number the next has all
(`SetInduction`, from the least element of its complement). From it: a
recursive function exists and is what its equation says (`RecursionDefines`),
stays in a set (`RecursionStaysIn`), and does not fall (`NeverFalls`).

`ParseAndCodeProofs` (from `LengthAssumption`, `FindsAssumption`;
`ParseAssumption`; `FrequenciesAssumption`) has two parses and package-merge.
In the greedy one `Tiled` depends on the match held back being the one of the
byte before (`HeldIsPrevious`), which with the assumption that matches end
within the block also excludes that the loop ends with a match held back
(`StoresWholeBlock`). Of the loop of `OptimalParse`, which starts from the
statistics of the greedy parse, `StoreIsBest` is inductive with the types;
`CheapestIsKept` follows for each step. The three specifications share no
variable; those of the loop and of package-merge have names of their own
(`LoopSpec`, `MergeSpec`) so that one module can extend all.

That the pool of package-merge suffices is a statement about how many chains
are ever asked for, while the code only says which one is made next. The
invariant `MergeInv` relates the lists to each other: `InOrder`, the chains of
a list get heavier, and the next leaf is not lighter than the last chain that
is one; `Balanced`, the chains of a list, with the calls that are left, are two
for each package of the list above and two to look at, or its leaves have
ended, and a list has more leaves than packages unless it has all leaves
(`LeavesBefore`: a package is as heavy as two leaves at least); `Placed`, each
node is the k-th chain of one list, no two are the same, and the tail of a
node is in a list further down. From the places follows that there are at most
`2 + limit * (2n - 4)` nodes (`PlacesBound`), fewer than the
`limit * 2 * n` allocated, and that a chain has no more nodes than there are
lists (`ChainIsShort`), so that no code word passes the limit. That each used
symbol has one is `FinalShape`: after the last run the last list has all
leaves.

That no code word is wasted (`CodeIsComplete`) needs the chains to be in step:
`InStep` says that what of the first k chains of a list is not a leaf is a
package, and that the tail of the k-th is the chain of the list below that ends
the last of these packages, two chains for each (`Fits`). The last chain is
followed from its top (`NextNode`): a node with p packages leads to one whose
leaves and packages are 2p together (`ChainFits`). If every length is cut off
at e, words of those lengths take up too much, p times what one word of e bits
takes, where p is the packages of the e-th node; the next node's leaves are
those that get a bit more, and at the last node no package is left
(`WordsTaken`). One case is different: the first list has given all leaves and
has no more chains than those. Then all nodes above have all leaves too, and
since there are code words enough (`WordsSuffice`, from the guard of
`lengthLimitedCodeLengths`) its chains are just as many as are asked for.

`ShortestPathProofs` (from `LengthAssumption`, `CostAssumption`). The
definition of the cheapest parse goes from the end of the block to its
beginning, the search the other way, and neither is an invariant of the
other. What the search keeps is `SearchInvariant`: every cost but that of an
unreached byte is the sum of a cost before and of a token that leads here
(`Link`), at most `MaxCost` for each byte, and once a byte is passed without a
jump, no token from it leads to less (`Explored`). From the links any cost is
at least that of the cheapest parse (`NeverCheaper`), from the second part at
most (`NotDearer`). The work is in the step: the answers of the three
encodings say of each length its nearest distance (`RunsSay`,
`AnswersSpeak`), lengths with one symbol share the cost of the first
(`CandidateIs`), and a length passed over was not above any candidate of its
run (`SkippedIs`). Inside a long run `SameIs` shows that the longest match at
distance 1 is there at each byte passed, so that the links go on, though the
bytes are not explored. `PathInvariant` takes the links to the store: the
lengths traced back lead from token to token (`Leads`), and what is followed
again finds matches of these lengths (`TokenTaken`), whose costs add up to the
cost of the last byte (`StoreCosts`). Stale lengths do no harm because only
reached bytes are led through.

`HashChainProofs` (from `SizesAssumption`, `HashAssumption`). The second says
of the hash what its numbers are chosen for: three bytes shift everything else
out of the value, and a value together with a run's length gives back the
length. What the hash stands for is `Holds`: of each position of the window the
run is the run of the block, its hash value is that of its three bytes, and
each chain is `Chained`, which says of the link of a position in reach that it
leads to the nearest position before it with its value, or to itself when that
one is out of reach, and of a head that it is the last position with the value,
however old. That the hash value of a slot is compared before a link is set
is what makes it inductive: a slot taken over has another position's value
(`LinkIs`). `UpdateHolds` is the step, `PreparedHolds` the reset of used memory.

The walk of a search is followed turn by turn (`Walking`): as long as it is not
over its slot is that of a position with a value of the one searched for, at
its distance, which gives `ProbesAreAlike`; and the lengths found so far are
there, since two runs that begin with the same byte agree as far as the
shorter goes (`SkipAgrees`), which gives `MatchesAreReal`. Two walks under
different limits go together until the first of them stops (`Together`), and
what the other finds later never changes a shorter length: `LimitedAgrees`.
`FindsNearest` is `Complete`: what a walk has left behind is covered by what
it has found. On the first chain nothing with three bytes in common is left
out. On the second a position with a run of another length is, and then no more
bytes agree than the run and none or one behind it, because the walk changes over
only with a longer match than that (`SwitchCovers`). The lengths of runs count
modulo 256 there; a match is too short for the difference to matter, which is
the assumption `MaxMatch <= SameMask + MinMatch`: 258 is the largest value for
which this proof works.

### Only model-checked

* Liveness: `Terminates`, `ImplementsStream` with its fairness, `ParsesAll`,
  `Returns`. The prover has no rule for fairness.
* The last part of `CheapestCode`: that no other code of the symbols is
  cheaper is a statement about all codes there are, by an induction over them.
  That the lengths are within the limit and leave no code word unused is
  proved (`LengthsStayWithinLimit`, `CodeIsComplete`).
* `BlockIsRead`, `CostIsWritten`: the trees of `BlockEncoder` and the reading
  of its bits are `RECURSIVE` operators, which the prover does not take.

## Not modelled

Costs are numbers given from outside: floating-point rounding is out of reach
of TLC, and only the order of costs matters to the loops modelled. For the
same reason entropies, weighted statistics and their random shuffles are left
out. The bit writer's packing into bytes is a loop without a decision; the
stream is its bits. Containers and helpers are straight lines without state. `cmd/zopfli-task` and the benchmarks are
development tools. Contents of files, names, messages and formats of reports
are left out where no property is about them.
