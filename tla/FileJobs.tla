------------------------------- MODULE FileJobs -------------------------------
(***************************************************************************)
(* The command zopfli-go (cmd/zopfli-go/main.go): arguments are checked,   *)
(* the inputs are searched for files to compress, a feeder hands them to a *)
(* pool of workers over a channel without buffer, each worker reads,       *)
(* compresses and writes one file at a time, and main collects the results *)
(* and reports them.  Around it: files that disappear, reads and writes    *)
(* that fail, a process that is killed and started again.                  *)
(*                                                                         *)
(* Contents are opaque: Gzip(c) is what CompressParallel makes of c, and   *)
(* Shrinks(c) whether that is shorter.  A file being written, or left when *)
(* a write failed or the process was killed, is Torn.                      *)
(***************************************************************************)
EXTENDS Integers, Sequences, FiniteSets, SequencesExt

CONSTANTS
    Paths, Dirs,        \* paths of files and of directories
    Listing(_),         \* the paths below a directory in the order they are walked
    Root(_),            \* the directory a file named as an input is relative to
    Rank(_),            \* place of a path in the order reports are sorted by
    EndsInGz(_),        \* whether a path has the extension .gz
    Output(_),          \* the path with .gz appended
    Matches(_, _),      \* whether a path below a root passes the suffix filters
    Contents, Torn,
    NoPath, None,       \* the path of a worker without a file; of a file that
                        \* is not there, the content
    Gzip(_), Shrinks(_),
    FileSystems,        \* contents of the paths before the first run
    Commands,           \* the command lines
    GOMAXPROCS,
    MaxCompressionWorkers,
    MaxCrashes(_),      \* bound on the kills of a command
    MaxLost(_)          \* bound on the files that others remove under it

(* The files that may be inputs: where their output goes is a path too.    *)
Sources == {p \in Paths : Output(p) \in Paths}

ASSUME PathsAssumption ==
    /\ IsFiniteSet(Paths) /\ NoPath \notin Paths /\ Dirs \cap Paths = {}
    /\ \A d \in Dirs : Listing(d) \in Seq(Sources)
    /\ \A p, q \in Paths : Output(p) = Output(q) => p = q
    /\ \A p \in Paths : EndsInGz(p) \in BOOLEAN /\ Root(p) \in Dirs /\ Rank(p) \in Nat
    /\ \A p, q \in Paths : Output(p) = q => EndsInGz(q)

ASSUME ContentsAssumption ==
    /\ Torn \in Contents /\ None \notin Contents
    /\ \A c \in Contents : Gzip(c) \in Contents /\ Shrinks(c) \in BOOLEAN
    /\ FileSystems \subseteq [Paths -> Contents \cup {None}]

ASSUME CommandsAssumption ==
    /\ Commands \subseteq [inputs: Seq(Sources \cup Dirs), help: BOOLEAN, options: BOOLEAN,
                           jobsSet: BOOLEAN, jobs: Int, workersPerFile: Int,
                           allowGzipInputs: BOOLEAN, verbose: BOOLEAN]
    /\ GOMAXPROCS \in Nat \ {0} /\ MaxCompressionWorkers \in Nat \ {0}
    /\ \A c \in Commands : MaxCrashes(c) \in Nat /\ MaxLost(c) \in Nat

(* Enough goroutines for one on each path. *)
Workers == 1..Cardinality(Paths)

Statuses == {"written", "skipped-bigger", "skipped-filtered", "error"}

(* A result also names the content that was read, which only the           *)
(* properties look at.                                                     *)
Results == [source: Paths, status: Statuses, data: Contents \cup {None}]
Result(p, status, data) == [source |-> p, status |-> status, data |-> data]

VARIABLES
    cmd,        \* the command line
    fs,         \* contents of the files
    original,   \* contents of the files before the first run
    pc,         \* main: args, discover, collect, emit, exit
    exit,       \* the exit code
    input,      \* index of the input that is searched
    walked,     \* number of files below it that were visited
    found,      \* discovery.candidates
    filtered,   \* discovery.filtered
    feeder,     \* index of the next candidate to send; the channel of tasks
                \* is closed when it is past the last one and tasks is FALSE
    tasks,      \* the channel of tasks is open
    job,        \* what each worker is doing
    results,    \* what the channel of results holds
    open,       \* the channel of results is open
    collected,  \* the results main received
    left,       \* results still to be reported, as indices of All
    counts,     \* summaryCounts
    crashes, lost

cli == <<cmd, original>>
search == <<input, walked, found, filtered>>
chans == <<feeder, tasks, results, open>>
report == <<left, counts>>
env == <<crashes, lost>>
vars == <<cli, fs, pc, exit, search, chans, job, collected, report, env>>

-----------------------------------------------------------------------------
Larger(a, b) == IF a > b THEN a ELSE b
Smaller(a, b) == IF a < b THEN a ELSE b

MutJobs(c) == IF c.jobsSet THEN c.jobs ELSE GOMAXPROCS

(* --jobs, or else the processors divided by the workers of a file. *)
Jobs(c) ==
    IF c.jobsSet THEN c.jobs
    ELSE IF c.workersPerFile > 1 THEN Larger(1, GOMAXPROCS \div c.workersPerFile)
    ELSE GOMAXPROCS

(* options stands for the checks of --iterations and --block-splitting-max. *)
Valid(c) ==
    /\ Jobs(c) > 0 /\ c.options
    /\ c.workersPerFile \in 1..MaxCompressionWorkers
    /\ c.inputs # <<>>

PoolSize == Smaller(Jobs(cmd), Len(found))

Idle == [stage |-> "off", source |-> NoPath, status |-> "error", data |-> None]
Job(stage, p, status, data) == [stage |-> stage, source |-> p, status |-> status, data |-> data]

NoCounts == [s \in Statuses |-> 0]

(* buildCandidate. *)
IsCandidate(root, p) ==
    /\ cmd.allowGzipInputs \/ ~EndsInGz(p)
    /\ Matches(root, p)

MutNew(p) == TRUE

(* Whether a path is not among the candidates yet (seen). *)
New(p) == p \notin Range(found)

All == filtered \o collected

-----------------------------------------------------------------------------
Init ==
    /\ cmd \in Commands
    /\ fs \in FileSystems /\ original = fs
    /\ pc = "args" /\ exit = -1
    /\ input = 1 /\ walked = 0 /\ found = <<>> /\ filtered = <<>>
    /\ feeder = 1 /\ tasks = TRUE /\ results = <<>> /\ open = TRUE
    /\ job = [w \in Workers |-> Idle]
    /\ collected = <<>>
    /\ left = {} /\ counts = NoCounts
    /\ crashes = 0 /\ lost = 0

Exit(code) == pc' = "exit" /\ exit' = code

-----------------------------------------------------------------------------
(* The main goroutine. *)

ParseArgs ==
    /\ pc = "args"
    /\ IF cmd.help THEN Exit(0)
       ELSE IF ~Valid(cmd) THEN Exit(2)
       ELSE pc' = "discover" /\ UNCHANGED exit
    /\ UNCHANGED <<cli, fs, search, chans, job, collected, report, env>>

Searching == pc = "discover" /\ input <= Len(cmd.inputs)

(* A file is a candidate, once, or a filtered result.                      *)
Take(root, p) ==
    IF IsCandidate(root, p)
    THEN /\ found' = IF New(p) THEN Append(found, p) ELSE found
         /\ UNCHANGED filtered
    ELSE /\ filtered' = Append(filtered, Result(p, "skipped-filtered", None))
         /\ UNCHANGED found

(* A file that is named as an input.                                       *)
DiscoverFile ==
    LET p == cmd.inputs[input]
    IN  /\ Searching /\ p \in Paths /\ fs[p] # None
        /\ Take(Root(p), p)
        /\ input' = input + 1
        /\ UNCHANGED <<cli, fs, pc, exit, walked, chans, job, collected, report, env>>

(* filepath.WalkDir visits the next file below a directory, if it is there. *)
WalkFile ==
    LET d == cmd.inputs[input]
        p == Listing(d)[walked + 1]
    IN  /\ Searching /\ d \in Dirs /\ walked < Len(Listing(d))
        /\ IF fs[p] = None THEN UNCHANGED <<found, filtered>> ELSE Take(d, p)
        /\ walked' = walked + 1
        /\ UNCHANGED <<cli, fs, pc, exit, input, chans, job, collected, report, env>>

WalkEnds ==
    LET d == cmd.inputs[input]
    IN  /\ Searching /\ d \in Dirs /\ walked = Len(Listing(d))
        /\ input' = input + 1 /\ walked' = 0
        /\ UNCHANGED <<cli, fs, pc, exit, found, filtered, chans, job, collected, report, env>>

(* An input that is not there or cannot be examined ends the run before    *)
(* any file is compressed.                                                 *)
DiscoverFails ==
    /\ Searching
    /\ Exit(1)
    /\ UNCHANGED <<cli, fs, search, chans, job, collected, report, env>>

(* processCandidates starts its workers, if there is anything to do. *)
StartPool ==
    /\ pc = "discover" /\ input > Len(cmd.inputs)
    /\ IF found = <<>>
       THEN /\ pc' = "emit" /\ left' = 1..Len(All)
            /\ UNCHANGED job
       ELSE /\ pc' = "collect" /\ UNCHANGED left
            /\ job' = [w \in Workers |->
                         IF w <= PoolSize THEN [Idle EXCEPT !.stage = "recv"] ELSE Idle]
    /\ UNCHANGED <<cli, fs, exit, search, chans, collected, counts, env>>

Collect ==
    /\ pc = "collect" /\ results # <<>>
    /\ collected' = Append(collected, Head(results))
    /\ results' = Tail(results)
    /\ UNCHANGED <<cli, fs, pc, exit, search, feeder, tasks, open, job, report, env>>

(* range results ends when the channel is closed and empty. *)
CollectEnds ==
    /\ pc = "collect" /\ results = <<>> /\ ~open
    /\ pc' = "emit"
    /\ left' = 1..Len(All)
    /\ UNCHANGED <<cli, fs, exit, search, chans, job, collected, counts, env>>

(* emitResults: the results in the order of their paths; those of the same *)
(* path, a file filtered twice or below one root only, in any order.  A    *)
(* line that reports one may fail to be written.                           *)
EmitNext(n) ==
    /\ pc = "emit" /\ n \in left
    /\ \A m \in left : Rank(All[n].source) <= Rank(All[m].source)
    /\ counts' = [counts EXCEPT ![All[n].status] = @ + 1]
    /\ \/ left' = left \ {n} /\ UNCHANGED <<pc, exit>>
       \/ /\ All[n].status = "error" \/ cmd.verbose
          /\ Exit(1) /\ UNCHANGED left
    /\ UNCHANGED <<cli, fs, search, chans, job, collected, env>>

(* The summary line or the JSON report, and the exit code. *)
EmitSummary ==
    /\ pc = "emit" /\ left = {}
    /\ Exit(1) \/ (counts["error"] = 0 /\ Exit(0))
    /\ UNCHANGED <<cli, fs, search, chans, job, collected, report, env>>

-----------------------------------------------------------------------------
(* The feeder goroutine. *)

MutCloseTasks ==
    /\ pc = "collect" /\ tasks /\ feeder > Len(found) + 1
    /\ tasks' = FALSE
    /\ UNCHANGED <<cli, fs, pc, exit, search, feeder, results, open, job, collected, report, env>>

CloseTasks ==
    /\ pc = "collect" /\ tasks /\ feeder > Len(found)
    /\ tasks' = FALSE
    /\ UNCHANGED <<cli, fs, pc, exit, search, feeder, results, open, job, collected, report, env>>

MutCloseResults ==
    /\ pc = "collect" /\ ~tasks /\ open
    /\ open' = FALSE
    /\ UNCHANGED <<cli, fs, pc, exit, search, feeder, tasks, results, job, collected, report, env>>

(* wg.Wait and close(results). *)
CloseResults ==
    /\ pc = "collect" /\ ~tasks /\ open
    /\ \A w \in Workers : job[w].stage = "off"
    /\ open' = FALSE
    /\ UNCHANGED <<cli, fs, pc, exit, search, feeder, tasks, results, job, collected, report, env>>

-----------------------------------------------------------------------------
(* A worker. *)

(* The feeder sends and a worker receives. *)
Receive(w) ==
    /\ pc = "collect" /\ tasks /\ feeder <= Len(found)
    /\ job[w].stage = "recv"
    /\ job' = [job EXCEPT ![w] = Job("read", found[feeder], "error", None)]
    /\ feeder' = feeder + 1
    /\ UNCHANGED <<cli, fs, pc, exit, search, tasks, results, open, collected, report, env>>

MutRead(w) ==
    LET p == job[w].source
    IN  /\ job[w].stage = "read"
        /\ job' = [job EXCEPT ![w] = IF Shrinks(fs[p]) THEN Job("open", p, "error", fs[p])
                                     ELSE Job("send", p, "skipped-bigger", fs[p])]
        /\ UNCHANGED <<cli, fs, pc, exit, search, chans, collected, report, env>>

(* os.ReadFile, compressCandidate and the comparison of sizes. *)
Read(w) ==
    LET p == job[w].source
    IN  /\ job[w].stage = "read"
        /\ \/ job' = [job EXCEPT ![w] = Job("send", p, "error", None)]
           \/ /\ fs[p] # None
              /\ job' = [job EXCEPT ![w] =
                           IF Shrinks(fs[p]) THEN Job("open", p, "error", fs[p])
                           ELSE Job("send", p, "skipped-bigger", fs[p])]
        /\ UNCHANGED <<cli, fs, pc, exit, search, chans, collected, report, env>>

MutOpenOutput(w) ==
    LET p == job[w].source
    IN  /\ job[w].stage = "open"
        /\ IF fs[Output(p)] = None
           THEN /\ fs' = [fs EXCEPT ![Output(p)] = Torn]
                /\ job' = [job EXCEPT ![w].stage = "write"]
           ELSE /\ job' = [job EXCEPT ![w] = Job("send", p, "written", @.data)]
                /\ UNCHANGED fs
        /\ UNCHANGED <<cli, pc, exit, search, chans, collected, report, env>>

(* os.WriteFile empties the file, or fails to open it. *)
OpenOutput(w) ==
    LET p == job[w].source
    IN  /\ job[w].stage = "open"
        /\ \/ /\ fs' = [fs EXCEPT ![Output(p)] = Torn]
              /\ job' = [job EXCEPT ![w].stage = "write"]
           \/ /\ job' = [job EXCEPT ![w].stage = "send"]
              /\ UNCHANGED fs
        /\ UNCHANGED <<cli, pc, exit, search, chans, collected, report, env>>

MutWrite(w) ==
    LET p == job[w].source
    IN  /\ job[w].stage = "write"
        /\ \/ fs' = [fs EXCEPT ![Output(p)] = Gzip(job[w].data)]
           \/ UNCHANGED fs
        /\ job' = [job EXCEPT ![w] = Job("send", p, "written", @.data)]
        /\ UNCHANGED <<cli, pc, exit, search, chans, collected, report, env>>

(* It writes all of the output, or fails and leaves what it wrote. *)
Write(w) ==
    LET p == job[w].source
    IN  /\ job[w].stage = "write"
        /\ \/ /\ fs' = [fs EXCEPT ![Output(p)] = Gzip(job[w].data)]
              /\ job' = [job EXCEPT ![w] = Job("send", p, "written", @.data)]
           \/ /\ job' = [job EXCEPT ![w].stage = "send"]
              /\ UNCHANGED fs
        /\ UNCHANGED <<cli, pc, exit, search, chans, collected, report, env>>

(* The channel of results has room for one result of each candidate. *)
SendResult(w) ==
    /\ job[w].stage = "send" /\ Len(results) < Len(found)
    /\ results' = Append(results, Result(job[w].source, job[w].status, job[w].data))
    /\ job' = [job EXCEPT ![w] = [Idle EXCEPT !.stage = "recv"]]
    /\ UNCHANGED <<cli, fs, pc, exit, search, feeder, tasks, open, collected, report, env>>

(* range tasks ends when the channel is closed. *)
StopWorker(w) ==
    /\ job[w].stage = "recv" /\ ~tasks
    /\ job' = [job EXCEPT ![w] = Idle]
    /\ UNCHANGED <<cli, fs, pc, exit, search, chans, collected, report, env>>

-----------------------------------------------------------------------------
(* Others. *)

(* Somebody removes a file the command does not write. *)
Lose(p) ==
    /\ pc # "exit" /\ lost < MaxLost(cmd)
    /\ fs[p] # None /\ ~EndsInGz(p)
    /\ fs' = [fs EXCEPT ![p] = None]
    /\ lost' = lost + 1
    /\ UNCHANGED <<cli, pc, exit, search, chans, job, collected, report, crashes>>

(* The process is killed and the same command is run again. *)
Crash ==
    /\ pc # "exit" /\ crashes < MaxCrashes(cmd)
    /\ pc' = "args" /\ UNCHANGED exit
    /\ input' = 1 /\ walked' = 0 /\ found' = <<>> /\ filtered' = <<>>
    /\ feeder' = 1 /\ tasks' = TRUE /\ results' = <<>> /\ open' = TRUE
    /\ job' = [w \in Workers |-> Idle]
    /\ collected' = <<>>
    /\ left' = {} /\ counts' = NoCounts
    /\ crashes' = crashes + 1
    /\ UNCHANGED <<cli, fs, lost>>

-----------------------------------------------------------------------------
Main ==
    \/ ParseArgs \/ DiscoverFile \/ WalkFile \/ WalkEnds \/ DiscoverFails \/ StartPool
    \/ Collect \/ CollectEnds \/ EmitSummary
    \/ \E n \in left : EmitNext(n)

Feeder == CloseTasks \/ CloseResults

Worker(w) ==
    \/ Receive(w) \/ Read(w) \/ OpenOutput(w) \/ Write(w) \/ SendResult(w) \/ StopWorker(w)

Exited == pc = "exit" /\ UNCHANGED vars

Next ==
    \/ Main
    \/ Feeder
    \/ \E w \in Workers : Worker(w)
    \/ \E p \in Paths : Lose(p)
    \/ Crash
    \/ Exited

(* The Go scheduler lets every goroutine that can run, run. *)
Fairness ==
    /\ WF_vars(Main) /\ WF_vars(Feeder)
    /\ \A w \in Workers : WF_vars(Worker(w))

Spec == Init /\ [][Next]_vars /\ Fairness

-----------------------------------------------------------------------------
Stages == {"off", "recv", "read", "open", "write", "send"}
WorkerJobs == [stage: Stages, source: Paths \cup {NoPath}, status: Statuses,
          data: Contents \cup {None}]

(* Every variable stays in its range: in particular a worker past recv     *)
(* works on a path, and what is read and written are contents.             *)
TypeOK ==
    /\ cmd \in Commands
    /\ fs \in [Paths -> Contents \cup {None}] /\ original \in FileSystems
    /\ pc \in {"args", "discover", "collect", "emit", "exit"} /\ exit \in -1..2
    /\ input \in Nat \ {0} /\ walked \in Nat /\ found \in Seq(Sources) /\ filtered \in Seq(Results)
    /\ feeder \in Nat \ {0} /\ tasks \in BOOLEAN /\ open \in BOOLEAN
    /\ job \in [Workers -> WorkerJobs]
    /\ \A w \in Workers : job[w].stage \notin {"off", "recv"} => job[w].source \in Paths
    /\ \A w \in Workers : job[w].stage \in {"open", "write"} => job[w].data \in Contents
    /\ results \in Seq(Results) /\ collected \in Seq(Results)
    /\ left \subseteq 1..Len(All) /\ counts \in [Statuses -> Nat]
    /\ crashes \in 0..MaxCrashes(cmd) /\ lost \in 0..MaxLost(cmd)

Busy == {w \in Workers : job[w].stage \notin {"off", "recv"}}

Processed == collected \o results

(* A file found below several inputs is compressed once: no two workers    *)
(* ever read, or write the output of, the same file (seen in               *)
(* discoverCandidates; concurrent os.WriteFile calls on one path would     *)
(* interleave).                                                            *)
OneWorkerPerFile ==
    /\ \A v, w \in Busy : v # w => Output(job[v].source) # Output(job[w].source)
    /\ \A w \in Busy, n \in 1..Len(Processed) : Processed[n].source # job[w].source

(* Between the feeder, the workers and the two channels no candidate is    *)
(* lost and none is processed twice; when the report is written each one   *)
(* has a result (processCandidates).                                       *)
NoneLost ==
    LET from(w) == job[w].source
        sent == {found[n] : n \in 1..(feeder - 1)}
        with == {Processed[n].source : n \in 1..Len(Processed)}
    IN  /\ sent = {from(w) : w \in Busy} \cup with
        /\ feeder - 1 = Cardinality(Busy) + Len(Processed)
        /\ pc = "emit" => Busy = {} /\ feeder > Len(found) /\ results = <<>>

(* Exit code 0 is a promise: every candidate was read, and where it        *)
(* shrinks the whole output of what was read is on disk, whichever reads,  *)
(* writes, kills and removals came before (run, processCandidate,          *)
(* emitResults).                                                           *)
SuccessIsServed ==
    pc = "exit" /\ exit = 0 /\ ~cmd.help =>
        /\ \A p \in Range(found) : \E n \in 1..Len(collected) : collected[n].source = p
        /\ \A n \in 1..Len(collected) :
              LET r == collected[n]
              IN  \/ r.status = "written" /\ fs[Output(r.source)] = Gzip(r.data)
                  \/ r.status = "skipped-bigger" /\ ~Shrinks(r.data)
        /\ counts["written"] + counts["skipped-bigger"] = Len(found)
        /\ counts["skipped-filtered"] = Len(filtered)

(* Unless .gz files are inputs too, the files after a successful run do    *)
(* not depend on the jobs, on who takes which file or on a kill before:    *)
(* the output of a candidate that shrinks is made of what the candidate    *)
(* held before the first run, and a file that is no output is as it was.   *)
(* Beside a candidate that does not shrink the output of an earlier time   *)
(* is left or removed, never changed.                                      *)
SameOutcome ==
    pc = "exit" /\ exit = 0 /\ ~cmd.help /\ ~cmd.allowGzipInputs /\ lost = 0 =>
        /\ \A q \in Range(found) :
              LET p == Output(q)
              IN  IF Shrinks(original[q]) THEN fs[p] = Gzip(original[q])
                                          ELSE fs[p] \in {original[p], None}
        /\ \A p \in Paths : (\A q \in Range(found) : Output(q) # p) => fs[p] = original[p]

(* "so the two levels of concurrency do not multiply by default" (README): *)
(* without --jobs, the files in work times the workers of each stay within *)
(* the processors, or are one file (parseArgs, processCandidates).         *)
FanOut ==
    ~cmd.jobsSet => Cardinality(Busy) * cmd.workersPerFile
                       <= Larger(GOMAXPROCS, cmd.workersPerFile)

(* The command ends: the feeder, the workers and main do not wait for each *)
(* other in a circle, whatever fails.                                      *)
Terminates == <>(pc = "exit")

(* README, Behavior: "When a file is skipped for size, any stale adjacent  *)
(* .gz output from an earlier run is removed."  processCandidate returns   *)
(* skipped-bigger without looking at the output.                           *)
StaleOutputRemoved ==
    pc = "exit" /\ exit = 0 =>
        \A n \in 1..Len(collected) :
            collected[n].status = "skipped-bigger" => fs[Output(collected[n].source)] = None

=============================================================================
