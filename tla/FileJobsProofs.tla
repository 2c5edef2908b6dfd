---------------------------- MODULE FileJobsProofs ----------------------------
(***************************************************************************)
(* Proofs about the files a run works on, for any command line, any files, *)
(* any number of workers, and a killed run in between.  The invariant is   *)
(* in parts that need each other: Phases says what has ended when, Tracked *)
(* where each file handed out is, Truthful that results say what is on     *)
(* disk, Counted that the summary counts each result once, Searched that   *)
(* no candidate is passed over, and Replayable that what a killed run left *)
(* leads a later one to the same outcome.                                  *)
(***************************************************************************)
EXTENDS FileJobs, FiniteSetTheorems, SequenceTheorems, TLAPS

(* The types of the parts of a command line.                               *)
LEMMA CommandFields ==
    ASSUME cmd \in Commands
    PROVE  /\ cmd.inputs \in Seq(Sources \cup Dirs)
           /\ cmd.jobsSet \in BOOLEAN /\ cmd.jobs \in Int /\ cmd.workersPerFile \in Int
           /\ cmd.help \in BOOLEAN /\ cmd.options \in BOOLEAN
           /\ cmd.allowGzipInputs \in BOOLEAN /\ cmd.verbose \in BOOLEAN
           /\ MaxCrashes(cmd) \in Nat /\ MaxLost(cmd) \in Nat
  BY CommandsAssumption

(* The workers are finitely many numbers.                                  *)
LEMMA WorkersFinite ==
    /\ Cardinality(Paths) \in Nat
    /\ IsFiniteSet(Workers)
    /\ \A w \in Workers : w \in Nat
<1>1. Cardinality(Paths) \in Nat
  BY PathsAssumption, FS_CardinalityType
<1>2. IsFiniteSet(Workers)
  BY <1>1, FS_Interval DEF Workers
<1> QED BY <1>1, <1>2 DEF Workers

(* What a worker may be doing.                                             *)
GoodJob(j) ==
    /\ j \in WorkerJobs
    /\ j.stage \notin {"off", "recv"} => j.source \in Paths
    /\ j.stage \in {"open", "write"} => j.data \in Contents

(* A job put together from its parts has them.                             *)
LEMMA NewJob ==
    ASSUME NEW st \in Stages, NEW p \in Paths \cup {NoPath}, NEW s \in Statuses,
           NEW d \in Contents \cup {None}
    PROVE  /\ Job(st, p, s, d) \in WorkerJobs
           /\ Job(st, p, s, d).stage = st /\ Job(st, p, s, d).source = p
           /\ Job(st, p, s, d).status = s /\ Job(st, p, s, d).data = d
  BY DEF Job, WorkerJobs

(* The types of the parts of a job.                                        *)
LEMMA OldJob ==
    ASSUME NEW j \in WorkerJobs
    PROVE  /\ j.stage \in Stages /\ j.source \in Paths \cup {NoPath}
           /\ j.status \in Statuses /\ j.data \in Contents \cup {None}
  BY DEF WorkerJobs

(* A job moved to another stage keeps the rest.                            *)
LEMMA NextStage ==
    ASSUME NEW j \in WorkerJobs, NEW st \in Stages
    PROVE  /\ [j EXCEPT !.stage = st] \in WorkerJobs
           /\ [j EXCEPT !.stage = st].stage = st
           /\ [j EXCEPT !.stage = st].source = j.source
           /\ [j EXCEPT !.stage = st].status = j.status
           /\ [j EXCEPT !.stage = st].data = j.data
  BY DEF WorkerJobs

(* What a worker has that does not run, and one that has just started.     *)
LEMMA IdleJob ==
    /\ Idle \in WorkerJobs /\ Idle.stage = "off"
    /\ [Idle EXCEPT !.stage = "recv"] \in WorkerJobs
    /\ [Idle EXCEPT !.stage = "recv"].stage = "recv"
<1>1. Idle = Job("off", NoPath, "error", None)
  BY DEF Idle, Job
<1>2. Idle \in WorkerJobs /\ Idle.stage = "off"
  BY <1>1, NewJob DEF Stages, Statuses
<1> QED BY <1>2, NextStage DEF Stages

(* The types hold when the program starts.                                 *)
LEMMA TypeInit == Init => TypeOK
<1> SUFFICES ASSUME Init PROVE TypeOK
  OBVIOUS
<1>1. cmd \in Commands /\ fs \in [Paths -> Contents \cup {None}] /\ original \in FileSystems
  BY ContentsAssumption DEF Init
<1>2. MaxCrashes(cmd) \in Nat /\ MaxLost(cmd) \in Nat
  BY <1>1, CommandFields
<1>4. job \in [Workers -> WorkerJobs] /\ \A w \in Workers : job[w].stage = "off"
  BY IdleJob DEF Init
<1>5. counts \in [Statuses -> Nat] /\ left \subseteq 1..Len(All)
  BY DEF Init, NoCounts
<1> QED BY <1>1, <1>2, <1>4, <1>5 DEF Init, TypeOK

(* A file that is taken or filtered.                                       *)
LEMMA TakeTypes ==
    ASSUME TypeOK, NEW root, NEW p \in Sources, Take(root, p)
    PROVE  /\ found' \in Seq(Sources) /\ filtered' \in Seq(Results)
           /\ Len(filtered) <= Len(filtered')
<1>1. Result(p, "skipped-filtered", None) \in Results
  BY DEF Result, Results, Statuses, Sources
<1>2. found \in Seq(Sources) /\ filtered \in Seq(Results)
  BY DEF TypeOK
<1>3. /\ Append(found, p) \in Seq(Sources)
      /\ Append(filtered, Result(p, "skipped-filtered", None)) \in Seq(Results)
      /\ Len(Append(filtered, Result(p, "skipped-filtered", None))) = Len(filtered) + 1
      /\ Len(filtered) \in Nat
  BY <1>1, <1>2, AppendProperties, LenProperties
<1> DEFINE f == Append(filtered, Result(p, "skipped-filtered", None))
<1>4. /\ found' = found \/ found' = Append(found, p)
      /\ filtered' = filtered \/ filtered' = f
  BY DEF Take
<1> HIDE DEF f
<1>5. f \in Seq(Results) /\ Len(f) = Len(filtered) + 1
  BY <1>3 DEF f
<1>6. found' \in Seq(Sources)
  BY <1>2, <1>3, <1>4
<1>7. filtered' \in Seq(Results) /\ Len(filtered) <= Len(filtered')
  BY <1>2, <1>3, <1>4, <1>5
<1> QED BY <1>6, <1>7

(* The results that are reported only become more.                         *)
LEMMA LeftInAll ==
    ASSUME TypeOK, filtered' \in Seq(Results), collected' \in Seq(Results),
           Len(filtered) <= Len(filtered'), Len(collected) <= Len(collected'),
           left' \subseteq left
    PROVE  left' \subseteq 1..Len(All')
<1>1. Len(All) = Len(filtered) + Len(collected) /\ Len(All') = Len(filtered') + Len(collected')
  BY DEF All, TypeOK
<1> QED BY <1>1 DEF TypeOK

(* Results on their way to main.                                           *)
LEMMA Moved ==
    ASSUME NEW S, NEW c \in Seq(S), NEW r \in Seq(S), r # <<>>
    PROVE  /\ Append(c, Head(r)) \in Seq(S) /\ Tail(r) \in Seq(S)
           /\ Len(Append(c, Head(r))) = Len(c) + 1 /\ Len(Tail(r)) = Len(r) - 1
  OBVIOUS

(* Every step keeps the types: the work of one worker is put together from *)
(* what the others and the search left.                                    *)
LEMMA TypeStep == TypeOK /\ [Next]_vars => TypeOK'
<1> SUFFICES ASSUME TypeOK, [Next]_vars PROVE TypeOK'
  OBVIOUS
<1> USE DEF cli, search, chans, report, env
<1>0. cmd \in Commands /\ GOMAXPROCS \in Nat /\ MaxCrashes(cmd) \in Nat /\ MaxLost(cmd) \in Nat
      /\ cmd.inputs \in Seq(Sources \cup Dirs)
  BY CommandFields, CommandsAssumption DEF TypeOK
<1>1. CASE ParseArgs
  BY <1>1 DEF ParseArgs, Exit, TypeOK, All
<1>2. CASE DiscoverFile
  <2>1. cmd.inputs[input] \in Sources \cup Dirs
    BY <1>2, <1>0 DEF DiscoverFile, Searching, TypeOK
  <2>2. cmd.inputs[input] \in Sources
    BY <2>1, <1>2, PathsAssumption DEF DiscoverFile
  <2>3. /\ found' \in Seq(Sources) /\ filtered' \in Seq(Results)
        /\ Len(filtered) <= Len(filtered')
    BY <2>2, <1>2, TakeTypes DEF DiscoverFile
  <2>4. left' \subseteq 1..Len(All')
    BY <2>3, <1>2, LeftInAll DEF DiscoverFile, TypeOK
  <2> QED BY <2>3, <2>4, <1>2 DEF DiscoverFile, TypeOK
<1>3. CASE WalkFile
  <2> DEFINE p == Listing(cmd.inputs[input])[walked + 1]
  <2>1. p \in Sources
    BY SMTT(30), <1>3, PathsAssumption DEF WalkFile, TypeOK
  <2>2. /\ found' \in Seq(Sources) /\ filtered' \in Seq(Results)
        /\ Len(filtered) <= Len(filtered')
    <3>1. CASE fs[p] = None
      BY <3>1, <1>3 DEF WalkFile, TypeOK
    <3>2. CASE Take(cmd.inputs[input], p)
      BY <3>2, <2>1, TakeTypes
    <3> QED BY <3>1, <3>2, <1>3 DEF WalkFile
  <2>3. left' \subseteq 1..Len(All')
    BY <2>2, <1>3, LeftInAll DEF WalkFile, TypeOK
  <2> QED BY SMTT(30), <2>2, <2>3, <1>3 DEF WalkFile, TypeOK
<1>4. CASE WalkEnds
  BY <1>4 DEF WalkEnds, TypeOK, All
<1>5. CASE DiscoverFails
  BY <1>5 DEF DiscoverFails, Exit, TypeOK, All
<1>6. CASE StartPool
  <2>1. CASE found = <<>>
    BY <2>1, <1>6 DEF StartPool, TypeOK, All
  <2>2. CASE found # <<>>
    <3> DEFINE started == [w \in Workers |->
                             IF w <= PoolSize THEN [Idle EXCEPT !.stage = "recv"] ELSE Idle]
    <3>3. started \in [Workers -> WorkerJobs] /\ \A w \in Workers : started[w].stage \in {"off", "recv"}
      BY IdleJob
    <3>4. job' = started
      BY <2>2, <1>6 DEF StartPool
    <3> HIDE DEF started
    <3> QED BY <3>3, <3>4, <2>2, <1>6 DEF StartPool, TypeOK, All
  <2> QED BY <2>1, <2>2
<1>7. CASE Collect
  <2>1. /\ collected' \in Seq(Results) /\ results' \in Seq(Results)
        /\ Len(collected) <= Len(collected')
    BY <1>7, Moved DEF Collect, TypeOK
  <2>2. left' \subseteq 1..Len(All')
    BY <2>1, <1>7, LeftInAll DEF Collect, TypeOK
  <2> QED BY <2>1, <2>2, <1>7 DEF Collect, TypeOK
<1>8. CASE CollectEnds
  BY <1>8 DEF CollectEnds, TypeOK, All
<1>9. CASE EmitSummary
  BY <1>9 DEF EmitSummary, Exit, TypeOK, All
<1>10. ASSUME NEW n \in left, EmitNext(n) PROVE TypeOK'
  <2>1. All[n].status \in Statuses
    <3>1. All \in Seq(Results) /\ n \in 1..Len(All)
      BY DEF All, TypeOK
    <3>2. All[n] \in Results
      BY <3>1
    <3> QED BY <3>2 DEF Results
  <2>2. counts' \in [Statuses -> Nat]
    BY <2>1, <1>10 DEF EmitNext, TypeOK
  <2>3. left' \subseteq 1..Len(All')
    <3>1. left' \subseteq left /\ filtered' = filtered /\ collected' = collected
      BY <1>10 DEF EmitNext
    <3> QED BY <3>1, LeftInAll DEF TypeOK
  <2> QED BY SMTT(30), <2>2, <2>3, <1>10 DEF EmitNext, Exit, TypeOK
<1>11. CASE CloseTasks
  BY <1>11 DEF CloseTasks, TypeOK, All
<1>12. CASE CloseResults
  BY <1>12 DEF CloseResults, TypeOK, All
<1>20. ASSUME NEW w \in Workers, Worker(w) PROVE TypeOK'
  <2> DEFINE at == job[w].source
  <2>0. GoodJob(job[w]) /\ job \in [Workers -> WorkerJobs]
    BY DEF TypeOK, GoodJob
  <2>1. PICK j : GoodJob(j) /\ job' = [job EXCEPT ![w] = j]
    <3>1. CASE Receive(w)
      <4>1. found[feeder] \in Paths
        BY <3>1 DEF Receive, TypeOK, Sources
      <4>2. GoodJob(Job("read", found[feeder], "error", None))
        BY <4>1, NewJob DEF GoodJob, Statuses, Stages
      <4> QED BY <4>2, <3>1 DEF Receive
    <3>2. CASE Read(w)
      <4>1. at \in Paths /\ fs[at] \in Contents \cup {None}
        BY <3>2 DEF Read, TypeOK
      <4>2. job' = [job EXCEPT ![w] = Job("send", at, "error", None)]
            \/ /\ fs[at] # None
               /\ \/ job' = [job EXCEPT ![w] = Job("open", at, "error", fs[at])]
                  \/ job' = [job EXCEPT ![w] = Job("send", at, "skipped-bigger", fs[at])]
        BY <3>2 DEF Read
      <4> HIDE DEF at
      <4>3. GoodJob(Job("send", at, "error", None))
        BY <4>1, NewJob DEF GoodJob, Statuses, Stages
      <4>4. fs[at] # None => /\ GoodJob(Job("open", at, "error", fs[at]))
                             /\ GoodJob(Job("send", at, "skipped-bigger", fs[at]))
        BY <4>1, NewJob DEF GoodJob, Statuses, Stages
      <4> QED BY <4>2, <4>3, <4>4
    <3>3. CASE OpenOutput(w)
      <4>1. at \in Paths /\ job[w] \in WorkerJobs /\ job[w].data \in Contents
        BY <3>3, <2>0 DEF OpenOutput, GoodJob
      <4>2. \/ job' = [job EXCEPT ![w] = [job[w] EXCEPT !.stage = "write"]]
            \/ job' = [job EXCEPT ![w] = [job[w] EXCEPT !.stage = "send"]]
        BY <3>3, <2>0 DEF OpenOutput
      <4>3. GoodJob([job[w] EXCEPT !.stage = "write"]) /\ GoodJob([job[w] EXCEPT !.stage = "send"])
        BY <4>1, NextStage DEF GoodJob, Stages
      <4> QED BY <4>2, <4>3
    <3>4. CASE Write(w)
      <4>1. at \in Paths /\ job[w] \in WorkerJobs /\ job[w].data \in Contents
        BY <3>4, <2>0 DEF Write, GoodJob
      <4>2. \/ job' = [job EXCEPT ![w] = Job("send", at, "written", job[w].data)]
            \/ job' = [job EXCEPT ![w] = [job[w] EXCEPT !.stage = "send"]]
        BY <3>4, <2>0 DEF Write
      <4>3. GoodJob(Job("send", at, "written", job[w].data))
        BY <4>1, NewJob DEF GoodJob, Stages, Statuses
      <4>4. GoodJob([job[w] EXCEPT !.stage = "send"])
        BY <4>1, NextStage DEF GoodJob, Stages
      <4> QED BY <4>2, <4>3, <4>4
    <3>5. CASE SendResult(w)
      BY <3>5, IdleJob DEF SendResult, GoodJob
    <3>6. CASE StopWorker(w)
      BY <3>6, IdleJob DEF StopWorker, GoodJob
    <3> QED BY <3>1, <3>2, <3>3, <3>4, <3>5, <3>6, <1>20 DEF Worker
  <2>2. /\ job' \in [Workers -> WorkerJobs]
        /\ \A v \in Workers : GoodJob(job'[v])
    <3>1. j \in WorkerJobs /\ \A v \in Workers : GoodJob(job[v])
      BY <2>1 DEF GoodJob, TypeOK
    <3> QED BY <3>1, <2>0, <2>1
  <2>3. fs' \in [Paths -> Contents \cup {None}]
    <3>1. CASE Write(w)
      <4>1. Gzip(job[w].data) \in Contents
        BY <2>0, <3>1, ContentsAssumption DEF GoodJob, Write
      <4> QED BY <4>1, <3>1 DEF Write, TypeOK
    <3>2. CASE ~Write(w)
      BY <3>2, <1>20, ContentsAssumption
         DEF Worker, Receive, Read, OpenOutput, SendResult, StopWorker, TypeOK
    <3> QED BY <3>1, <3>2
  <2>4. results' \in Seq(Results)
    <3>1. CASE SendResult(w)
      <4>1. Result(at, job[w].status, job[w].data) \in Results
        <5>1. at \in Paths /\ job[w].status \in Statuses /\ job[w].data \in Contents \cup {None}
          BY <2>0, <3>1, OldJob DEF SendResult, GoodJob
        <5> QED BY <5>1 DEF Result, Results
      <4> QED BY <4>1, <3>1 DEF SendResult, TypeOK
    <3>2. CASE ~SendResult(w)
      BY <3>2, <1>20 DEF Worker, Receive, Read, OpenOutput, Write, StopWorker, TypeOK
    <3> QED BY <3>1, <3>2
  <2>5. feeder' \in Nat \ {0}
    BY <1>20 DEF Worker, Receive, Read, OpenOutput, Write, SendResult, StopWorker, TypeOK
  <2>6. UNCHANGED <<cmd, original, pc, exit, input, walked, found, filtered, tasks, open,
                    collected, left, counts, crashes, lost>>
    BY <1>20 DEF Worker, Receive, Read, OpenOutput, Write, SendResult, StopWorker
  <2> QED BY <2>2, <2>3, <2>4, <2>5, <2>6 DEF TypeOK, All, GoodJob
<1>30. ASSUME NEW p \in Paths, Lose(p) PROVE TypeOK'
  BY <1>30, <1>0 DEF Lose, TypeOK, All
<1>31. CASE Crash
  <2>2. job' \in [Workers -> WorkerJobs] /\ \A w \in Workers : job'[w].stage = "off"
    BY IdleJob, <1>31 DEF Crash
  <2>3. counts' \in [Statuses -> Nat]
    BY <1>31 DEF Crash, NoCounts
  <2> QED BY <2>2, <2>3, <1>0, <1>31 DEF Crash, TypeOK, All
<1>32. CASE UNCHANGED vars
  BY <1>32 DEF vars, TypeOK, All
<1> QED
  BY <1>1, <1>2, <1>3, <1>4, <1>5, <1>6, <1>7, <1>8, <1>9, <1>10, <1>11, <1>12, <1>20, <1>30,
     <1>31, <1>32 DEF Next, Main, Feeder, Exited

-----------------------------------------------------------------------------
(* What is true in each phase of the main goroutine.                       *)

Off == \A w \in Workers : job[w].stage = "off"

Finished == pc = "emit" \/ (pc = "exit" /\ exit = 0 /\ ~cmd.help)

Phases ==
    /\ pc = "args" => found = <<>> /\ filtered = <<>> /\ input = 1 /\ walked = 0
    /\ pc \in {"args", "discover"} =>
          feeder = 1 /\ tasks /\ open /\ results = <<>> /\ collected = <<>>
    /\ pc \in {"args", "discover", "collect"} => left = {} /\ counts = NoCounts
    /\ pc \in {"discover", "collect"} \/ Finished => Valid(cmd) /\ ~cmd.help
    /\ pc = "collect" \/ Finished => input > Len(cmd.inputs)
    /\ Finished => feeder > Len(found) /\ results = <<>>
    /\ Finished /\ pc = "exit" => left = {} /\ counts["error"] = 0
    /\ pc # "collect" => Off
    /\ feeder <= Len(found) + 1
    /\ ~tasks => feeder > Len(found)
    /\ ~open => ~tasks /\ Off
    /\ \A w \in Workers : job[w].stage # "off" => w <= PoolSize

(* When the program starts no worker runs and the search has not begun.    *)
LEMMA PhasesInit == Init => Phases
  BY IdleJob DEF Init, Phases, Off, Finished

(* A step of a worker changes its own job, the channels and the files.     *)
LEMMA WorkerStep ==
    ASSUME TypeOK, NEW w \in Workers, Worker(w)
    PROVE  /\ job[w].stage # "off"
           /\ \A v \in Workers : v # w => job'[v] = job[v]
           /\ UNCHANGED <<cmd, original, pc, exit, input, walked, found, filtered, tasks, open,
                          collected, left, counts, crashes, lost>>
  BY DEF Worker, Receive, Read, OpenOutput, Write, SendResult, StopWorker,
         cli, search, chans, report, env, TypeOK

(* Nobody works before the pool is started, or after it has ended.         *)
LEMMA PhasesStep == TypeOK /\ TypeOK' /\ Phases /\ [Next]_vars => Phases'
<1> SUFFICES ASSUME TypeOK, TypeOK', Phases, [Next]_vars PROVE Phases'
  OBVIOUS
<1> USE DEF cli, search, chans, report, env
<1>0. Len(found) \in Nat /\ Len(found') \in Nat
  BY SMTT(30) DEF TypeOK
<1>1. CASE ParseArgs
  BY <1>1 DEF ParseArgs, Exit, Phases, Finished, Off, PoolSize
<1>2. CASE DiscoverFile
  BY <1>0, <1>2 DEF DiscoverFile, Searching, Phases, Finished, Off, PoolSize
<1>3. CASE WalkFile
  BY <1>0, <1>3 DEF WalkFile, Searching, Phases, Finished, Off, PoolSize
<1>4. CASE WalkEnds
  BY <1>4 DEF WalkEnds, Searching, Phases, Finished, Off, PoolSize
<1>5. CASE DiscoverFails
  BY <1>5 DEF DiscoverFails, Searching, Exit, Phases, Finished, Off, PoolSize
<1>6. CASE StartPool
  <2>1. CASE found = <<>>
    BY <2>1, <1>6 DEF StartPool, Phases, Finished, Off, PoolSize
  <2>2. CASE found # <<>>
    <3>1. \A w \in Workers : job'[w].stage # "off" => w <= PoolSize'
      BY <2>2, <1>6, IdleJob DEF StartPool, PoolSize
    <3> QED BY <3>1, <2>2, <1>6 DEF StartPool, Phases, Finished, Off
  <2> QED BY <2>1, <2>2
<1>7. CASE Collect
  BY <1>7 DEF Collect, Phases, Finished, Off, PoolSize
<1>8. CASE CollectEnds
  BY <1>8 DEF CollectEnds, Phases, Finished, Off, PoolSize
<1>9. CASE EmitSummary
  BY <1>9 DEF EmitSummary, Exit, Phases, Finished, Off, PoolSize
<1>10. ASSUME NEW n \in left, EmitNext(n) PROVE Phases'
  BY <1>10 DEF EmitNext, Exit, Phases, Finished, Off, PoolSize
<1>11. CASE CloseTasks
  BY <1>11 DEF CloseTasks, Phases, Finished, Off, PoolSize
<1>12. CASE CloseResults
  BY <1>12 DEF CloseResults, Phases, Finished, Off, PoolSize
<1>20. ASSUME NEW w \in Workers, Worker(w) PROVE Phases'
  <2>1. /\ job[w].stage # "off"
        /\ \A v \in Workers : v # w => job'[v] = job[v]
        /\ UNCHANGED <<cmd, original, pc, exit, input, walked, found, filtered, tasks, open,
                       collected, left, counts, crashes, lost>>
    BY <1>20, WorkerStep
  <2>2. pc = "collect" /\ open
    BY <2>1 DEF Phases, Off
  <2>3. w <= PoolSize /\ PoolSize' = PoolSize
    BY <2>1 DEF Phases, PoolSize
  <2>4. feeder' <= Len(found) + 1 /\ (~tasks => feeder' > Len(found))
    <3>1. \/ feeder' = feeder
          \/ tasks /\ feeder <= Len(found) /\ feeder' = feeder + 1
      BY <1>20 DEF Worker, Receive, Read, OpenOutput, Write, SendResult, StopWorker
    <3>2. feeder \in Nat
      BY DEF TypeOK
    <3>3. feeder <= Len(found) + 1 /\ (~tasks => feeder > Len(found))
      BY DEF Phases
    <3> QED BY <1>0, <3>1, <3>2, <3>3
  <2> QED BY <2>1, <2>2, <2>3, <2>4 DEF Phases, Finished
<1>30. ASSUME NEW p \in Paths, Lose(p) PROVE Phases'
  BY <1>30 DEF Lose, Phases, Finished, Off, PoolSize
<1>31. CASE Crash
  BY <1>31, IdleJob DEF Crash, Phases, Finished, Off, PoolSize
<1>32. CASE UNCHANGED vars
  BY <1>32 DEF vars, Phases, Finished, Off, PoolSize
<1> QED
  BY <1>1, <1>2, <1>3, <1>4, <1>5, <1>6, <1>7, <1>8, <1>9, <1>10, <1>11, <1>12, <1>20, <1>30,
     <1>31, <1>32 DEF Next, Main, Feeder, Exited

-----------------------------------------------------------------------------
(* Every file that was handed out is with one worker or has its result.    *)

Tracked ==
    /\ \A m, n \in 1..Len(found) : found[m] = found[n] => m = n
    /\ \A v, w \in Busy : v # w => job[v].source # job[w].source
    /\ \A w \in Busy, k \in 1..Len(Processed) : Processed[k].source # job[w].source
    /\ \A n \in 1..(feeder - 1) :
          \/ \E w \in Busy : job[w].source = found[n]
          \/ \E k \in 1..Len(Processed) : Processed[k].source = found[n]
    /\ \A w \in Busy : \E n \in 1..(feeder - 1) : job[w].source = found[n]
    /\ \A k \in 1..Len(Processed) : \E n \in 1..(feeder - 1) : Processed[k].source = found[n]
    /\ feeder - 1 = Cardinality(Busy) + Len(Processed)

(* No file is handed out when the program starts.                          *)
LEMMA TrackedInit == Init => Tracked
<1> SUFFICES ASSUME Init PROVE Tracked
  OBVIOUS
<1>1. Busy = {} /\ Processed = <<>> /\ feeder = 1 /\ found = <<>>
  BY IdleJob DEF Init, Busy, Processed
<1> QED BY <1>1, FS_EmptySet DEF Tracked

(* The types of what is counted and passed on.                             *)
LEMMA ProcessedType ==
    ASSUME TypeOK
    PROVE  /\ Processed \in Seq(Results) /\ Len(Processed) = Len(collected) + Len(results)
           /\ Len(Processed) \in Nat /\ IsFiniteSet(Busy) /\ Cardinality(Busy) \in Nat
           /\ Busy \subseteq Workers
<1>1. Busy \subseteq Workers
  BY DEF Busy
<1>2. IsFiniteSet(Busy) /\ Cardinality(Busy) \in Nat
  BY <1>1, WorkersFinite, FS_Subset, FS_CardinalityType
<1> QED BY <1>1, <1>2 DEF Processed, TypeOK

(* A step that hands out nothing and finishes nothing.                     *)
LEMMA TrackedStill ==
    ASSUME Tracked, Busy' = Busy, Processed' = Processed, feeder' = feeder,
           \A w \in Busy : job'[w].source = job[w].source,
           found' = found
    PROVE  Tracked'
  BY DEF Tracked

(* Before the pool is started, or after a kill.                            *)
LEMMA TrackedFresh ==
    ASSUME Busy' = {}, Processed' = <<>>, feeder' = 1,
           \A m, n \in 1..Len(found') : found'[m] = found'[n] => m = n
    PROVE  Tracked'
  BY FS_EmptySet DEF Tracked

(* What is taken is new.                                                   *)
LEMMA TakeNew ==
    ASSUME TypeOK, NEW root, NEW p \in Sources, Take(root, p),
           \A m, n \in 1..Len(found) : found[m] = found[n] => m = n
    PROVE  \A m, n \in 1..Len(found') : found'[m] = found'[n] => m = n
<1>0. found \in Seq(Sources)
  BY DEF TypeOK
<1>1. CASE found' = found
  BY <1>1
<1>2. CASE found' = Append(found, p) /\ New(p)
  <2>1. \A n \in 1..Len(found) : found[n] # p
    BY <1>2, <1>0 DEF New, Range
  <2>2. /\ Len(found') = Len(found) + 1 /\ found'[Len(found) + 1] = p
        /\ \A n \in 1..Len(found) : found'[n] = found[n]
        /\ Len(found) \in Nat
    BY <1>2, <1>0
  <2> QED BY <2>1, <2>2
<1> QED BY <1>1, <1>2 DEF Take

(* The feeder hands out the next candidate, which nobody had.              *)
LEMMA TrackedReceive ==
    ASSUME TypeOK, TypeOK', Phases, Tracked, NEW w \in Workers, Receive(w)
    PROVE  Tracked'
<1> DEFINE p == found[feeder]
<1>1. /\ feeder \in 1..Len(found) /\ feeder' = feeder + 1 /\ found' = found
      /\ w \notin Busy /\ w \in Workers
  BY DEF Receive, TypeOK, Busy, search
<1>2. job'[w] = Job("read", p, "error", None) /\ \A v \in Workers : v # w => job'[v] = job[v]
  BY DEF Receive, TypeOK
<1>3. job'[w].stage = "read" /\ job'[w].source = p
  BY <1>2 DEF Job
<1>4. Busy' = Busy \cup {w} /\ \A v \in Busy : v # w /\ job'[v] = job[v]
  BY <1>1, <1>2, <1>3 DEF Busy
<1>5. Processed' = Processed
  BY DEF Receive, chans, Processed
<1>6. Cardinality(Busy') = Cardinality(Busy) + 1
  BY <1>1, <1>4, ProcessedType, FS_AddElement
<1>7. /\ \A v \in Busy : job[v].source # p
      /\ \A k \in 1..Len(Processed) : Processed[k].source # p
  BY <1>1 DEF Tracked
<1> HIDE DEF p
<1>8. \A u, v \in Busy' : u # v => job'[u].source # job'[v].source
  BY <1>3, <1>4, <1>7 DEF Tracked
<1>9. \A v \in Busy', k \in 1..Len(Processed') : Processed'[k].source # job'[v].source
  BY <1>3, <1>4, <1>5, <1>7 DEF Tracked
<1>10. ASSUME NEW n \in 1..(feeder' - 1)
       PROVE  \/ \E v \in Busy' : job'[v].source = found'[n]
              \/ \E k \in 1..Len(Processed') : Processed'[k].source = found'[n]
  <2>1. CASE n = feeder
    BY <2>1, <1>1, <1>3, <1>4 DEF p
  <2>2. CASE \E v \in Busy : job[v].source = found[n]
    BY <2>2, <1>1, <1>4
  <2>3. CASE \E k \in 1..Len(Processed) : Processed[k].source = found[n]
    BY <2>3, <1>1, <1>5
  <2>4. n = feeder \/ n \in 1..(feeder - 1)
    BY <1>1
  <2> QED BY <2>1, <2>2, <2>3, <2>4 DEF Tracked
<1>11. \A v \in Busy' : \E n \in 1..(feeder' - 1) : job'[v].source = found'[n]
  BY <1>1, <1>3, <1>4 DEF Tracked, p
<1>12. ASSUME NEW k \in 1..Len(Processed')
       PROVE  \E n \in 1..(feeder' - 1) : Processed'[k].source = found'[n]
  <2>1. k \in 1..Len(Processed)
    BY <1>5
  <2>2. PICK n \in 1..(feeder - 1) : Processed[k].source = found[n]
    BY <2>1 DEF Tracked
  <2>3. n \in 1..(feeder' - 1)
    BY <1>1
  <2> QED BY <1>1, <1>5, <2>2, <2>3
<1>13. feeder' - 1 = Cardinality(Busy') + Len(Processed')
  <2>1. Cardinality(Busy) \in Nat /\ Len(Processed) \in Nat /\ feeder \in Nat
    BY ProcessedType DEF TypeOK
  <2>2. feeder - 1 = Cardinality(Busy) + Len(Processed)
    BY DEF Tracked
  <2> QED BY <2>1, <2>2, <1>1, <1>5, <1>6
<1> QED BY ZenonT(60), <1>1, <1>8, <1>9, <1>10, <1>11, <1>12, <1>13 DEF Tracked

(* A result sent is the last one of those that are out.                    *)
LEMMA ConcatAppend ==
    ASSUME NEW S, NEW c \in Seq(S), NEW t \in Seq(S), NEW x \in S
    PROVE  /\ Len(c \o Append(t, x)) = Len(c \o t) + 1
           /\ \A k \in 1..Len(c \o t) : (c \o Append(t, x))[k] = (c \o t)[k]
           /\ (c \o Append(t, x))[Len(c \o t) + 1] = x
  BY ConcatProperties, AppendProperties

(* A worker's result goes into the channel.                                *)
LEMMA SentLast ==
    ASSUME TypeOK, NEW w \in Workers, SendResult(w)
    PROVE  /\ Len(Processed') = Len(Processed) + 1
           /\ \A k \in 1..Len(Processed) : Processed'[k] = Processed[k]
           /\ Processed'[Len(Processed) + 1] = Result(job[w].source, job[w].status, job[w].data)
<1> DEFINE r == Result(job[w].source, job[w].status, job[w].data)
<1>1. results' = Append(results, r) /\ collected' = collected
  BY DEF SendResult
<1>2. r \in Results
  <2>1. job[w].source \in Paths /\ job[w].status \in Statuses /\ job[w].data \in Contents \cup {None}
    BY OldJob DEF TypeOK, SendResult
  <2> QED BY <2>1 DEF Result, Results
<1> HIDE DEF r
<1>3. collected \in Seq(Results) /\ results \in Seq(Results)
  BY DEF TypeOK
<1>4. /\ Len(Processed') = Len(Processed) + 1
      /\ \A k \in 1..Len(Processed) : Processed'[k] = Processed[k]
      /\ Processed'[Len(Processed) + 1] = r
  BY <1>1, <1>2, <1>3, ConcatAppend DEF Processed
<1> QED BY <1>4 DEF r

(* A file whose result is sent is no longer with its worker, but among the *)
(* results: it is not lost and not there twice.                            *)
LEMMA TrackedSend ==
    ASSUME TypeOK, TypeOK', Phases, Tracked, NEW w \in Workers, SendResult(w)
    PROVE  Tracked'
<1> DEFINE r == Result(job[w].source, job[w].status, job[w].data)
<1>1. /\ w \in Busy /\ feeder' = feeder /\ found' = found
  BY DEF SendResult, Busy, search
<1>2. job'[w].stage = "recv" /\ \A v \in Workers : v # w => job'[v] = job[v]
  BY IdleJob DEF SendResult, TypeOK
<1>3. Busy' = Busy \ {w} /\ \A v \in Busy' : v # w /\ v \in Busy /\ job'[v] = job[v]
  BY <1>2 DEF Busy
<1>4. /\ Len(Processed') = Len(Processed) + 1
      /\ \A k \in 1..Len(Processed) : Processed'[k] = Processed[k]
      /\ Processed'[Len(Processed) + 1] = r
  BY SentLast
<1>5. r.source = job[w].source
  BY DEF Result
<1>6. Cardinality(Busy') = Cardinality(Busy) - 1
  BY <1>1, <1>3, ProcessedType, FS_RemoveElement
<1> HIDE DEF r
<1>7. Len(Processed) \in Nat
  BY ProcessedType
<1>8. \A u, v \in Busy' : u # v => job'[u].source # job'[v].source
  BY <1>3 DEF Tracked
<1>9. \A v \in Busy', k \in 1..Len(Processed') : Processed'[k].source # job'[v].source
  <2>1. ASSUME NEW v \in Busy', NEW k \in 1..Len(Processed')
        PROVE  Processed'[k].source # job'[v].source
    <3>1. v \in Busy /\ v # w /\ job'[v] = job[v]
      BY <1>3
    <3>2. CASE k \in 1..Len(Processed)
      BY <3>1, <3>2, <1>4 DEF Tracked
    <3>3. CASE k = Len(Processed) + 1
      BY <3>1, <3>3, <1>1, <1>4, <1>5 DEF Tracked
    <3> QED BY <3>2, <3>3, <1>4, <1>7
  <2> QED BY <2>1
<1>10. ASSUME NEW n \in 1..(feeder' - 1)
       PROVE  \/ \E v \in Busy' : job'[v].source = found'[n]
              \/ \E k \in 1..Len(Processed') : Processed'[k].source = found'[n]
  <2>1. CASE \E k \in 1..Len(Processed) : Processed[k].source = found[n]
    BY <2>1, <1>1, <1>4, <1>7
  <2>2. CASE \E v \in Busy : v # w /\ job[v].source = found[n]
    BY <2>2, <1>1, <1>3, <1>2
  <2>3. CASE job[w].source = found[n]
    BY <2>3, <1>1, <1>4, <1>5, <1>7
  <2> QED BY <2>1, <2>2, <2>3, <1>1 DEF Tracked
<1>11. \A v \in Busy' : \E n \in 1..(feeder' - 1) : job'[v].source = found'[n]
  BY <1>1, <1>3 DEF Tracked
<1>12. \A k \in 1..Len(Processed') : \E n \in 1..(feeder' - 1) : Processed'[k].source = found'[n]
  BY <1>1, <1>4, <1>5, <1>7 DEF Tracked
<1>13. feeder' - 1 = Cardinality(Busy') + Len(Processed')
  <2>1. Cardinality(Busy) \in Nat /\ Len(Processed) \in Nat /\ feeder \in Nat
    BY ProcessedType DEF TypeOK
  <2>2. feeder - 1 = Cardinality(Busy) + Len(Processed)
    BY DEF Tracked
  <2> QED BY <2>1, <2>2, <1>1, <1>4, <1>6
<1> QED BY <1>1, <1>8, <1>9, <1>10, <1>11, <1>12, <1>13 DEF Tracked

(* Every step keeps track of every file handed out.                        *)
LEMMA TrackedStep ==
    TypeOK /\ TypeOK' /\ Phases /\ Phases' /\ Tracked /\ [Next]_vars => Tracked'
<1> SUFFICES ASSUME TypeOK, TypeOK', Phases, Phases', Tracked, [Next]_vars PROVE Tracked'
  OBVIOUS
<1> USE DEF cli, search, chans, report, env
<1>1. ASSUME UNCHANGED <<found, feeder, job, results, collected>> PROVE Tracked'
  BY <1>1, TrackedStill DEF Busy, Processed
<1>2. ASSUME pc = "discover", UNCHANGED <<feeder, job, results, collected>>,
             \A m, n \in 1..Len(found') : found'[m] = found'[n] => m = n
      PROVE  Tracked'
  <2>1. Busy' = {} /\ Processed' = <<>> /\ feeder' = 1
    BY <1>2 DEF Phases, Off, Busy, Processed
  <2> QED BY <2>1, <1>2, TrackedFresh
<1>3. ASSUME NEW root, NEW p \in Sources, Take(root, p)
      PROVE  \A m, n \in 1..Len(found') : found'[m] = found'[n] => m = n
  BY <1>3, TakeNew DEF Tracked
<1>4. CASE DiscoverFile
  <2>1. cmd.inputs[input] \in Sources
    <3>1. cmd.inputs[input] \in Sources \cup Dirs
      BY SMTT(30), <1>4, CommandFields DEF DiscoverFile, Searching, TypeOK
    <3> QED BY <3>1, <1>4, PathsAssumption DEF DiscoverFile
  <2> QED BY <2>1, <1>2, <1>3, <1>4 DEF DiscoverFile, Searching
<1>5. CASE WalkFile
  <2> DEFINE p == Listing(cmd.inputs[input])[walked + 1]
  <2>1. p \in Sources
    BY SMTT(30), <1>5, PathsAssumption DEF WalkFile, TypeOK
  <2>2. found' = found \/ Take(cmd.inputs[input], p)
    BY <1>5 DEF WalkFile
  <2>3. \A m, n \in 1..Len(found') : found'[m] = found'[n] => m = n
    BY <2>1, <2>2, <1>3 DEF Tracked
  <2> QED BY <2>3, <1>2, <1>5 DEF WalkFile, Searching
<1>6. CASE StartPool
  <2>1. Busy = {} /\ Busy' = {}
    BY <1>6, IdleJob DEF StartPool, Busy, Phases, Off
  <2> QED BY <2>1, <1>6, TrackedStill DEF StartPool, Processed
<1>7. CASE Collect
  <2>1. Processed' = Processed
    <3>1. /\ collected \in Seq(Results) /\ results \in Seq(Results) /\ results # <<>>
          /\ collected' = Append(collected, Head(results)) /\ results' = Tail(results)
      BY <1>7 DEF Collect, TypeOK
    <3> QED BY <3>1 DEF Processed
  <2> QED BY <2>1, <1>7, TrackedStill DEF Collect, Busy
<1>10. ASSUME NEW n \in left, EmitNext(n) PROVE Tracked'
  BY <1>10, <1>1 DEF EmitNext
<1>20. ASSUME NEW w \in Workers, Worker(w) PROVE Tracked'
  <2>1. ASSUME UNCHANGED <<found, feeder, results, collected>>, job'[w].source = job[w].source,
               w \in Busy <=> w \in Busy', \A v \in Workers : v # w => job'[v] = job[v]
        PROVE  Tracked'
    <3>1. Busy' = Busy /\ \A v \in Busy : job'[v].source = job[v].source
      BY <2>1 DEF Busy
    <3> QED BY <3>1, <2>1, TrackedStill DEF Processed
  <2>2. \A v \in Workers : v # w => job'[v] = job[v]
    BY <1>20, WorkerStep
  <2>3. CASE Receive(w)
    BY <2>3, TrackedReceive
  <2>4. CASE Read(w)
    <3>1. job'[w].source = job[w].source /\ w \in Busy /\ w \in Busy'
      BY <2>4 DEF Read, Busy, Job, TypeOK
    <3> QED BY <3>1, <2>1, <2>2, <2>4 DEF Read
  <2>5. CASE OpenOutput(w)
    <3>1. job'[w].source = job[w].source /\ w \in Busy /\ w \in Busy'
      BY <2>5 DEF OpenOutput, Busy, WorkerJobs, TypeOK
    <3> QED BY <3>1, <2>1, <2>2, <2>5 DEF OpenOutput
  <2>6. CASE Write(w)
    <3>1. job'[w].source = job[w].source /\ w \in Busy /\ w \in Busy'
      BY <2>6 DEF Write, Busy, Job, WorkerJobs, TypeOK
    <3> QED BY <3>1, <2>1, <2>2, <2>6 DEF Write
  <2>7. CASE SendResult(w)
    BY <2>7, TrackedSend
  <2>8. CASE StopWorker(w)
    <3>1. Busy' = Busy /\ \A v \in Busy : v # w
      BY <2>2, <2>8, IdleJob DEF StopWorker, Busy, TypeOK
    <3> QED BY <3>1, <2>2, <2>8, TrackedStill DEF StopWorker, Processed, Busy
  <2> QED BY <1>20, <2>3, <2>4, <2>5, <2>6, <2>7, <2>8 DEF Worker
<1>31. CASE Crash
  <2>1. Busy' = {} /\ Processed' = <<>> /\ feeder' = 1 /\ found' = <<>>
    BY <1>31, IdleJob DEF Crash, Busy, Processed
  <2> QED BY <2>1, TrackedFresh
<1>40. CASE UNCHANGED vars
  BY <1>40, <1>1 DEF vars
<1>41. CASE ParseArgs \/ WalkEnds \/ DiscoverFails \/ CollectEnds \/ EmitSummary
  BY <1>41, <1>1 DEF ParseArgs, WalkEnds, DiscoverFails, CollectEnds, EmitSummary
<1>42. CASE Feeder \/ \E p \in Paths : Lose(p)
  BY <1>42, <1>1 DEF Feeder, CloseTasks, CloseResults, Lose
<1> QED
  BY <1>4, <1>5, <1>6, <1>7, <1>10, <1>20, <1>31, <1>40, <1>41, <1>42 DEF Next, Main, Exited

-----------------------------------------------------------------------------
(* What a result says is so.                                               *)

Honest(p, status, data) ==
    \/ status = "error"
    \/ status = "written" /\ fs[Output(p)] = Gzip(data)
    \/ status = "skipped-bigger" /\ ~Shrinks(data)

Truthful ==
    /\ \A w \in Workers : job[w].stage \in {"read", "open", "write"} => job[w].status = "error"
    /\ \A w \in Workers :
          job[w].stage = "send" => Honest(job[w].source, job[w].status, job[w].data)
    /\ \A k \in 1..Len(Processed) :
          Honest(Processed[k].source, Processed[k].status, Processed[k].data)
    /\ \A n \in 1..Len(filtered) : filtered[n].status = "skipped-filtered"

(* No result is out when the program starts.                               *)
LEMMA TruthfulInit == Init => Truthful
<1> SUFFICES ASSUME Init PROVE Truthful
  OBVIOUS
<1>1. Processed = <<>> /\ filtered = <<>> /\ \A w \in Workers : job[w].stage = "off"
  BY IdleJob DEF Init, Processed
<1> QED BY <1>1 DEF Truthful

(* The files that workers have, and results are of, have an output.        *)
LEMMA SourcesOfJobs ==
    ASSUME TypeOK, Tracked, Phases
    PROVE  /\ \A w \in Busy : job[w].source \in Sources
           /\ \A k \in 1..Len(Processed) : Processed[k].source \in Sources
<1>1. \A n \in 1..(feeder - 1) : found[n] \in Sources
  BY DEF TypeOK, Phases
<1> QED BY <1>1 DEF Tracked

(* Different files have different outputs, and an output is no file that   *)
(* has one (outputPath appends the suffix).                                *)
LEMMA OutputsDiffer ==
    /\ \A p, q \in Sources : p # q => Output(p) # Output(q)
    /\ \A p \in Sources : Output(p) \in Paths /\ EndsInGz(Output(p))
  BY PathsAssumption DEF Sources

(* A step leaves what was written before alone.                            *)
LEMMA WrittenStays ==
    ASSUME TypeOK, Tracked, Phases, [Next]_vars
    PROVE  /\ \A k \in 1..Len(Processed) :
                 fs'[Output(Processed[k].source)] = fs[Output(Processed[k].source)]
           /\ \A v \in Busy : job[v].stage = "send" =>
                 fs'[Output(job[v].source)] = fs[Output(job[v].source)]
<1>1. CASE fs' = fs
  BY <1>1
<1>2. ASSUME NEW p \in Paths, Lose(p)
      PROVE  \A q \in Sources : fs'[Output(q)] = fs[Output(q)]
  BY <1>2, OutputsDiffer DEF Lose, TypeOK
<1>3. ASSUME NEW w \in Workers, Worker(w), fs' # fs
      PROVE  /\ w \in Busy /\ job[w].stage # "send"
             /\ \A q \in Sources : q # job[w].source => fs'[Output(q)] = fs[Output(q)]
  <2>1. OpenOutput(w) \/ Write(w)
    BY <1>3 DEF Worker, Receive, Read, SendResult, StopWorker
  <2>2. w \in Busy /\ job[w].stage # "send"
    BY <2>1 DEF OpenOutput, Write, Busy
  <2>3. \E c : fs' = [fs EXCEPT ![Output(job[w].source)] = c]
    BY <2>1, <1>3 DEF OpenOutput, Write
  <2>4. job[w].source \in Sources
    BY <2>2, SourcesOfJobs
  <2> QED BY <2>2, <2>3, <2>4, OutputsDiffer DEF TypeOK
<1>4. fs' = fs \/ (\E p \in Paths : Lose(p)) \/ (\E w \in Workers : Worker(w))
  BY DEF Next, Main, Feeder, ParseArgs, DiscoverFile, WalkFile, WalkEnds, DiscoverFails,
         StartPool, Collect, CollectEnds, EmitSummary, EmitNext, CloseTasks, CloseResults,
         Crash, Exited, vars
<1>5. CASE \E p \in Paths : Lose(p)
  BY <1>2, <1>5, SourcesOfJobs
<1>6. CASE fs' # fs /\ \E w \in Workers : Worker(w)
  <2>1. PICK w \in Workers : Worker(w)
    BY <1>6
  <2>2. /\ w \in Busy /\ job[w].stage # "send"
        /\ \A q \in Sources : q # job[w].source => fs'[Output(q)] = fs[Output(q)]
    BY <1>3, <1>6, <2>1
  <2>3. /\ \A k \in 1..Len(Processed) : Processed[k].source # job[w].source
        /\ \A v \in Busy : v # w => job[v].source # job[w].source
    BY <2>2 DEF Tracked
  <2> QED BY <2>2, <2>3, SourcesOfJobs
<1> QED BY <1>1, <1>4, <1>5, <1>6

(* Results stay true while nothing is finished.                            *)
LEMMA TruthfulStill ==
    ASSUME TypeOK, Tracked, Phases, Truthful, [Next]_vars,
           Processed' = Processed \/ Processed' = <<>>,
           \A n \in 1..Len(filtered') : filtered'[n].status = "skipped-filtered",
           \A w \in Workers :
              job'[w].stage \in {"off", "recv"} \/ job'[w] = job[w]
    PROVE  Truthful'
<1>1. \A w \in Workers : job'[w].stage = "send" => w \in Busy /\ job'[w] = job[w]
  BY DEF Busy
<1>2. \A w \in Workers : job'[w].stage \in {"read", "open", "write"} => job'[w].status = "error"
  BY DEF Truthful
<1>3. \A w \in Workers :
         job'[w].stage = "send" => Honest(job[w].source, job[w].status, job[w].data)'
  BY <1>1, WrittenStays DEF Truthful, Honest
<1>4. \A k \in 1..Len(Processed') :
         Honest(Processed[k].source, Processed[k].status, Processed[k].data)'
  BY WrittenStays DEF Truthful, Honest
<1> QED BY <1>2, <1>3, <1>4 DEF Truthful

(* A worker that goes on with its file.                                    *)
LEMMA TruthfulWorker ==
    ASSUME TypeOK, Tracked, Phases, Truthful, [Next]_vars, NEW w \in Workers,
           \A v \in Workers : v # w => job'[v] = job[v],
           Processed' = Processed, filtered' = filtered,
           job'[w].stage \in {"read", "open", "write"} => job'[w].status = "error",
           job'[w].stage = "send" => Honest(job[w].source, job[w].status, job[w].data)'
    PROVE  Truthful'
<1>1. \A v \in Workers : v # w /\ job[v].stage = "send" =>
         Honest(job[v].source, job[v].status, job[v].data)'
  BY WrittenStays DEF Truthful, Honest, Busy
<1>2. \A k \in 1..Len(Processed') :
         Honest(Processed[k].source, Processed[k].status, Processed[k].data)'
  BY WrittenStays DEF Truthful, Honest
<1> QED BY <1>1, <1>2 DEF Truthful

(* A result sent says what its worker found and wrote.                     *)
LEMMA TruthfulSend ==
    ASSUME TypeOK, Tracked, Phases, Truthful, NEW w \in Workers, SendResult(w)
    PROVE  Truthful'
<1> DEFINE r == Result(job[w].source, job[w].status, job[w].data)
<1>1. fs' = fs /\ filtered' = filtered
  BY DEF SendResult, search
<1>2. job'[w].stage = "recv" /\ \A v \in Workers : v # w => job'[v] = job[v]
  BY IdleJob DEF SendResult, TypeOK
<1>3. /\ Len(Processed') = Len(Processed) + 1
      /\ \A k \in 1..Len(Processed) : Processed'[k] = Processed[k]
      /\ Processed'[Len(Processed) + 1] = r
  BY SentLast
<1>4. Honest(r.source, r.status, r.data)
  BY DEF SendResult, Truthful, Result
<1> HIDE DEF r
<1>5. ASSUME NEW k \in 1..Len(Processed')
      PROVE  Honest(Processed[k].source, Processed[k].status, Processed[k].data)'
  <2>1. CASE k \in 1..Len(Processed)
    BY <2>1, <1>1, <1>3 DEF Truthful, Honest
  <2>2. CASE k = Len(Processed) + 1
    BY <2>2, <1>1, <1>3, <1>4 DEF Honest
  <2> QED BY <2>1, <2>2, <1>3, ProcessedType
<1>6. \A v \in Workers : job'[v].stage = "send" =>
         Honest(job[v].source, job[v].status, job[v].data)'
  BY <1>1, <1>2 DEF Truthful, Honest
<1> QED BY <1>1, <1>2, <1>5, <1>6 DEF Truthful

(* What is filtered is reported as that.                                   *)
LEMMA TakeFiltered ==
    ASSUME TypeOK, NEW root, NEW p \in Sources, Take(root, p), Truthful
    PROVE  \A n \in 1..Len(filtered') : filtered'[n].status = "skipped-filtered"
<1> DEFINE r == Result(p, "skipped-filtered", None)
<1>1. r \in Results /\ r.status = "skipped-filtered"
  BY DEF Result, Results, Statuses, Sources
<1>2. filtered' = filtered \/ filtered' = Append(filtered, r)
  BY DEF Take
<1>3. filtered \in Seq(Results) /\ \A n \in 1..Len(filtered) : filtered[n].status = "skipped-filtered"
  BY DEF TypeOK, Truthful
<1> HIDE DEF r
<1>4. CASE filtered' = Append(filtered, r)
  BY <1>1, <1>3, <1>4
<1> QED BY <1>2, <1>3, <1>4

(* Every step keeps the results true: no other worker writes the output of *)
(* a file whose result is out.                                             *)
LEMMA TruthfulStep ==
    TypeOK /\ TypeOK' /\ Phases /\ Tracked /\ Truthful /\ [Next]_vars => Truthful'
<1> SUFFICES ASSUME TypeOK, TypeOK', Phases, Tracked, Truthful, [Next]_vars PROVE Truthful'
  OBVIOUS
<1> USE DEF cli, search, chans, report, env
<1>0. \A n \in 1..Len(filtered) : filtered[n].status = "skipped-filtered"
  BY DEF Truthful
<1>1. ASSUME UNCHANGED <<filtered, job, results, collected>> PROVE Truthful'
  BY <1>0, <1>1, TruthfulStill DEF Processed
<1>2. ASSUME NEW root, NEW p \in Sources, Take(root, p), UNCHANGED <<job, results, collected>>
      PROVE  Truthful'
  BY <1>2, TakeFiltered, TruthfulStill DEF Processed
<1>4. CASE DiscoverFile
  <2>1. cmd.inputs[input] \in Sources
    <3>1. cmd.inputs[input] \in Sources \cup Dirs
      BY SMTT(30), <1>4, CommandFields DEF DiscoverFile, Searching, TypeOK
    <3> QED BY <3>1, <1>4, PathsAssumption DEF DiscoverFile
  <2> QED BY <2>1, <1>2, <1>4 DEF DiscoverFile
<1>5. CASE WalkFile
  <2> DEFINE p == Listing(cmd.inputs[input])[walked + 1]
  <2>1. p \in Sources
    BY SMTT(30), <1>5, PathsAssumption DEF WalkFile, TypeOK
  <2>2. UNCHANGED filtered \/ Take(cmd.inputs[input], p)
    BY <1>5 DEF WalkFile
  <2>3. UNCHANGED <<job, results, collected>>
    BY <1>5 DEF WalkFile
  <2> HIDE DEF p
  <2> QED BY <2>1, <2>2, <2>3, <1>1, <1>2
<1>6. CASE StartPool
  <2>1. \A w \in Workers : job'[w].stage \in {"off", "recv"} \/ job'[w] = job[w]
    BY <1>6, IdleJob DEF StartPool
  <2> QED BY <2>1, <1>0, <1>6, TruthfulStill DEF StartPool, Processed
<1>7. CASE Collect
  <2>1. Processed' = Processed
    <3>1. /\ collected \in Seq(Results) /\ results \in Seq(Results) /\ results # <<>>
          /\ collected' = Append(collected, Head(results)) /\ results' = Tail(results)
      BY <1>7 DEF Collect, TypeOK
    <3> QED BY <3>1 DEF Processed
  <2> QED BY <2>1, <1>0, <1>7, TruthfulStill DEF Collect
<1>10. ASSUME NEW n \in left, EmitNext(n) PROVE Truthful'
  BY <1>10, <1>1 DEF EmitNext
<1>20. ASSUME NEW w \in Workers, Worker(w) PROVE Truthful'
  <2>1. \A v \in Workers : v # w => job'[v] = job[v]
    BY <1>20, WorkerStep
  <2>2. CASE Receive(w)
    <3>1. job'[w].stage = "read" /\ job'[w].status = "error" /\ Processed' = Processed
      BY <2>2 DEF Receive, Job, TypeOK, Processed
    <3> QED BY <3>1, <2>1, <2>2, TruthfulWorker DEF Receive
  <2>3. CASE Read(w)
    <3> DEFINE j == job'[w]
               at == job[w].source
    <3>1. \/ j = Job("send", at, "error", None)
          \/ Shrinks(fs[at]) /\ j = Job("open", at, "error", fs[at])
          \/ ~Shrinks(fs[at]) /\ j = Job("send", at, "skipped-bigger", fs[at])
      BY <2>3 DEF Read, TypeOK
    <3>2. /\ j.stage \in {"read", "open", "write"} => j.status = "error"
          /\ j.stage = "send" => j.status = "error" \/ (j.status = "skipped-bigger" /\ ~Shrinks(j.data))
      BY <3>1 DEF Job
    <3>3. Processed' = Processed /\ filtered' = filtered
      BY <2>3 DEF Read, Processed
    <3>4. j.stage = "send" => Honest(job[w].source, job[w].status, job[w].data)'
      BY <3>2 DEF Honest
    <3> QED BY <3>2, <3>3, <3>4, <2>1, TruthfulWorker
  <2>4. CASE OpenOutput(w)
    <3>1. job'[w].status = "error" /\ Processed' = Processed /\ filtered' = filtered
      BY <2>4 DEF OpenOutput, TypeOK, WorkerJobs, Truthful, Processed
    <3> QED BY <3>1, <2>1, TruthfulWorker DEF Honest
  <2>5. CASE Write(w)
    <3> DEFINE j == job'[w]
               at == job[w].source
    <3>1. Processed' = Processed /\ filtered' = filtered
      BY <2>5 DEF Write, Processed
    <3>2. at \in Sources /\ w \in Busy
      BY <2>5, SourcesOfJobs DEF Write, Busy
    <3>3. \/ /\ j = Job("send", at, "written", job[w].data)
             /\ fs'[Output(at)] = Gzip(job[w].data)
          \/ j.status = "error" /\ j.stage = "send"
      BY <2>5, <3>2, OutputsDiffer DEF Write, TypeOK, WorkerJobs, Truthful
    <3>4. j.stage = "send" /\ Honest(job[w].source, job[w].status, job[w].data)'
      BY <3>3 DEF Job, Honest
    <3> QED BY <3>1, <3>4, <2>1, TruthfulWorker
  <2>6. CASE SendResult(w)
    BY <2>6, TruthfulSend
  <2>7. CASE StopWorker(w)
    <3>1. \A v \in Workers : job'[v].stage \in {"off", "recv"} \/ job'[v] = job[v]
      BY <2>1, <2>7, IdleJob DEF StopWorker, TypeOK
    <3> QED BY <3>1, <1>0, <2>7, TruthfulStill DEF StopWorker, Processed
  <2> QED BY <1>20, <2>2, <2>3, <2>4, <2>5, <2>6, <2>7 DEF Worker
<1>31. CASE Crash
  <2>1. Processed' = <<>> /\ filtered' = <<>> /\ \A w \in Workers : job'[w].stage = "off"
    BY <1>31, IdleJob DEF Crash, Processed
  <2> QED BY <2>1, TruthfulStill
<1>40. CASE UNCHANGED vars
  BY <1>40, <1>1 DEF vars
<1>41. CASE ParseArgs \/ WalkEnds \/ DiscoverFails \/ CollectEnds \/ EmitSummary
  BY <1>41, <1>1 DEF ParseArgs, WalkEnds, DiscoverFails, CollectEnds, EmitSummary
<1>42. CASE Feeder \/ \E p \in Paths : Lose(p)
  BY <1>42, <1>1 DEF Feeder, CloseTasks, CloseResults, Lose
<1> QED
  BY <1>4, <1>5, <1>6, <1>7, <1>10, <1>20, <1>31, <1>40, <1>41, <1>42 DEF Next, Main, Exited

-----------------------------------------------------------------------------
(* The summary counts what was reported.                                   *)

Reported(s) == {n \in (1..Len(All)) \ left : All[n].status = s}

Counted == Finished => \A s \in Statuses : counts[s] = Cardinality(Reported(s))

(* The results reported with a status can be counted.                      *)
LEMMA ReportedFinite ==
    ASSUME TypeOK, NEW s
    PROVE  IsFiniteSet(Reported(s)) /\ Cardinality(Reported(s)) \in Nat
<1>1. All \in Seq(Results) /\ Len(All) \in Nat
  BY DEF TypeOK, All
<1>2. Reported(s) \in SUBSET (1..Len(All)) /\ IsFiniteSet(1..Len(All))
  BY <1>1, FS_Interval DEF Reported
<1> QED BY <1>2, FS_Subset, FS_CardinalityType

(* Nothing is reported when main begins to report.                         *)
LEMMA CountedStart ==
    ASSUME left' = 1..Len(All), counts' = NoCounts, UNCHANGED <<filtered, collected>>
    PROVE  Counted'
<1>1. \A s \in Statuses : Reported(s)' = {}
  BY DEF Reported, All
<1>2. \A s \in Statuses : counts'[s] = 0
  BY DEF NoCounts
<1> QED BY <1>1, <1>2, FS_EmptySet DEF Counted

(* A result counted is counted once, with its own status.                  *)
LEMMA CountedEmit ==
    ASSUME TypeOK, Counted, NEW n \in left, EmitNext(n)
    PROVE  Counted'
<1> DEFINE st == All[n].status
<1>1. pc = "emit" /\ UNCHANGED <<filtered, collected>> /\ All' = All
  BY DEF EmitNext, search, All
<1>2. CASE pc' = "exit" /\ exit' = 1
  BY <1>2 DEF Counted, Finished
<1>3. CASE left' = left \ {n}
  <2>1. n \in 1..Len(All) /\ counts' = [counts EXCEPT ![st] = @ + 1] /\ counts \in [Statuses -> Nat]
    BY DEF TypeOK, EmitNext
  <2>2. ASSUME NEW s \in Statuses PROVE counts'[s] = Cardinality(Reported(s)')
    <3>1. counts[s] = Cardinality(Reported(s))
      BY <1>1 DEF Counted, Finished
    <3>2. CASE s = st
      <4>1. Reported(s)' = Reported(s) \cup {n} /\ n \notin Reported(s)
        BY <1>1, <1>3, <2>1, <3>2 DEF Reported
      <4>2. counts'[s] = counts[s] + 1
        BY <2>1, <3>2
      <4> HIDE DEF st
      <4> QED BY <4>1, <4>2, <3>1, FS_AddElement, ReportedFinite
    <3>3. CASE s # st
      <4>1. Reported(s)' = Reported(s)
        BY <1>1, <1>3, <2>1, <3>3 DEF Reported
      <4>2. counts'[s] = counts[s]
        BY <2>1, <3>3
      <4> QED BY <4>1, <4>2, <3>1
    <3> QED BY <3>2, <3>3
  <2> QED BY <2>2 DEF Counted
<1> QED BY <1>2, <1>3 DEF EmitNext, Exit

(* Every step keeps the counts exact.                                      *)
LEMMA CountedStep == TypeOK /\ Phases /\ Phases' /\ Counted /\ [Next]_vars => Counted'
<1> SUFFICES ASSUME TypeOK, Phases, Phases', Counted, [Next]_vars PROVE Counted'
  OBVIOUS
<1> USE DEF cli, search, chans, report, env
<1>1. CASE Finished' => Finished /\ UNCHANGED <<filtered, collected, left, counts>>
  BY <1>1 DEF Counted, Reported, All
<1>2. CASE StartPool
  BY <1>2, CountedStart DEF StartPool, Phases, Counted, Finished
<1>3. CASE CollectEnds
  BY <1>3, CountedStart DEF CollectEnds, Phases
<1>4. ASSUME NEW n \in left, EmitNext(n) PROVE Counted'
  BY <1>4, CountedEmit
<1>5. CASE ParseArgs
  BY <1>5, <1>1 DEF ParseArgs, Exit, Finished
<1>6. CASE DiscoverFile \/ WalkFile \/ WalkEnds \/ DiscoverFails
  BY <1>6, <1>1 DEF DiscoverFile, WalkFile, WalkEnds, DiscoverFails, Searching, Exit, Finished
<1>7. CASE Collect \/ EmitSummary \/ Feeder \/ Crash
  BY <1>7, <1>1 DEF Collect, EmitSummary, Feeder, CloseTasks, CloseResults, Crash, Exit, Finished
<1>8. ASSUME NEW w \in Workers, Worker(w) PROVE Counted'
  BY <1>8, <1>1, WorkerStep DEF Finished
<1>9. ASSUME NEW p \in Paths, Lose(p) PROVE Counted'
  BY <1>9, <1>1 DEF Lose, Finished
<1>10. CASE UNCHANGED vars
  BY <1>10, <1>1 DEF vars, Finished
<1> QED
  BY <1>2, <1>3, <1>4, <1>5, <1>6, <1>7, <1>8, <1>9, <1>10 DEF Next, Main, Exited

(* Each result that main got is counted once, and those of files that were *)
(* filtered apart from the others.                                         *)
LEMMA CountsAddUp ==
    ASSUME TypeOK, Phases, Tracked, Truthful, Counted, Finished, left = {}, counts["error"] = 0
    PROVE  /\ counts["written"] + counts["skipped-bigger"] = Len(collected)
           /\ counts["skipped-filtered"] = Len(filtered)
           /\ \A n \in 1..Len(collected) : collected[n].status \in {"written", "skipped-bigger"}
<1> DEFINE f == Len(filtered)
           c == Len(collected)
<1>1. /\ filtered \in Seq(Results) /\ collected \in Seq(Results) /\ f \in Nat /\ c \in Nat
      /\ Processed = collected
  <2>1. results = <<>> /\ collected \in Seq(Results)
    BY DEF Phases, TypeOK
  <2> QED BY <2>1 DEF Processed, TypeOK
<1>2. /\ Len(All) = f + c
      /\ \A n \in 1..f : All[n] = filtered[n]
      /\ \A n \in (f + 1)..(f + c) : All[n] = collected[n - f] /\ n - f \in 1..c
      /\ \A n \in 1..c : n + f \in (f + 1)..(f + c) /\ All[n + f] = collected[n]
  BY <1>1 DEF All
<1>3. /\ \A n \in 1..f : filtered[n].status = "skipped-filtered"
      /\ \A n \in 1..c : collected[n].status \in {"error", "written", "skipped-bigger"}
  BY <1>1 DEF Truthful, Honest
<1>4. \A s \in Statuses : /\ counts[s] = Cardinality(Reported(s)) /\ IsFiniteSet(Reported(s))
                          /\ Cardinality(Reported(s)) \in Nat
  BY ReportedFinite DEF Counted
<1> HIDE DEF f, c
<1>5. \A n \in 1..c : collected[n].status # "error"
  <2>1. Reported("error") = {}
    BY <1>4, FS_EmptySet DEF Statuses
  <2>2. \A n \in 1..Len(All) : All[n].status # "error"
    BY <2>1 DEF Reported
  <2> QED BY SMTT(30), <2>2, <1>1, <1>2
<1>6. Reported("skipped-filtered") = 1..f
  BY SMTT(30), <1>1, <1>2, <1>3 DEF Reported
<1>7. /\ Reported("written") \cup Reported("skipped-bigger") = (f + 1)..(f + c)
      /\ Reported("written") \cap Reported("skipped-bigger") = {}
  <2>1. \A n \in 1..Len(All) : n \in 1..f \/ n \in (f + 1)..(f + c)
    BY <1>1, <1>2
  <2>2. \A n \in (f + 1)..(f + c) : n \in 1..Len(All) /\ All[n].status \in {"written", "skipped-bigger"}
    BY <1>1, <1>2, <1>3, <1>5
  <2> QED BY <2>1, <2>2, <1>2, <1>3 DEF Reported
<1>8. Cardinality((f + 1)..(f + c)) = c /\ Cardinality(1..f) = f
  <2>1. f + 1 \in Int /\ f + c \in Int /\ 1 \in Int /\ f \in Int
    BY <1>1
  <2>2. Cardinality((f + 1)..(f + c)) = IF f + 1 > f + c THEN 0 ELSE (f + c) - (f + 1) + 1
    BY <2>1, FS_Interval
  <2>3. Cardinality(1..f) = IF 1 > f THEN 0 ELSE f - 1 + 1
    BY <2>1, FS_Interval
  <2> QED BY <2>2, <2>3, <1>1
<1>9. Cardinality(Reported("written") \cup Reported("skipped-bigger"))
        = Cardinality(Reported("written")) + Cardinality(Reported("skipped-bigger"))
  <2>1. "written" \in Statuses /\ "skipped-bigger" \in Statuses
    BY DEF Statuses
  <2>2. Cardinality(Reported("written") \cup Reported("skipped-bigger"))
          = Cardinality(Reported("written")) + Cardinality(Reported("skipped-bigger")) - 0
    BY <1>4, <1>7, <2>1, FS_Union, FS_EmptySet
  <2> QED BY <2>1, <2>2, <1>4
<1>10. counts["written"] + counts["skipped-bigger"] = c
  BY <1>4, <1>7, <1>8, <1>9 DEF Statuses
<1>11. counts["skipped-filtered"] = f
  BY <1>4, <1>6, <1>8 DEF Statuses
<1> QED BY <1>3, <1>5, <1>10, <1>11 DEF f, c

-----------------------------------------------------------------------------
(* A run that nobody disturbs but by killing it finds the same files each  *)
(* time, as none of them is an output.                                     *)

Undisturbed == ~cmd.allowGzipInputs /\ lost = 0

Below(i, p) ==
    LET x == cmd.inputs[i]
    IN  \/ x \in Paths /\ p = x /\ IsCandidate(Root(p), p)
        \/ /\ x \in Dirs /\ IsCandidate(x, p)
           /\ \E n \in 1..Len(Listing(x)) : Listing(x)[n] = p

Candidates ==
    {p \in Sources : original[p] # None /\ \E i \in 1..Len(cmd.inputs) : Below(i, p)}

Visited(p) ==
    \/ \E i \in 1..Len(cmd.inputs) : i < input /\ Below(i, p)
    \/ LET x == cmd.inputs[input]
       IN  /\ input <= Len(cmd.inputs) /\ x \in Dirs /\ IsCandidate(x, p)
           /\ \E n \in 1..walked : Listing(x)[n] = p

Searched ==
    /\ input <= Len(cmd.inputs) /\ cmd.inputs[input] \in Paths => walked = 0
    /\ Undisturbed =>
        /\ \A p \in Paths : ~EndsInGz(p) => fs[p] = original[p]
        /\ \A n \in 1..Len(found) : found[n] \in Candidates
        /\ \A p \in Candidates : Visited(p) => \E n \in 1..Len(found) : found[n] = p

(* The search has seen nothing when the program starts.                    *)
LEMMA SearchedInit == Init => Searched
<1> SUFFICES ASSUME Init PROVE Searched
  OBVIOUS
<1>1. found = <<>> /\ input = 1 /\ walked = 0 /\ fs = original
  BY DEF Init
<1>2. \A p : ~Visited(p)
  BY <1>1 DEF Visited
<1> QED BY <1>1, <1>2 DEF Searched

(* No candidate is an output unless .gz files may be inputs.               *)
LEMMA CandidatesArePlain ==
    ASSUME ~cmd.allowGzipInputs, NEW p \in Candidates
    PROVE  p \in Paths /\ ~EndsInGz(p)
  BY DEF Candidates, Below, IsCandidate, Sources

(* A step that does not search keeps what the search has seen, as long as  *)
(* the files that can be candidates stay.                                  *)
LEMMA SearchedStill ==
    ASSUME Searched, UNCHANGED <<cmd, original, input, walked, found>>,
           lost' = lost \/ lost' # 0,
           \A p \in Paths : ~EndsInGz(p) /\ lost' = lost => fs'[p] = fs[p]
    PROVE  Searched'
<1>1. Undisturbed' => Undisturbed /\ lost' = lost
  BY DEF Undisturbed
<1>2. Candidates' = Candidates /\ \A p : Visited(p)' <=> Visited(p)
  BY DEF Candidates, Below, IsCandidate, Visited
<1> QED BY <1>1, <1>2 DEF Searched

(* An element that is taken is there afterwards, with the ones before.     *)
LEMMA TakeKeeps ==
    ASSUME TypeOK, NEW root, NEW p \in Sources, Take(root, p)
    PROVE  /\ \A n \in 1..Len(found) : \E m \in 1..Len(found') : found'[m] = found[n]
           /\ IsCandidate(root, p) => \E m \in 1..Len(found') : found'[m] = p
           /\ \A m \in 1..Len(found') : \/ found'[m] = p /\ IsCandidate(root, p)
                                        \/ \E n \in 1..Len(found) : found'[m] = found[n]
<1>0. found \in Seq(Sources) /\ Len(found) \in Nat
  BY DEF TypeOK
<1>1. CASE found' = Append(found, p) /\ IsCandidate(root, p)
  <2>1. /\ Len(found') = Len(found) + 1 /\ found'[Len(found) + 1] = p
        /\ \A n \in 1..Len(found) : found'[n] = found[n]
    BY <1>0, <1>1
  <2>2. Len(found) + 1 \in 1..Len(found') /\ \A n \in 1..Len(found) : n \in 1..Len(found')
    BY <1>0, <2>1
  <2>3. \A m \in 1..Len(found') : m \in 1..Len(found) \/ m = Len(found) + 1
    BY <1>0, <2>1
  <2> QED BY <1>1, <2>1, <2>2, <2>3
<1>2. CASE found' = found /\ (IsCandidate(root, p) => ~New(p))
  <2>1. ~New(p) => \E m \in 1..Len(found) : found[m] = p
    BY <1>0 DEF New, Range
  <2> QED BY <1>2, <2>1
<1> QED BY <1>1, <1>2 DEF Take

(* A file named on the command line is found if it is a candidate.         *)
LEMMA SearchedFile ==
    ASSUME TypeOK, Searched, DiscoverFile
    PROVE  Searched'
<1> DEFINE p == cmd.inputs[input]
<1>1. /\ input \in 1..Len(cmd.inputs) /\ p \in Sources /\ fs[p] # None /\ p \notin Dirs
      /\ Take(Root(p), p) /\ input' = input + 1 /\ walked' = walked
      /\ UNCHANGED <<cmd, original, fs, lost>> /\ walked = 0
  <2>1. p \in Sources \cup Dirs /\ input \in 1..Len(cmd.inputs)
    BY CommandFields DEF DiscoverFile, Searching, TypeOK
  <2>2. p \in Paths /\ p \notin Dirs
    BY PathsAssumption DEF DiscoverFile
  <2>3. walked = 0
    BY <2>1, <2>2 DEF Searched
  <2> QED BY <2>1, <2>2, <2>3 DEF DiscoverFile, cli, env
<1>2. Candidates' = Candidates /\ Undisturbed' = Undisturbed /\ \A i, q : Below(i, q)' <=> Below(i, q)
  BY <1>1 DEF Candidates, Undisturbed, Below, IsCandidate
<1>3. IsCandidate(Root(p), p) /\ Undisturbed => p \in Candidates
  <2>1. IsCandidate(Root(p), p) => Below(input, p)
    BY <1>1 DEF Below, Sources
  <2>2. Undisturbed /\ IsCandidate(Root(p), p) => fs[p] = original[p]
    BY <1>1 DEF Searched, IsCandidate, Undisturbed, Sources
  <2> QED BY <2>1, <2>2, <1>1 DEF Candidates
<1>4. \A q : Visited(q)' => Visited(q) \/ (q = p /\ IsCandidate(Root(p), p))
  <2> SUFFICES ASSUME NEW q, Visited(q)' PROVE Visited(q) \/ (q = p /\ IsCandidate(Root(p), p))
    OBVIOUS
  <2>1. PICK i \in 1..Len(cmd.inputs) : i < input + 1 /\ Below(i, q)
    BY <1>1, <1>2 DEF Visited
  <2>2. CASE i < input
    BY <2>1, <2>2 DEF Visited
  <2>3. CASE i = input
    BY <2>1, <2>3, <1>1 DEF Below
  <2> QED BY <2>1, <2>2, <2>3, <1>1
<1> DEFINE r == Root(p)
<1> HIDE DEF p, r
<1>5. p \in Sources /\ Take(r, p) /\ (IsCandidate(r, p) /\ Undisturbed => p \in Candidates)
  BY <1>1, <1>3 DEF r
<1>6. Undisturbed => \A q \in Candidates : Visited(q)' => \E n \in 1..Len(found') : found'[n] = q
  <2> SUFFICES ASSUME Undisturbed, NEW q \in Candidates, Visited(q)'
               PROVE  \E n \in 1..Len(found') : found'[n] = q
    OBVIOUS
  <2>1. CASE Visited(q)
    <3>1. PICK n \in 1..Len(found) : found[n] = q
      BY <2>1 DEF Searched
    <3> QED BY <3>1, <1>5, TakeKeeps
  <2>2. CASE q = p /\ IsCandidate(r, p)
    BY <2>2, <1>5, TakeKeeps
  <2> QED BY <2>1, <2>2, <1>4 DEF r
<1>7. Undisturbed => \A n \in 1..Len(found') : found'[n] \in Candidates
  <2>1. Undisturbed => \A n \in 1..Len(found) : found[n] \in Candidates
    BY DEF Searched
  <2>2. \A m \in 1..Len(found') : \/ found'[m] = p /\ IsCandidate(r, p)
                                  \/ \E n \in 1..Len(found) : found'[m] = found[n]
    BY <1>5, TakeKeeps
  <2> QED BY <2>1, <2>2, <1>5
<1>8. walked' = 0 /\ fs' = fs /\ original' = original
  BY <1>1
<1> QED BY <1>2, <1>6, <1>7, <1>8 DEF Searched

(* A file met on the walk through a directory is found if it is a          *)
(* candidate.                                                              *)
LEMMA SearchedWalk ==
    ASSUME TypeOK, Searched, WalkFile
    PROVE  Searched'
<1> DEFINE d == cmd.inputs[input]
           p == Listing(d)[walked + 1]
<1>1. /\ input \in 1..Len(cmd.inputs) /\ d \in Dirs /\ d \notin Paths /\ p \in Sources
      /\ walked \in Nat /\ walked + 1 \in 1..Len(Listing(d))
      /\ \/ fs[p] = None /\ found' = found
         \/ fs[p] # None /\ Take(d, p)
      /\ input' = input /\ walked' = walked + 1 /\ UNCHANGED <<cmd, original, fs, lost>>
  BY SMTT(30), PathsAssumption DEF WalkFile, Searching, TypeOK, cli, env
<1>2. Candidates' = Candidates /\ Undisturbed' = Undisturbed /\ \A i, q : Below(i, q)' <=> Below(i, q)
  BY <1>1 DEF Candidates, Undisturbed, Below, IsCandidate
<1>3. IsCandidate(d, p) /\ Undisturbed => fs[p] = original[p] /\ (fs[p] # None => p \in Candidates)
  <2>1. IsCandidate(d, p) => Below(input, p)
    BY <1>1 DEF Below
  <2>2. Undisturbed /\ IsCandidate(d, p) => fs[p] = original[p]
    BY <1>1 DEF Searched, IsCandidate, Undisturbed, Sources
  <2> QED BY <2>1, <2>2, <1>1 DEF Candidates
<1>4. \A q : Visited(q)' => Visited(q) \/ (q = p /\ IsCandidate(d, p))
  <2> SUFFICES ASSUME NEW q, Visited(q)' PROVE Visited(q) \/ (q = p /\ IsCandidate(d, p))
    OBVIOUS
  <2>1. \/ \E i \in 1..Len(cmd.inputs) : i < input /\ Below(i, q)
        \/ IsCandidate(d, q) /\ \E n \in 1..(walked + 1) : Listing(d)[n] = q
    BY <1>1, <1>2 DEF Visited, IsCandidate
  <2>2. ASSUME IsCandidate(d, q), NEW n \in 1..(walked + 1), Listing(d)[n] = q
        PROVE  Visited(q) \/ (q = p /\ IsCandidate(d, p))
    <3>1. CASE n = walked + 1
      BY <2>2, <3>1
    <3>2. CASE n \in 1..walked
      BY <2>2, <3>2, <1>1 DEF Visited
    <3> QED BY <3>1, <3>2, <1>1
  <2> QED BY <2>1, <2>2 DEF Visited
<1>5. \A q \in Candidates : q = p /\ Undisturbed => fs[p] # None \/ ~IsCandidate(d, p)
  BY <1>3 DEF Candidates
<1> HIDE DEF p, d
<1>6. Undisturbed => \A q \in Candidates : Visited(q)' => \E n \in 1..Len(found') : found'[n] = q
  <2> SUFFICES ASSUME Undisturbed, NEW q \in Candidates, Visited(q)'
               PROVE  \E n \in 1..Len(found') : found'[n] = q
    OBVIOUS
  <2>1. CASE Visited(q)
    <3>1. PICK n \in 1..Len(found) : found[n] = q
      BY <2>1 DEF Searched
    <3> QED BY <3>1, <1>1, TakeKeeps
  <2>2. CASE q = p /\ IsCandidate(d, p)
    BY <2>2, <1>1, <1>5, TakeKeeps
  <2> QED BY <2>1, <2>2, <1>4
<1>7. Undisturbed => \A n \in 1..Len(found') : found'[n] \in Candidates
  <2>1. Undisturbed => \A n \in 1..Len(found) : found[n] \in Candidates
    BY DEF Searched
  <2>2. CASE found' = found
    BY <2>1, <2>2
  <2>3. CASE fs[p] # None /\ Take(d, p)
    <3>1. \A m \in 1..Len(found') : \/ found'[m] = p /\ IsCandidate(d, p)
                                    \/ \E n \in 1..Len(found) : found'[m] = found[n]
      BY <2>3, <1>1, TakeKeeps
    <3> QED BY <3>1, <2>1, <2>3, <1>3
  <2> QED BY <2>2, <2>3, <1>1
<1>8. ~(cmd'.inputs[input'] \in Paths)
  BY <1>1 DEF d
<1> QED BY <1>1, <1>2, <1>6, <1>7, <1>8 DEF Searched

(* When a walk ends, all that lies below its directory has been seen.      *)
LEMMA SearchedEnds ==
    ASSUME TypeOK, Searched, WalkEnds
    PROVE  Searched'
<1> DEFINE d == cmd.inputs[input]
<1>1. /\ input \in 1..Len(cmd.inputs) /\ d \in Dirs /\ d \notin Paths /\ walked = Len(Listing(d))
      /\ input' = input + 1 /\ walked' = 0
      /\ UNCHANGED <<cmd, original, fs, lost, found>>
  BY PathsAssumption DEF WalkEnds, Searching, TypeOK, cli, env
<1>2. Candidates' = Candidates /\ Undisturbed' = Undisturbed /\ \A i, q : Below(i, q)' <=> Below(i, q)
  BY <1>1 DEF Candidates, Undisturbed, Below, IsCandidate
<1>3. \A q : Visited(q)' => Visited(q)
  <2> SUFFICES ASSUME NEW q, Visited(q)' PROVE Visited(q)
    OBVIOUS
  <2>1. PICK i \in 1..Len(cmd.inputs) : i < input + 1 /\ Below(i, q)
    BY <1>1, <1>2 DEF Visited
  <2>2. CASE i < input
    BY <2>1, <2>2 DEF Visited
  <2>3. CASE i = input
    BY <2>1, <2>3, <1>1 DEF Below, Visited
  <2> QED BY <2>1, <2>2, <2>3, <1>1
<1> QED BY <1>1, <1>2, <1>3 DEF Searched

(* A worker writes only outputs, which have the extension .gz.             *)
LEMMA PlainStay ==
    ASSUME TypeOK, Tracked, Phases, NEW w \in Workers, Worker(w)
    PROVE  /\ \A p \in Paths : ~EndsInGz(p) => fs'[p] = fs[p]
           /\ \A p \in Paths : fs'[p] # fs[p] =>
                 /\ job[w].stage \in {"open", "write"} /\ w \in Busy
                 /\ p = Output(job[w].source)
<1>1. CASE fs' = fs
  BY <1>1
<1>2. CASE fs' # fs
  <2>1. OpenOutput(w) \/ Write(w)
    BY <1>2 DEF Worker, Receive, Read, SendResult, StopWorker
  <2>2. w \in Busy /\ job[w].stage \in {"open", "write"}
    BY <2>1 DEF OpenOutput, Write, Busy
  <2>3. \E c : fs' = [fs EXCEPT ![Output(job[w].source)] = c]
    BY <2>1, <1>2 DEF OpenOutput, Write
  <2>4. EndsInGz(Output(job[w].source))
    BY <2>2, SourcesOfJobs, OutputsDiffer
  <2> QED BY <2>2, <2>3, <2>4 DEF TypeOK
<1> QED BY <1>1, <1>2

(* What was searched stays searched, through kills and until the end.      *)
LEMMA SearchedStep == TypeOK /\ Phases /\ Tracked /\ Searched /\ [Next]_vars => Searched'
<1> SUFFICES ASSUME TypeOK, Phases, Tracked, Searched, [Next]_vars PROVE Searched'
  OBVIOUS
<1> USE DEF cli, search, env
<1>1. ASSUME UNCHANGED <<cmd, original, input, walked, found, lost, fs>> PROVE Searched'
  BY <1>1, SearchedStill
<1>2. CASE DiscoverFile
  BY <1>2, SearchedFile
<1>3. CASE WalkFile
  BY <1>3, SearchedWalk
<1>4. CASE WalkEnds
  BY <1>4, SearchedEnds
<1>5. CASE ParseArgs \/ DiscoverFails \/ StartPool \/ Collect \/ CollectEnds \/ EmitSummary
  BY <1>5, <1>1 DEF ParseArgs, DiscoverFails, StartPool, Collect, CollectEnds, EmitSummary
<1>6. ASSUME NEW n \in left, EmitNext(n) PROVE Searched'
  BY <1>6, <1>1 DEF EmitNext
<1>7. CASE Feeder
  BY <1>7, <1>1 DEF Feeder, CloseTasks, CloseResults
<1>8. ASSUME NEW w \in Workers, Worker(w) PROVE Searched'
  BY <1>8, WorkerStep, PlainStay, SearchedStill
<1>9. ASSUME NEW p \in Paths, Lose(p) PROVE Searched'
  <2>1. lost' # 0
    BY <1>9, CommandFields DEF Lose, TypeOK
  <2> QED BY <2>1, <1>9, SearchedStill DEF Lose
<1>10. CASE Crash
  <2>1. found' = <<>> /\ input' = 1 /\ walked' = 0 /\ UNCHANGED <<cmd, original, fs, lost>>
    BY <1>10 DEF Crash
  <2>2. Undisturbed' => Undisturbed
    BY <2>1 DEF Undisturbed
  <2>3. \A p : ~Visited(p)'
    BY <2>1 DEF Visited
  <2> QED BY <2>1, <2>2, <2>3 DEF Searched
<1>11. CASE UNCHANGED vars
  BY <1>11, <1>1 DEF vars
<1> QED
  BY <1>2, <1>3, <1>4, <1>5, <1>6, <1>7, <1>8, <1>9, <1>10, <1>11 DEF Next, Main, Exited

-----------------------------------------------------------------------------
(* What an undisturbed run read is what was there before the first run, so *)
(* that a run after a kill writes the same again.                          *)

AsBefore(p, status, data) == status # "error" => data = original[p]

Replayable ==
    Undisturbed =>
        /\ \A p \in Paths : fs[p] # original[p] =>
              \E q \in Candidates : Output(q) = p /\ Shrinks(original[q])
        /\ \A w \in Workers : job[w].stage \in {"open", "write"} =>
              job[w].data = original[job[w].source] /\ Shrinks(job[w].data)
        /\ \A w \in Workers : job[w].stage = "send" =>
              AsBefore(job[w].source, job[w].status, job[w].data)
        /\ \A k \in 1..Len(Processed) :
              AsBefore(Processed[k].source, Processed[k].status, Processed[k].data)

(* No output is written when the program starts.                           *)
LEMMA ReplayableInit == Init => Replayable
<1> SUFFICES ASSUME Init PROVE Replayable
  OBVIOUS
<1>1. fs = original /\ Processed = <<>> /\ \A w \in Workers : job[w].stage = "off"
  BY IdleJob DEF Init, Processed
<1> QED BY <1>1 DEF Replayable

(* A step that changes no file, and no job but to end it.                  *)
LEMMA ReplayableStill ==
    ASSUME Replayable, UNCHANGED <<cmd, original>>, lost' = lost \/ lost' # 0,
           fs' = fs \/ lost' # 0,
           Processed' = Processed \/ Processed' = <<>>,
           \A w \in Workers : job'[w].stage \in {"off", "recv", "read"} \/ job'[w] = job[w]
    PROVE  Replayable'
<1>1. Undisturbed' => Undisturbed /\ lost' = lost /\ fs' = fs
  BY DEF Undisturbed
<1>2. Candidates' = Candidates
  BY DEF Candidates, Below, IsCandidate
<1>3. \A p, s, d : AsBefore(p, s, d)' <=> AsBefore(p, s, d)
  BY DEF AsBefore
<1>4. Undisturbed' => \A k \in 1..Len(Processed') :
         AsBefore(Processed[k].source, Processed[k].status, Processed[k].data)'
  BY <1>1, <1>3 DEF Replayable, AsBefore
<1>5. Undisturbed' => \A w \in Workers : job'[w].stage = "send" =>
         AsBefore(job[w].source, job[w].status, job[w].data)'
  BY <1>1, <1>3 DEF Replayable, AsBefore
<1>6. Undisturbed' => \A p \in Paths : fs'[p] # original'[p] =>
         \E q \in Candidates' : Output(q) = p /\ Shrinks(original'[q])
  BY <1>1, <1>2 DEF Replayable
<1>7. Undisturbed' => \A w \in Workers : job'[w].stage \in {"open", "write"} =>
              job'[w].data = original'[job'[w].source] /\ Shrinks(job'[w].data)
  BY <1>1 DEF Replayable
<1> QED BY <1>4, <1>5, <1>6, <1>7 DEF Replayable

(* The file of a worker is a candidate, and as it was before.              *)
LEMMA WorksOnCandidate ==
    ASSUME TypeOK, Tracked, Phases, Searched, Undisturbed, NEW w \in Busy
    PROVE  /\ job[w].source \in Candidates /\ job[w].source \in Sources
           /\ fs[job[w].source] = original[job[w].source]
<1>1. PICK n \in 1..(feeder - 1) : job[w].source = found[n]
  BY DEF Tracked
<1>2. n \in 1..Len(found)
  BY DEF Phases, TypeOK
<1>3. job[w].source \in Candidates
  BY <1>1, <1>2 DEF Searched
<1>4. job[w].source \in Paths /\ ~EndsInGz(job[w].source)
  BY <1>3, CandidatesArePlain DEF Undisturbed
<1> QED BY <1>3, <1>4 DEF Searched, Candidates

(* A worker that goes on with its file.                                    *)
LEMMA ReplayableWorker ==
    ASSUME TypeOK, Tracked, Phases, Searched, Replayable, NEW w \in Workers, Worker(w),
           Processed' = Processed,
           Undisturbed /\ job'[w].stage \in {"open", "write"} =>
              job'[w].data = original[job'[w].source] /\ Shrinks(job'[w].data),
           Undisturbed /\ job'[w].stage = "send" =>
              AsBefore(job'[w].source, job'[w].status, job'[w].data)
    PROVE  Replayable'
<1>1. /\ UNCHANGED <<cmd, original, lost>>
      /\ \A v \in Workers : v # w => job'[v] = job[v]
  BY WorkerStep
<1>2. Candidates' = Candidates /\ Undisturbed' = Undisturbed
  BY <1>1 DEF Candidates, Below, IsCandidate, Undisturbed
<1>3. \A p, s, d : AsBefore(p, s, d)' <=> AsBefore(p, s, d)
  BY <1>1 DEF AsBefore
<1>4. Undisturbed => \A p \in Paths : fs'[p] # original[p] =>
         \E q \in Candidates : Output(q) = p /\ Shrinks(original[q])
  <2> SUFFICES ASSUME Undisturbed, NEW p \in Paths, fs'[p] # original[p]
               PROVE  \E q \in Candidates : Output(q) = p /\ Shrinks(original[q])
    OBVIOUS
  <2>1. CASE fs'[p] = fs[p]
    BY <2>1 DEF Replayable
  <2>2. CASE fs'[p] # fs[p]
    <3>1. job[w].stage \in {"open", "write"} /\ w \in Busy /\ p = Output(job[w].source)
      BY <2>2, PlainStay
    <3>2. job[w].source \in Candidates
      BY <3>1, WorksOnCandidate
    <3>3. Shrinks(original[job[w].source])
      BY <3>1 DEF Replayable
    <3> QED BY <3>1, <3>2, <3>3
  <2> QED BY <2>1, <2>2
<1>5. Undisturbed => \A v \in Workers :
         /\ job'[v].stage \in {"open", "write"} =>
               job'[v].data = original[job'[v].source] /\ Shrinks(job'[v].data)
         /\ job'[v].stage = "send" => AsBefore(job'[v].source, job'[v].status, job'[v].data)
  BY <1>1 DEF Replayable
<1>6. Undisturbed => \A k \in 1..Len(Processed) :
         AsBefore(Processed[k].source, Processed[k].status, Processed[k].data)
  BY DEF Replayable
<1> QED BY <1>1, <1>2, <1>3, <1>4, <1>5, <1>6 DEF Replayable, AsBefore

(* A result sent is about the file as it was before the run.               *)
LEMMA ReplayableSend ==
    ASSUME TypeOK, Replayable, NEW w \in Workers, SendResult(w)
    PROVE  Replayable'
<1> DEFINE r == Result(job[w].source, job[w].status, job[w].data)
<1>1. UNCHANGED <<cmd, original, lost, fs>>
  BY DEF SendResult, cli, env
<1>2. Candidates' = Candidates /\ Undisturbed' = Undisturbed
  BY <1>1 DEF Candidates, Below, IsCandidate, Undisturbed
<1>3. \A v \in Workers : v # w => job'[v] = job[v]
  BY DEF SendResult, TypeOK
<1>4. job'[w].stage = "recv"
  BY IdleJob DEF SendResult, TypeOK
<1>5. /\ Len(Processed') = Len(Processed) + 1
      /\ \A k \in 1..Len(Processed) : Processed'[k] = Processed[k]
      /\ Processed'[Len(Processed) + 1] = r
  BY SentLast
<1>6. Undisturbed => AsBefore(r.source, r.status, r.data)
  BY DEF SendResult, Replayable, Result
<1> HIDE DEF r
<1>7. Undisturbed => \A k \in 1..Len(Processed') :
         AsBefore(Processed'[k].source, Processed'[k].status, Processed'[k].data)
  <2> SUFFICES ASSUME Undisturbed, NEW k \in 1..Len(Processed')
               PROVE  AsBefore(Processed'[k].source, Processed'[k].status, Processed'[k].data)
    OBVIOUS
  <2>1. CASE k \in 1..Len(Processed)
    BY <2>1, <1>5 DEF Replayable
  <2>2. CASE k = Len(Processed) + 1
    BY <2>2, <1>5, <1>6
  <2> QED BY <2>1, <2>2, <1>5, ProcessedType
<1>8. Undisturbed => \A v \in Workers :
         /\ job'[v].stage \in {"open", "write"} =>
               job'[v].data = original[job'[v].source] /\ Shrinks(job'[v].data)
         /\ job'[v].stage = "send" => AsBefore(job'[v].source, job'[v].status, job'[v].data)
  BY <1>3, <1>4 DEF Replayable
<1>9. Undisturbed => \A p \in Paths : fs'[p] # original[p] =>
         \E q \in Candidates : Output(q) = p /\ Shrinks(original[q])
  BY <1>1 DEF Replayable
<1> QED BY <1>1, <1>2, <1>7, <1>8, <1>9 DEF Replayable, AsBefore

(* Every step leaves the files in a state from which a repeated run ends   *)
(* as an undisturbed one would.                                            *)
LEMMA ReplayableStep ==
    TypeOK /\ Phases /\ Tracked /\ Truthful /\ Searched /\ Replayable /\ [Next]_vars => Replayable'
<1> SUFFICES ASSUME TypeOK, Phases, Tracked, Truthful, Searched, Replayable, [Next]_vars
             PROVE  Replayable'
  OBVIOUS
<1> USE DEF cli, search, chans, report, env
<1>1. ASSUME UNCHANGED <<cmd, original, lost, fs, job, results, collected>> PROVE Replayable'
  BY <1>1, ReplayableStill DEF Processed
<1>2. CASE StartPool
  <2>1. \A w \in Workers : job'[w].stage \in {"off", "recv", "read"} \/ job'[w] = job[w]
    BY <1>2, IdleJob DEF StartPool
  <2> QED BY <2>1, <1>2, ReplayableStill DEF StartPool, Processed
<1>3. CASE Collect
  <2>1. Processed' = Processed
    <3>1. /\ collected \in Seq(Results) /\ results \in Seq(Results) /\ results # <<>>
          /\ collected' = Append(collected, Head(results)) /\ results' = Tail(results)
      BY <1>3 DEF Collect, TypeOK
    <3> QED BY <3>1 DEF Processed
  <2> QED BY <2>1, <1>3, ReplayableStill DEF Collect
<1>4. CASE ParseArgs \/ DiscoverFile \/ WalkFile \/ WalkEnds \/ DiscoverFails \/ CollectEnds
           \/ EmitSummary \/ Feeder
  BY <1>4, <1>1 DEF ParseArgs, DiscoverFile, WalkFile, WalkEnds, DiscoverFails, CollectEnds,
                    EmitSummary, Feeder, CloseTasks, CloseResults
<1>5. ASSUME NEW n \in left, EmitNext(n) PROVE Replayable'
  BY <1>5, <1>1 DEF EmitNext
<1>6. ASSUME NEW w \in Workers, Worker(w) PROVE Replayable'
  <2> DEFINE j == job'[w]
             at == job[w].source
  <2>0. \A v \in Workers : v # w => job'[v] = job[v]
    BY <1>6, WorkerStep
  <2>1. CASE Receive(w)
    <3>1. j.stage = "read" /\ Processed' = Processed
      BY <2>1 DEF Receive, Job, TypeOK, Processed
    <3> QED BY <3>1, <2>0, <2>1, ReplayableStill DEF Receive
  <2>2. CASE Read(w)
    <3>1. \/ j = Job("send", at, "error", None)
          \/ Shrinks(fs[at]) /\ j = Job("open", at, "error", fs[at])
          \/ ~Shrinks(fs[at]) /\ j = Job("send", at, "skipped-bigger", fs[at])
      BY <2>2 DEF Read, TypeOK
    <3>2. Processed' = Processed /\ w \in Busy
      BY <2>2 DEF Read, Processed, Busy
    <3>3. Undisturbed => fs[at] = original[at]
      BY <3>2, WorksOnCandidate
    <3>4. /\ Undisturbed /\ j.stage \in {"open", "write"} => j.data = original[j.source] /\ Shrinks(j.data)
          /\ Undisturbed /\ j.stage = "send" => AsBefore(j.source, j.status, j.data)
      BY <3>1, <3>3 DEF Job, AsBefore
    <3> QED BY <3>2, <3>4, <1>6, ReplayableWorker
  <2>3. CASE OpenOutput(w)
    <3>1. /\ job[w] \in WorkerJobs /\ job[w].stage = "open" /\ job[w].status = "error"
          /\ j = [job[w] EXCEPT !.stage = "write"] \/ j = [job[w] EXCEPT !.stage = "send"]
      BY <2>3 DEF OpenOutput, TypeOK, Truthful
    <3>2. j.data = job[w].data /\ j.source = at /\ j.status = "error"
      <4>1. "write" \in Stages /\ "send" \in Stages
        BY DEF Stages
      <4>2. CASE j = [job[w] EXCEPT !.stage = "write"]
        BY <4>1, <4>2, <3>1, NextStage
      <4>3. CASE j = [job[w] EXCEPT !.stage = "send"]
        BY <4>1, <4>3, <3>1, NextStage
      <4> QED BY <4>2, <4>3, <3>1
    <3>3. Processed' = Processed
      BY <2>3 DEF OpenOutput, Processed
    <3>4. Undisturbed => job[w].data = original[at] /\ Shrinks(job[w].data)
      BY <3>1 DEF Replayable
    <3> QED BY <3>2, <3>3, <3>4, <1>6, ReplayableWorker DEF AsBefore
  <2>4. CASE Write(w)
    <3>1. /\ job[w] \in WorkerJobs /\ job[w].stage = "write"
          /\ j = Job("send", at, "written", job[w].data) \/ j = [job[w] EXCEPT !.stage = "send"]
      BY <2>4 DEF Write, TypeOK
    <3>2. j.data = job[w].data /\ j.source = at /\ j.stage = "send"
      <4>1. CASE j = Job("send", at, "written", job[w].data)
        BY <4>1 DEF Job
      <4>2. CASE j = [job[w] EXCEPT !.stage = "send"]
        BY <4>2, <3>1, NextStage DEF Stages
      <4> QED BY <4>1, <4>2, <3>1
    <3>3. Processed' = Processed
      BY <2>4 DEF Write, Processed
    <3>4. Undisturbed => job[w].data = original[at]
      BY <3>1 DEF Replayable
    <3> QED BY <3>2, <3>3, <3>4, <1>6, ReplayableWorker DEF AsBefore
  <2>5. CASE SendResult(w)
    BY <2>5, ReplayableSend
  <2>6. CASE StopWorker(w)
    <3>1. j.stage = "off" /\ Processed' = Processed
      BY <2>6, IdleJob DEF StopWorker, TypeOK, Processed
    <3> QED BY <3>1, <2>0, <2>6, ReplayableStill DEF StopWorker
  <2> QED BY <1>6, <2>1, <2>2, <2>3, <2>4, <2>5, <2>6 DEF Worker
<1>7. ASSUME NEW p \in Paths, Lose(p) PROVE Replayable'
  <2>1. lost' # 0
    BY <1>7, CommandFields DEF Lose, TypeOK
  <2> QED BY <2>1, <1>7, ReplayableStill DEF Lose, Processed
<1>8. CASE Crash
  <2>1. Processed' = <<>> /\ \A w \in Workers : job'[w].stage = "off"
    BY <1>8, IdleJob DEF Crash, Processed
  <2> QED BY <2>1, <1>8, ReplayableStill DEF Crash
<1>9. CASE UNCHANGED vars
  BY <1>9, <1>1 DEF vars
<1> QED
  BY <1>2, <1>3, <1>4, <1>5, <1>6, <1>7, <1>8, <1>9 DEF Next, Main, Exited

-----------------------------------------------------------------------------
(* The inductive invariant.                                                *)
Invariant ==
    TypeOK /\ Phases /\ Tracked /\ Truthful /\ Counted /\ Searched /\ Replayable

(* Whatever the paths, the commands, the workers and the order in which    *)
(* they run, fail and are killed, every reachable state satisfies the      *)
(* invariant (run, processCandidates, processCandidate, emitResults).      *)
THEOREM InvariantHolds == Spec => []Invariant
<1>1. Init => Invariant
  <2>1. Init => Counted
    BY DEF Init, Counted, Finished
  <2> QED BY <2>1, TypeInit, PhasesInit, TrackedInit, TruthfulInit, SearchedInit, ReplayableInit
          DEF Invariant
<1>2. Invariant /\ [Next]_vars => Invariant'
  <2> SUFFICES ASSUME Invariant, [Next]_vars PROVE Invariant'
    OBVIOUS
  <2>1. TypeOK'
    BY TypeStep DEF Invariant
  <2>2. Phases'
    BY <2>1, PhasesStep DEF Invariant
  <2>3. Tracked'
    BY <2>1, <2>2, TrackedStep DEF Invariant
  <2>4. Truthful'
    BY <2>1, TruthfulStep DEF Invariant
  <2>5. Counted'
    BY <2>2, CountedStep DEF Invariant
  <2>6. Searched'
    BY SearchedStep DEF Invariant
  <2>7. Replayable'
    BY ReplayableStep DEF Invariant
  <2> QED BY <2>1, <2>2, <2>3, <2>4, <2>5, <2>6, <2>7 DEF Invariant
<1> QED BY <1>1, <1>2, PTL DEF Spec

(* Every variable stays in its range; a worker that reads or writes has a  *)
(* path (processCandidates, processCandidate).                             *)
THEOREM TypeCorrect == Spec => []TypeOK
<1>1. Invariant => TypeOK
  BY DEF Invariant
<1> QED BY <1>1, InvariantHolds, PTL

(* No two workers ever read, or write the output of, the same file, and    *)
(* none works on a file that has a result (seen in discoverCandidates).    *)
THEOREM FilesApart == Spec => []OneWorkerPerFile
<1>1. Invariant => OneWorkerPerFile
  <2> SUFFICES ASSUME Invariant PROVE OneWorkerPerFile
    OBVIOUS
  <2>1. \A v, w \in Busy : v # w => job[v].source # job[w].source
    BY DEF Invariant, Tracked
  <2>2. \A w \in Busy : job[w].source \in Sources
    BY SourcesOfJobs DEF Invariant
  <2>3. \A w \in Busy, k \in 1..Len(Processed) : Processed[k].source # job[w].source
    BY DEF Invariant, Tracked
  <2> QED BY <2>1, <2>2, <2>3, OutputsDiffer DEF OneWorkerPerFile
<1> QED BY <1>1, InvariantHolds, PTL

(* Every candidate that was handed out is with one worker or has its       *)
(* result, and all have one when the report is written (processCandidates).*)
THEOREM EachIsProcessed == Spec => []NoneLost
<1>1. Invariant => NoneLost
  <2> SUFFICES ASSUME Invariant PROVE NoneLost
    OBVIOUS
  <2> DEFINE from(w) == job[w].source
             sent == {found[n] : n \in 1..(feeder - 1)}
             with == {Processed[n].source : n \in 1..Len(Processed)}
  <2>1. sent \subseteq {from(w) : w \in Busy} \cup with
    BY DEF Invariant, Tracked
  <2>2. {from(w) : w \in Busy} \subseteq sent
    BY DEF Invariant, Tracked
  <2>3. with \subseteq sent
    BY DEF Invariant, Tracked
  <2>4. feeder - 1 = Cardinality(Busy) + Len(Processed)
    BY DEF Invariant, Tracked
  <2>5. pc = "emit" => Busy = {} /\ feeder > Len(found) /\ results = <<>>
    BY DEF Invariant, Phases, Off, Busy, Finished
  <2> HIDE DEF from, sent, with
  <2>6. sent = {from(w) : w \in Busy} \cup with
    BY <2>1, <2>2, <2>3
  <2> QED BY <2>4, <2>5, <2>6 DEF NoneLost, from, sent, with
<1> QED BY <1>1, InvariantHolds, PTL

(* When it is finished, main has one result of each candidate.             *)
LEMMA FinishedWithAll ==
    ASSUME TypeOK, Phases, Tracked, Finished
    PROVE  /\ Processed = collected /\ Len(collected) = Len(found)
           /\ \A n \in 1..Len(found) : \E k \in 1..Len(collected) : collected[k].source = found[n]
           /\ \A k \in 1..Len(collected) : \E n \in 1..Len(found) : collected[k].source = found[n]
<1>1. Busy = {} /\ results = <<>> /\ feeder > Len(found) /\ feeder <= Len(found) + 1
  BY DEF Phases, Off, Busy, Finished
<1>2. Processed = collected
  BY <1>1 DEF Processed, TypeOK
<1>3. feeder - 1 = Len(found) /\ Len(found) \in Nat
  BY <1>1 DEF TypeOK
<1>4. feeder - 1 = Cardinality(Busy) + Len(Processed) /\ Cardinality(Busy) = 0
  BY <1>1, FS_EmptySet DEF Tracked
<1>5. Len(collected) = Len(found)
  BY <1>2, <1>3, <1>4, ProcessedType
<1>6. \A n \in 1..Len(found) : \E k \in 1..Len(collected) : collected[k].source = found[n]
  BY <1>1, <1>2, <1>3 DEF Tracked
<1>7. \A k \in 1..Len(collected) : \E n \in 1..Len(found) : collected[k].source = found[n]
  BY <1>2, <1>3 DEF Tracked
<1> QED BY <1>2, <1>5, <1>6, <1>7

(* The results of a successful run.                                        *)
LEMMA ServedResults ==
    ASSUME Invariant, pc = "exit", exit = 0, ~cmd.help
    PROVE  \A n \in 1..Len(collected) :
              LET r == collected[n]
              IN  \/ r.status = "written" /\ fs[Output(r.source)] = Gzip(r.data)
                  \/ r.status = "skipped-bigger" /\ ~Shrinks(r.data)
<1>1. Finished /\ left = {} /\ counts["error"] = 0
  BY DEF Invariant, Finished, Phases
<1>2. \A n \in 1..Len(collected) : collected[n].status \in {"written", "skipped-bigger"}
  BY <1>1, CountsAddUp DEF Invariant
<1>3. \A n \in 1..Len(collected) :
         Honest(collected[n].source, collected[n].status, collected[n].data)
  BY <1>1, FinishedWithAll DEF Invariant, Truthful
<1> QED BY <1>2, <1>3 DEF Honest

(* A run that ends with exit code 0 read every candidate, left the whole   *)
(* output of each that shrinks, and its summary adds up (run,              *)
(* processCandidate, emitResults).                                         *)
THEOREM SuccessKept == Spec => []SuccessIsServed
<1>1. Invariant => SuccessIsServed
  <2> SUFFICES ASSUME Invariant, pc = "exit", exit = 0, ~cmd.help PROVE SuccessIsServed
    BY DEF SuccessIsServed
  <2>1. Finished /\ left = {} /\ counts["error"] = 0
    BY DEF Invariant, Finished, Phases
  <2>2. /\ counts["written"] + counts["skipped-bigger"] = Len(collected)
        /\ counts["skipped-filtered"] = Len(filtered)
    BY <2>1, CountsAddUp DEF Invariant
  <2>3. /\ Len(collected) = Len(found)
        /\ \A n \in 1..Len(found) : \E k \in 1..Len(collected) : collected[k].source = found[n]
    BY <2>1, FinishedWithAll DEF Invariant
  <2>4. \A p \in Range(found) : \E n \in 1..Len(collected) : collected[n].source = p
    <3>1. found \in Seq(Sources)
      BY DEF Invariant, TypeOK
    <3>2. \A p \in Range(found) : \E n \in 1..Len(found) : found[n] = p
      BY <3>1 DEF Range
    <3> QED BY SMTT(30), <2>3, <3>2
  <2>5. \A n \in 1..Len(collected) :
           LET r == collected[n]
           IN  \/ r.status = "written" /\ fs[Output(r.source)] = Gzip(r.data)
               \/ r.status = "skipped-bigger" /\ ~Shrinks(r.data)
    BY ServedResults
  <2>6. counts["written"] + counts["skipped-bigger"] = Len(found)
    BY <2>2, <2>3
  <2> QED BY <2>2, <2>4, <2>5, <2>6 DEF SuccessIsServed
<1> QED BY <1>1, InvariantHolds, PTL

(* Unless .gz files are inputs too, the files after a successful run are   *)
(* those before the first run with the outputs of the candidates that      *)
(* shrink, whatever the jobs, the order of the workers and the kills       *)
(* before; an old output beside a candidate that does not shrink is left   *)
(* or removed (discoverCandidates, processCandidates, run).                *)
THEOREM OutcomeIsTheSame == Spec => []SameOutcome
<1>1. Invariant => SameOutcome
  <2> SUFFICES ASSUME Invariant, pc = "exit", exit = 0, ~cmd.help, Undisturbed
               PROVE  SameOutcome
    BY DEF SameOutcome, Undisturbed
  <2>1. Finished /\ found \in Seq(Sources)
    BY DEF Invariant, Finished, TypeOK
  <2>2. /\ \A n \in 1..Len(found) : \E k \in 1..Len(collected) : collected[k].source = found[n]
        /\ Processed = collected
    BY <2>1, FinishedWithAll DEF Invariant
  <2>3. \A p \in Range(found) : p \in Sources /\ \E n \in 1..Len(found) : found[n] = p
    BY <2>1 DEF Range
  <2>4. \A k \in 1..Len(collected) : collected[k].status # "error" =>
           collected[k].data = original[collected[k].source]
    BY <2>2 DEF Invariant, Replayable, AsBefore
  <2>5. \A p \in Candidates : p \in Range(found)
    <3> SUFFICES ASSUME NEW p \in Candidates PROVE p \in Range(found)
      OBVIOUS
    <3>1. input > Len(cmd.inputs)
      BY <2>1 DEF Invariant, Phases
    <3>2. cmd.inputs \in Seq(Sources \cup Dirs)
      BY CommandFields DEF Invariant, TypeOK
    <3>3. Visited(p)
      <4>1. PICK i \in 1..Len(cmd.inputs) : Below(i, p)
        BY DEF Candidates
      <4>2. i < input
        BY <3>1, <3>2 DEF Invariant, TypeOK
      <4> QED BY <4>1, <4>2 DEF Visited
    <3>4. \E n \in 1..Len(found) : found[n] = p
      BY <3>3 DEF Invariant, Searched
    <3> QED BY <3>4, <2>1 DEF Range
  <2>6. ASSUME NEW q \in Range(found), Shrinks(original[q])
        PROVE  fs[Output(q)] = Gzip(original[q])
    <3>1. PICK k \in 1..Len(collected) : collected[k].source = q
      BY <2>2, <2>3
    <3>2. \/ collected[k].status = "written" /\ fs[Output(q)] = Gzip(collected[k].data)
          \/ collected[k].status = "skipped-bigger" /\ ~Shrinks(collected[k].data)
      BY <3>1, ServedResults
    <3> QED BY <3>1, <3>2, <2>4, <2>6
  <2>7. ASSUME NEW p \in Paths, fs[p] # original[p]
        PROVE  \E q \in Range(found) : Output(q) = p /\ Shrinks(original[q])
    <3>1. \E q \in Candidates : Output(q) = p /\ Shrinks(original[q])
      BY <2>7 DEF Invariant, Replayable
    <3> QED BY <3>1, <2>5
  <2>8. ASSUME NEW q \in Range(found), ~Shrinks(original[q])
        PROVE  fs[Output(q)] = original[Output(q)]
    <3> SUFFICES ASSUME fs[Output(q)] # original[Output(q)] PROVE FALSE
      OBVIOUS
    <3>1. Output(q) \in Paths
      BY <2>3, OutputsDiffer
    <3>2. PICK r \in Range(found) : Output(r) = Output(q) /\ Shrinks(original[r])
      BY <3>1, <2>7
    <3>3. r = q
      BY <3>2, <2>3, OutputsDiffer
    <3> QED BY <3>2, <3>3, <2>8
  <2> QED BY <2>6, <2>7, <2>8 DEF SameOutcome
<1> QED BY <1>1, InvariantHolds, PTL

(* Multiplication keeps the order.                                         *)
LEMMA TimesBoth ==
    ASSUME NEW a \in Nat, NEW b \in Nat, NEW c \in Nat, a <= b
    PROVE  a * c <= b * c
  OBVIOUS

(* A quotient times its divisor is at most the dividend.                   *)
LEMMA Quotient ==
    ASSUME NEW a \in Nat, NEW w \in Nat \ {0}
    PROVE  a \div w \in Nat /\ (a \div w) * w <= a
  OBVIOUS

(* Without --jobs, the files in work times the workers of each stay within *)
(* the processors, or are one file (parseArgs, processCandidates).         *)
THEOREM WithinProcessors == Spec => []FanOut
<1>1. Invariant => FanOut
  <2> SUFFICES ASSUME Invariant, ~cmd.jobsSet
               PROVE  Cardinality(Busy) * cmd.workersPerFile
                        <= Larger(GOMAXPROCS, cmd.workersPerFile)
    BY DEF FanOut
  <2> DEFINE b == Cardinality(Busy)
             w == cmd.workersPerFile
  <2>0. b \in Nat /\ w \in Int /\ GOMAXPROCS \in Nat \ {0}
    BY ProcessedType, CommandFields, CommandsAssumption DEF Invariant, TypeOK
  <2>1. CASE Busy = {}
    <3>1. b = 0
      BY <2>1, FS_EmptySet
    <3>2. b * w = 0
      BY <3>1, <2>0
    <3> QED BY <3>2, <2>0 DEF Larger
  <2>2. CASE Busy # {}
    <3>1. Valid(cmd)
      BY <2>2 DEF Invariant, Phases, Off, Busy
    <3>2. w \in Nat \ {0} /\ Jobs(cmd) \in Nat
      BY SMTT(30), <3>1, <2>0, CommandsAssumption, CommandFields DEF Valid, Jobs, Larger, Invariant, TypeOK
    <3>3. PoolSize \in Nat /\ PoolSize <= Jobs(cmd)
      BY <3>2 DEF PoolSize, Smaller, Invariant, TypeOK
    <3>4. Busy \subseteq 1..PoolSize
      BY WorkersFinite DEF Invariant, Phases, Busy, Workers
    <3>5. b <= PoolSize
      <4>1. IsFiniteSet(1..PoolSize) /\ Cardinality(1..PoolSize) = PoolSize
        BY <3>3, FS_Interval
      <4> QED BY <4>1, <3>4, FS_Subset
    <3> HIDE DEF b, w
    <3>6. CASE w > 1
      <4>1. Jobs(cmd) = Larger(1, GOMAXPROCS \div w)
        BY <3>6 DEF Jobs, w
      <4>2. GOMAXPROCS \div w \in Nat /\ (GOMAXPROCS \div w) * w <= GOMAXPROCS
        BY <2>0, <3>2, Quotient
      <4>3. CASE b <= 1
        <5>1. b * w <= 1 * w
          BY <4>3, <2>0, <3>2, TimesBoth
        <5> QED BY <5>1, <2>0, <3>2 DEF Larger, b, w
      <4>4. CASE b <= GOMAXPROCS \div w
        <5>1. b * w <= (GOMAXPROCS \div w) * w
          BY <4>2, <4>4, <2>0, <3>2, TimesBoth
        <5>2. b * w \in Nat
          BY <2>0, <3>2
        <5> QED BY <5>1, <5>2, <4>2, <2>0, <3>2 DEF Larger, b, w
      <4> QED BY <3>2, <3>3, <3>5, <4>1, <4>2, <4>3, <4>4, <2>0 DEF Larger
    <3>7. CASE w = 1
      <4>1. Jobs(cmd) = GOMAXPROCS
        BY <3>7 DEF Jobs, w
      <4>2. b * w = b /\ b <= GOMAXPROCS
        BY <4>1, <3>3, <3>5, <3>7, <2>0
      <4> QED BY <4>2, <2>0, <3>7 DEF Larger, b, w
    <3> QED BY <3>2, <3>6, <3>7
  <2> QED BY <2>1, <2>2
<1> QED BY <1>1, InvariantHolds, PTL

=============================================================================
