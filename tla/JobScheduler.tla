---------------------------- MODULE JobScheduler ----------------------------
(***************************************************************************)
(* The job scheduler of the root package (src/scheduler, src/worker): jobs *)
(* in Redis sorted sets (RedisBackend), polled by WorkerProcessor (the     *)
(* worker service) and by JobProcessor, which also releases jobs whose     *)
(* visibility timeout has passed.                                          *)
(*                                                                         *)
(* No operation is a script: each is a list of Redis commands, and those   *)
(* of different processes, sweeps and handlers mix freely.  Of the job's   *)
(* hash only the attempts are ever read back and acted on; HSET writes     *)
(* what an earlier HGETALL read.  Which queued job is popped is left open: *)
(* the three priorities are asked one after the other.  Nothing in the     *)
(* repository calls refreshVisibility() or retryDeadLetter(): left out.    *)
(***************************************************************************)
EXTENDS Naturals, Sequences, FiniteSets

CONSTANTS
  Jobs,
  JobWorkers,    \* processes with a WorkerProcessor
  Processors,    \* processes with a JobProcessor
  Slots,         \* bound: jobs one process fetches or runs at a time
  SweepSlots,    \* bound: visibility checks of one process that overlap
  Client,        \* the users of the scheduler's own methods
  MaxConcurrent, \* maxConcurrent of a JobProcessor
  MaxAttempts,   \* maxAttempts of a job
  NoJob

ASSUME JobConstants ==
  /\ MaxAttempts \in Nat \ {0} /\ MaxConcurrent \in Nat \ {0}
  /\ JobWorkers \cap Processors = {} /\ Slots \cap SweepSlots = {}
  /\ NoJob \notin Jobs

VARIABLES
  attempts,   \* of each job's hash
  queue,      \* the priority queues
  processing, \* the PROCESSING set ...
  expired,    \* ... and its members whose visibleAt has passed
  dlq,        \* the dead-letter set
  op,         \* what each thread of control is at
  timedOut,   \* the jobs a visibility check has still to release
  active,     \* activeJobs; for a WorkerProcessor its currentJob
  fate,       \* history: what happened to each job,
  failures,   \* how often its handler failed (no more than MaxAttempts are told apart),
  repeats     \* and how many of these failures were nacked twice

jobSets       == <<queue, processing, expired, dlq>>
processorVars == <<timedOut, active>>
counts        == <<failures, repeats>>
jobHistory    == <<fate, counts>>
schedulerVars == <<attempts, jobSets, op, processorVars, jobHistory>>

Procs   == JobWorkers \cup Processors
Sweeps  == Processors \X SweepSlots
client  == <<Client, NoJob>>
Threads == (Procs \X Slots) \cup Sweeps \cup {client}

NoOp == [kind |-> "none", left |-> <<>>, job |-> NoJob, read |-> 0]
Capped(n) == IF n > MaxAttempts THEN MaxAttempts ELSE n

\* A job is enqueued; it may be shared (two threads have it at a time); its
\* handler succeeds (acked), or an operation that has it in hand breaks off
\* (torn), and then no more is told of it.
Told(j)        == fate[j] \in {"acked", "torn"}
Becomes(js, f) == fate' = [j \in Jobs |-> IF j \in js /\ ~Told(j) THEN f ELSE fate[j]]

-----------------------------------------------------------------------------
(* RedisBackend: the commands of each operation, after the ZPOPMIN of      *)
(* dequeue; acknowledge with the updateJob() that stores the result.  The  *)
(* nack() of a failure which a WorkerProcessor's handler reported stands   *)
(* within its try block and is called report here; nack is the one in the  *)
(* catch block, and that of a JobProcessor.                                *)
(*                                                                         *)
(* acknowledge(), report and nack() of the scheduler read the job before   *)
(* and after those of the backend.  The first read is one with the one     *)
(* that follows it.  At the last one no command that writes is left, but   *)
(* the call has not returned: see ReadBack and RunCommandFails.            *)

Nacks      == {"nack", "report"}
ReadsBack  == Nacks \cup {"acknowledge"}

Commands(kind) ==
  CASE kind = "enqueue"                  -> <<"hset", "zadd">>
    [] kind = "dequeue"                  -> <<"hgetall", "hset", "zadd">>
    [] kind = "acknowledge"              -> <<"hgetall", "zrem", "hset", "hgetall", "hset">>
    [] kind \in Nacks \cup {"release"}   -> <<"hgetall", "zrem", "hset", "zadd">>
    [] OTHER                             -> <<>>

Starts(kind, j) == [kind |-> kind, left |-> Commands(kind), job |-> j, read |-> 0]

\* Mutant: a timed-out run counts as a failed one.
CountsTimeouts(o) ==
  CASE o.kind = "enqueue"             -> 0
    [] o.kind \in Nacks \cup {"release"} -> Capped(o.read + 1)
    [] OTHER                          -> o.read

Written(o) ==
  CASE o.kind = "enqueue" -> 0
    [] o.kind \in Nacks   -> Capped(o.read + 1)
    [] OTHER              -> o.read

ShouldDie(o) == o.kind \in Nacks /\ o.read + 1 >= MaxAttempts

\* The next command of thread t is c.  After the last one dequeue() hands its
\* job to the handler.
Does(t, c) == op[t].left # <<>> /\ Head(op[t].left) = c

After(o) ==
  IF Len(o.left) > 1
  THEN [o EXCEPT !.left = Tail(@), !.read = IF o.kind \notin Nacks /\ Head(o.left) = "hset" THEN 0 ELSE @]
  ELSE CASE o.kind = "dequeue"    -> Starts("handle", o.job)
         [] o.kind \in ReadsBack -> [Starts(o.kind, o.job) EXCEPT !.left = <<>>]
         [] OTHER                 -> NoOp

\* processJob(): a JobProcessor knows its runs by job, a WorkerProcessor only
\* its last one.
ActiveAfter(p, o) ==
  IF Len(o.left) = 1 /\ o.kind = "dequeue"
  THEN IF p \in JobWorkers THEN {o.job} ELSE active[p] \cup {o.job}
  ELSE active[p]

Advance(t) ==
  /\ op' = [op EXCEPT ![t] = After(op[t])]
  /\ active' = IF t[1] = Client THEN active ELSE [active EXCEPT ![t[1]] = ActiveAfter(t[1], op[t])]
  /\ UNCHANGED <<timedOut, jobHistory>>

ReadJob(t) ==
  /\ Does(t, "hgetall")
  /\ op' = [op EXCEPT ![t] = [After(op[t]) EXCEPT !.read = attempts[op[t].job]]]
  /\ UNCHANGED <<attempts, jobSets, processorVars, jobHistory>>

UpdateJobInternal(t) ==
  /\ Does(t, "hset")
  /\ attempts' = [attempts EXCEPT ![op[t].job] = Written(op[t])]
  /\ Advance(t)
  /\ UNCHANGED jobSets

RemoveJob(t) ==
  /\ Does(t, "zrem")
  /\ processing' = processing \ {op[t].job}
  /\ expired' = expired \ {op[t].job}
  /\ Advance(t)
  /\ UNCHANGED <<attempts, queue, dlq>>

\* Mutant: a nack that is to be retried is left to the visibility timeout,
\* although the job is out of the PROCESSING set.
AddOnlyDead(t) ==
  /\ Does(t, "zadd")
  /\ LET j == op[t].job
     IN  IF op[t].kind = "dequeue"
         THEN processing' = processing \cup {j} /\ expired' = expired \ {j} /\ UNCHANGED <<queue, dlq>>
         ELSE IF op[t].kind \in Nacks
              THEN dlq' = (IF ShouldDie(op[t]) THEN dlq \cup {j} ELSE dlq) /\ UNCHANGED <<queue, processing, expired>>
              ELSE queue' = queue \cup {j} /\ UNCHANGED <<processing, expired, dlq>>
  /\ Advance(t)
  /\ UNCHANGED attempts

AddJob(t) ==
  /\ Does(t, "zadd")
  /\ LET j == op[t].job
     IN  IF op[t].kind = "dequeue"
         THEN processing' = processing \cup {j} /\ expired' = expired \ {j} /\ UNCHANGED <<queue, dlq>>
         ELSE IF ShouldDie(op[t])
              THEN dlq' = dlq \cup {j} /\ UNCHANGED <<queue, processing, expired>>
              ELSE queue' = queue \cup {j} /\ UNCHANGED <<processing, expired, dlq>>
  /\ Advance(t)
  /\ UNCHANGED attempts

\* The last getJob() of the scheduler: the call returns, and the run is over.
ReadingBack(o) == o.kind \in ReadsBack /\ o.left = <<>>

ReadBack(t) ==
  /\ ReadingBack(op[t])
  /\ op' = [op EXCEPT ![t] = NoOp]
  /\ active' = [active EXCEPT ![t[1]] = IF t[1] \in JobWorkers THEN {} ELSE @ \ {op[t].job}]
  /\ UNCHANGED <<attempts, jobSets, timedOut, jobHistory>>

JobCommand(t) == ReadJob(t) \/ UpdateJobInternal(t) \/ RemoveJob(t) \/ AddJob(t) \/ ReadBack(t)

-----------------------------------------------------------------------------
(* The processes *)

\* The jobs some thread in ts has still to run or to write.
WorkedBy(ts) == {j \in Jobs : \E t \in ts : op[t].job = j /\ ~ReadingBack(op[t])}
Worked       == WorkedBy(Threads)

\* A WorkerProcessor polls whenever its status is idle, also while an earlier
\* poll is waiting for Redis; a JobProcessor awaits its poll.
MayPoll(p) ==
  IF p \in JobWorkers THEN active[p] = {}
  ELSE /\ Cardinality(active[p]) < MaxConcurrent
       /\ \A n \in Slots : op[<<p, n>>].kind # "dequeue"

Poll(p, n) ==
  /\ op[<<p, n>>] = NoOp /\ MayPoll(p)
  /\ \E j \in queue :
       /\ queue' = queue \ {j}
       /\ op' = [op EXCEPT ![<<p, n>>] = Starts("dequeue", j)]
       /\ Becomes({j} \cap Worked, "shared")
  /\ UNCHANGED <<attempts, processing, expired, dlq, processorVars, counts>>

\* The handler ends: acknowledge(), or nack() when it threw; a WorkerProcessor's
\* may also report the failure in its result.
Begin(t, kind) == op' = [op EXCEPT ![t] = Starts(kind, op[t].job)]

HandlerSucceeds(t) ==
  /\ op[t].kind = "handle"
  /\ Begin(t, "acknowledge")
  /\ Becomes({op[t].job}, "acked")
  /\ UNCHANGED <<attempts, jobSets, processorVars, counts>>

HandlerFails(t) ==
  /\ op[t].kind = "handle"
  /\ Begin(t, "nack") \/ (t[1] \in JobWorkers /\ Begin(t, "report"))
  /\ failures' = IF Told(op[t].job) THEN failures ELSE [failures EXCEPT ![op[t].job] = Capped(@ + 1)]
  /\ UNCHANGED <<attempts, jobSets, processorVars, fate, repeats>>

\* Mutant: the sweep takes the jobs whose timeout has not passed.
ListsVisible(s) ==
  /\ op[s] = NoOp /\ timedOut[s] = {} /\ processing \ expired # {}
  /\ timedOut' = [timedOut EXCEPT ![s] = processing \ expired]
  /\ UNCHANGED <<attempts, jobSets, op, active, jobHistory>>

\* releaseTimedOutJobs(): the list first, then job by job.
VisibilityCheck(s) ==
  /\ op[s] = NoOp /\ timedOut[s] = {} /\ expired # {}
  /\ timedOut' = [timedOut EXCEPT ![s] = expired]
  /\ UNCHANGED <<attempts, jobSets, op, active, jobHistory>>

ReleaseNext(s) ==
  /\ op[s] = NoOp
  /\ \E j \in timedOut[s] :
       /\ op' = [op EXCEPT ![s] = Starts("release", j)]
       /\ timedOut' = [timedOut EXCEPT ![s] = @ \ {j}]
       /\ Becomes({j} \cap Worked, "shared")
  /\ UNCHANGED <<attempts, jobSets, active, counts>>

-----------------------------------------------------------------------------
(* The scheduler's other callers *)

EnqueueJob(j) ==
  /\ op[client] = NoOp /\ fate[j] = "none"
  /\ op' = [op EXCEPT ![client] = Starts("enqueue", j)]
  /\ Becomes({j}, "enqueued")
  /\ UNCHANGED <<attempts, jobSets, processorVars, counts>>

-----------------------------------------------------------------------------
(* Time and faults *)

VisibilityExpires(j) ==
  /\ j \in processing \ expired
  /\ expired' = expired \cup {j}
  /\ UNCHANGED <<attempts, queue, processing, dlq, op, processorVars, jobHistory>>

\* The job is in no set while the operation lasts.
InHand(o) ==
  \/ o.kind \in {"enqueue", "dequeue"}
  \/ o.kind \in Nacks \cup {"release"} /\ Len(o.left) \in 1 .. 2
Broken(ts) == {op[t].job : t \in {u \in ts : InHand(op[u])}}

\* A Redis command fails.  Within the try block acknowledge() and report are
\* followed by the nack() of the catch block, also when only the last read
\* failed: then the job, which is back in its queue or dead and may be running
\* elsewhere, is nacked once more for the same failure ...
RunCommandFails(t) ==
  /\ op[t].kind \in {"acknowledge", "report"}
  /\ Begin(t, "nack")
  /\ LET j     == op[t].job
         again == op[t].kind = "report" /\ ReadingBack(op[t])
     IN  /\ repeats' = IF again /\ ~Told(j) THEN [repeats EXCEPT ![j] = Capped(@ + 1)] ELSE repeats
         /\ IF InHand(op[t]) THEN Becomes({j}, "torn") ELSE Becomes({j} \cap WorkedBy(Threads \ {t}), "shared")
  /\ UNCHANGED <<attempts, jobSets, processorVars, failures>>

\* ... the visibility check and the poll of a JobProcessor swallow the error,
\* enqueue() reports it ...
JobCommandFails(t) ==
  /\ op[t].left # <<>>
  /\ t \in Sweeps \cup {client} \/ (op[t].kind = "dequeue" /\ t[1] \in Processors)
  /\ op' = [op EXCEPT ![t] = NoOp]
  /\ timedOut' = IF t \in Sweeps THEN [timedOut EXCEPT ![t] = {}] ELSE timedOut
  /\ Becomes(Broken({t}), "torn")
  /\ UNCHANGED <<attempts, jobSets, active, counts>>

\* ... anything else is an unhandled rejection, which ends the process, as do
\* kills and the end of stop().
ProcessorDies(p) ==
  LET mine == {t \in Threads : t[1] = p}
  IN  /\ op' = [t \in Threads |-> IF t \in mine THEN NoOp ELSE op[t]]
      /\ timedOut' = [s \in Sweeps |-> IF s \in mine THEN {} ELSE timedOut[s]]
      /\ active' = [active EXCEPT ![p] = {}]
      /\ Becomes(Broken(mine), "torn")
      /\ UNCHANGED <<attempts, jobSets, counts>>

-----------------------------------------------------------------------------
(* The specification *)

JobInit ==
  /\ attempts = [j \in Jobs |-> 0]
  /\ queue = {} /\ processing = {} /\ expired = {} /\ dlq = {}
  /\ op = [t \in Threads |-> NoOp]
  /\ timedOut = [s \in Sweeps |-> {}]
  /\ active = [p \in Procs |-> {}]
  /\ fate = [j \in Jobs |-> "none"]
  /\ failures = [j \in Jobs |-> 0] /\ repeats = [j \in Jobs |-> 0]

SchedulerStep ==
  \/ \E t \in Threads : JobCommand(t) \/ HandlerSucceeds(t) \/ HandlerFails(t)
  \/ \E p \in Procs, n \in Slots : Poll(p, n)
  \/ \E s \in Sweeps : VisibilityCheck(s) \/ ReleaseNext(s)
  \/ \E j \in Jobs : EnqueueJob(j)

JobNext ==
  \/ SchedulerStep
  \/ \E j \in Jobs : VisibilityExpires(j)
  \/ \E t \in Threads : RunCommandFails(t) \/ JobCommandFails(t)
  \/ \E p \in Procs : ProcessorDies(p)

\* No fault, and no timeout passes while somebody works on the job.
JobCalmNext ==
  \/ SchedulerStep
  \/ \E j \in Jobs : VisibilityExpires(j) /\ j \notin Worked

JobSpec == JobInit /\ [][JobNext]_schedulerVars

-----------------------------------------------------------------------------
(* Properties *)

\* A job that was enqueued, never succeeded and is not dead stays in a queue,
\* in the PROCESSING set or in somebody's hands, however sweeps, late handlers
\* and retries overlap: no order of their commands drops it.  Excepted are the
\* jobs an operation held in no set when it broke off: nothing makes the
\* commands of one operation a transaction.
NoJobLost ==
  \A j \in Jobs : fate[j] \in {"enqueued", "shared"} => j \in queue \cup processing \cup dlq \cup Worked

\* A job is dead-lettered for maxAttempts failures only: timeouts, sweeps and
\* double deliveries cost no attempt, and hashes written back late add none.
\* Excepted are the failures a WorkerProcessor nacked twice because the read
\* after the first nack() failed: they count twice, no failure counts more.
DeadOnlyByFailures ==
  \A j \in dlq :
    \/ Told(j)
    \/ failures[j] >= MaxAttempts
    \/ repeats[j] > 0 /\ 2 * failures[j] >= MaxAttempts

\* Every job succeeds or dies in the end, also when its worker died, provided
\* some process checks the visibility timeouts.  Two runs of one job at a time
\* may take its attempts back from each other for ever: excepted.
JobsSettle ==
  \A j \in Jobs : fate[j] # "none" ~> fate[j] \in {"acked", "torn", "shared"} \/ j \in dlq
=============================================================================
