# Verification of the Generacy orchestration core

TLA+ models of how `generacy-ai/generacy` turns issues into queue items, claims
and leases them, runs their workflow phases, and recovers after crashes, lost
messages and failed calls; the TLC runs that check them, and TLAPS proofs of
their safety properties for instances of any size. Paths below are relative to `packages/orchestrator/src/` unless
they start with `packages/` or `src/`.

## The system

An orchestrator cluster turns GitHub issues into workflow runs. Monitors
detect labelled issues and *enqueue* an item; worker containers *claim* items
and run a handler on them; a lease from the cloud may gate each run.

| Part | State | Operations | Talks to | What is hard |
|---|---|---|---|---|
| Redis queue adapter, `services/redis-queue-adapter.ts` | pending ZSET, one claim hash per worker id, heartbeat keys, in-flight SET, dead letters; per process: reconcile tracker | enqueue, claim, release, requeueForResume, complete, reapOrphanClaims, reconcileInFlight | Redis, shared by all processes | scripts are atomic, sweeps are not; callers outlive their claim; replies get lost |
| In-memory adapter, `services/in-memory-queue-adapter.ts` | sorted array, claims, index set, attempt counts | the same interface, sweeps are no-ops | dispatcher of the same process | stale callers; binary insertion |
| Worker dispatcher, `services/worker-dispatcher.ts` | activeWorkers, workerLeases, pollingPaused, timers | pollLoop, pollOnce, runWorker, resumePolling, handleLeaseExpired, reaperLoop, stop | queue, lease manager, handler | awaits between check and use, two pollers, handlers that cannot be cancelled |
| Lease manager, `services/lease-manager.ts` | pending requests, active leases, tier limit | requestLease, handleLeaseResponse, heartbeats, release | cloud, through the relay | timeouts racing late answers, lost messages |
| Monitors, `services/*-monitor-service.ts`, phase tracker | dedup keys, poll timers | poll, webhook, markProcessed, enqueue | GitHub, queue | two detections of one event, dedup marked and enqueue failed |
| Phase loop and handlers, `worker/` | labels, branch, sidecar in the checkout, two Redis keys, locals of the loop | run a phase, guard, gates, pause, resume, review and remediate | GitHub, agent process, CI | crash between label writes; markers that outlive the tree they speak of; exits without a label |
| Relay bridge and `packages/cluster-relay` | connection state, sockets, heartbeat | connect, reconnect, forward | cloud WebSocket | late closes, silent peers |
| Root package: job scheduler and worker processor, `src/scheduler`, `src/worker` | priority queues, PROCESSING set, dead letters, job hashes | enqueue, dequeue, acknowledge, nack, visibility sweep | Redis | operations of several commands without a script |
| Root package: message router, persistence | correlations, channel queues, dead letters | route, correlate, retry | agents and humans | time-outs, retries |
| `packages/control-plane`: worker scaler, tunnel manager | desired and actual containers, tunnel process | scale, start, stop | Docker, relay | concurrent scale requests |
| `packages/credhelper-daemon` | sessions, tokens, refresh timers | begin, end, refresh | credential back ends | refresh racing end |
| `packages/workflow-engine` | execution state | run, retry, time out, cancel | actions | cancellation |
| CLI, editor extension, integrations, docs, configuration | files, UI | – | – | I/O rather than state |

What makes the parts correct:

* **queue**: an item is live at most once; the in-flight index contains exactly
  the live items; no work is lost by a crash; attempts are counted exactly;
  residue and orphans are repaired;
* **dispatcher**: one job per container; a handler is alone on its item; every
  item finishes or is dead-lettered; a container never falls silent;
* **lease manager**: nobody waits for a lease for ever; a lease is given up
  after exactly so many lost heartbeats in a row, if the client tells of them;
  a lease the cloud counts for nobody is freed in the end;
* **relay client**: one socket, and always connected again;
* **monitors**: a trigger and an answered gate are served, whatever deliveries
  are lost; a trigger stays on the issue until the queue was asked for it;
* **phase loop**: no gate is passed unanswered and no budget exceeded, whatever
  the last run left when it died; finished means validated; no run stops
  silently or goes on for ever;
* **job scheduler**: no job is lost, dead-lettered without failures, or left.

`PROJECT.json` lists every component with its status, and the hazards with the
lines where they bite.

## Modules

| Module | Models | Composed with |
|---|---|---|
| `QueueContract` | the `QueueManager` interface (`types/monitor.ts`), as an abstract specification | – |
| `RedisQueue` | the Redis adapter | implements `QueueContract` |
| `WorkerDispatcher` | the dispatcher | extends `RedisQueue`; its steps are steps of the queue |
| `InMemoryQueue` | the in-memory adapter | implements `QueueContract` |
| `LeaseManager` | `services/lease-manager.ts`, the lease gate of the dispatcher, the cloud's lease service (external) | `ClusterRelay`, in `MCLeaseRelay` |
| `ClusterRelay` | `packages/cluster-relay/src/relay.ts` and the connection events of `services/relay-bridge.ts` | `LeaseManager` |
| `LabelMonitor` | `services/label-monitor-service.ts`, `services/phase-tracker-service.ts`, the webhook route | the queue as one slot, the worker as far as it touches labels and item |
| `PhaseLoop` | `worker/phase-loop.ts` with label manager, resolver, gate checker, executors, guard; `worker/claude-cli-worker.ts` around it; the success path of `worker/merge-conflict-handler.ts` | the label monitor as an external |
| `JobScheduler` | `src/scheduler` (Redis backend, scheduler, `JobProcessor`) and `src/worker/worker-processor.ts` | `RedisQueue`, in `MCRedisLive` |
| `*Proofs` | the theorems about the module of that name; `WorkerDispatcherProofs` builds on `RedisQueueProofs` | extends it |
| `MC*` | instances for TLC: symmetry sets; `MCLeaseRelay` and `MCRedisLive` put two services that share no state into one instance, chosen by `part`, and state the fairness of each | – |

### RedisQueue

One action per Lua script or `MULTI`, because Redis runs them atomically. The
sweeps are several actions per process: `reapOrphanClaims` scans, reads one
claim, and then calls the script (`ReapScan`, `ReapRead`, `ReclaimOrphan` or
`ReclaimSkipped`); `reconcileInFlight` reads the index, the pending set, the
list of claims and each claim in turn, then applies the two-sweep gate and
calls its script per key (`Reconcile...`). What the process remembers between
round trips (`todo`, `orphan`, `cand`, `tracker`) is state. A process may die
at any point (`ProcessRestart`), an error may end a sweep early
(`ReapAborted`, `ReconcileAborted`, `ReconcileRemoveError`), and the reply of a
claim may be lost (`ClaimReplyLost`).

* The pending ZSET is a bag: members of one item differ in their payload, so
  Redis keeps both.
* A score orders by queue reason; the timestamp inside a reason comes from
  different clocks and is left out: any member of the best reason may be popped.
* A claim's age is one bit, whether it is past the grace window when read.
* The callers are unconstrained: a worker that was given an item may call
  `release`, `requeueForResume` and `complete` in any order and any number of
  times. `WorkerDispatcher` is shown to be one such caller.
* `tainted` is a history variable: the items whose index entry went away while
  a copy was left. It never guards an action.

### WorkerDispatcher

A job is known by its worker id and has a phase: claiming, leasing, denied or
errored (between `release()` and the return of `pollOnce`), running, rearm,
finally. The maps `activeWorkers` and `workerLeases` are the sets `active` and
`leased`, which is where the interesting differences arise: a job may run
without being active (its lease expired, or it was reaped). `viaLoop` tells
the poll of `pollLoop`, which is awaited, from the one `resumePolling` starts
beside it. The handler's outcome and the cloud's answer are free choices. A
Redis error inside `release()`, `requeueForResume()` or `complete()` is
swallowed by the adapter: `...Lost` actions and `FinishLost`.

Left out: the heartbeat map used without Redis, the label clean-up callback
(the server passes none), the boot sweep overlapping the first reaper cycle.

### InMemoryQueue

Each method is one action, since none awaits between reading and writing. The
array is a sequence, `Search` the binary search of `insertSorted` as a
recursive function on the loop's two variables. A priority is a pair of reason and clock reading, and the
clock may read anything in `Times`. `enqueue()` starts from the count left by
the last `release()`, even when that already is `maxRetries`: the model keeps
that, and `MaxCount` bounds the otherwise unbounded count.

### LeaseManager and ClusterRelay

A run `r` of `LeaseManager` stands for the worker id, the correlation id and
the lease id that one `pollOnce()` draws: all are fresh, so one name is enough.
Requests, answers, heartbeats and releases travel on a FIFO socket whose
contents are lost when it drops; a grant may come after its timeout, without
an id, or never. `throws` tells a client of which `send()` reports a closed
socket from one that only logs, as the repository's own `ClusterRelay` does;
the runs and the theorems are about both. The cloud's side, external, is a set of
leases, a limit and a sweep. `unsent` is history: heartbeats in a row that did
not leave.

`ClusterRelay` has one action per event of the `ws` library and per timer, the
sockets being objects of their own, because a socket that has emitted "error"
may emit "close" when the next one is already open. The code has two states
from which nothing leads out, `HandshakeUnanswered` (no timer runs between
"open" and the first message) and `SocketOrphaned` (a late "close" of the old
socket has set `this.ws` to null, so the heartbeat has nothing to terminate);
`Reconnects` names them as its exceptions.

### LabelMonitor

`processLabelEvent` an await at a time, in a webhook handler and in the poll
loop beside each other: clear, duplicate check, fetch, enqueue, mark, remove.
The trigger, the gates and their answers are told apart. Both ways in check the
assignees, the poll those of the issue (`assigned`), the route those in the
payload (`Sends`); people may assign the issue to somebody else at any time.
The poll lists only `KNOWN_COMPLETED_LABELS` (`Known`): `sibling-review` is a
gate whose answer has no such label. Webhook deliveries are late, repeated, out
of order or lost, and the orchestrator may be restarted (`MonitorDies`). The
queue is one slot of the issue (`QueueContract` says as much); the worker is
there as far as it touches the slot and the labels. Every GitHub and Redis call
may fail, with the effect the code gives that. `fresh` is history: the trigger
on the issue is one for which nobody has asked the queue yet.

### PhaseLoop

One issue, its durable state (labels, branch, sidecar, the two Redis keys) and
one run at a time with the locals of `executeLoopInner`. `run.pc` names the
step within a turn of the loop; a turn is cut where a crash would leave a
different durable state, so label writes, pushes, Redis writes and the start,
the exit and the count of a remediation are steps of their own. A few writes
stay together: a failed attempt is pushed and labelled in one step
(`ImplementFails`; a death between the two leaves what one after the push of a
pause leaves), a block is pushed and its comment posted in one, and the label
manager removes the phase label and adds the next one in one (`RunDies` and
`RunGivenUp` may lose it in between). The two Redis keys expire after seven
days (`RefExpires`, `MirrorExpires`), the next worker may have to clone again
(`CheckoutLost`), and the writes whose failure the code swallows may fail: the
count of an attempt, the error label of a refused push, the labels the conflict
handler removes, the comment and the old answer of a block. What the agent, CI, the base branch and people do is open. Of
`tasks.md` only the two counts of remaining tasks matter, of the branch only
whether product code was pushed since the start ref, of the review artifact the
verdict and the count. `seen` is history for the properties and guards nothing.

### JobScheduler

No operation of the Redis backend is a script, so an operation is the list of
its commands (`Commands`) and every thread of control takes one at a time
(`ReadJob`, `UpdateJobInternal`, `RemoveJob`, `AddJob`), mixed with the sweeps
and late handlers of all processes. The scheduler's `acknowledge()` and `nack()`
read the job once more at their end (`ReadBack`); when that fails within the try
block of a `WorkerProcessor`, its catch block nacks the job although the first
call has had its effect (`report` is the nack in the try block, `nack` the other). Of the hash only `attempts` is ever acted
on; it is read by HGETALL and written back by a later HSET, which may undo
another thread's. `WorkerProcessor` and `JobProcessor` differ in when they poll
and in what a failed command does, and both are there. `fate`, `failures` and
`repeats` are history.

## Runs

| Run | Instance | Shows |
|---|---|---|
| `redis_queue` | 1 item, 2 workers, 1 sweeper, 2 retries, 2 copies | `OneOwner`, `OnlyStaleCompleteOrSweepUntracks`, `KeepsContract`, types |
| `redis_queue_live` | dispatch queue: 1 item, 2 workers, 1 sweeper, 1 retry; job scheduler: 1 job, 1 worker, 1 `JobProcessor`, 2 attempts | `ResidueRepaired`, `OrphanRecovered`; `NoJobLost`, `DeadOnlyByFailures`, `JobsSettle` |
| `dispatcher` | 2 worker ids, 1 sweeping process, no lease | one active job; `UsesQueue`; `EveryItemLeaves` |
| `dispatcher_lease` | 1 worker id, 1 sweeping process, 2 retries, leases | `UsesQueue`; `EveryItemLeaves`; `NoReplicaStalls` |
| `in_memory_queue` | 2 items, 2 workers, 2 copies | `PendingSorted`, `NoResidue`, `KeepsContract` |
| `lease_relay` | leases: 2 runs, limit 1, 2 heartbeat failures, 1 message each way, 2 drops, both kinds of client; relay: 2 sockets, 2 back-off steps | `NoEarlyExpiry`, `ExpiresIffReported`, `RequestsSettle`, `OrphanedLeaseFreed`; `OneSocket`, `Reconnects` |
| `label_monitor` | webhook beside poll, 1 trigger, 1 gate raised, of a polled and an unpolled kind, completed labels every 2nd cycle | `TriggerKeptUntilQueued`, `TriggerServed`, `ResumeServed` |
| `phase_loop` | five of the six configurations, 1 remediation, 1 retry, 1 block cycle, 1 fault | `GatesRespected`, `RemediationBudget`, `FinishedWorkAccepted`, `FinishedMeansValidated`, `NoSilentStop`, `RunEnds` |

`UsesQueue` is the queue's own specification checked as a property of the
composition, so every theorem about `RedisQueue` carries over to it.

Why the bounds are enough: items interact only through the choice of the best
pending member, so one item with two workers has all the races for a claim
(an owner and one who lost it, a claim and a pending copy, two claims).
`MaxCopies` 2 lets duplicates arise when the index entry of a live item is
lost, which is the state `tainted` describes. Two retries separate a retry
from the last attempt. In the lease run one worker id is enough, because a new
poll may use it as soon as nothing remembers it; two ids, and with them stale
handlers beside a new one, are covered without leases and by the runs that are
expected to fail. A process outside `Sweepers` does not run the Redis half of
its reaper loop. The proofs have no bounds. Deadlock is not checked: a
system whose index holds only residue nobody sweeps may rest, bounded
enqueues, drops and faults end, and an issue may wait at a gate for good.

*Leases and relay*: two runs at limit 1 contend for the slot, and a lease of
the first may be orphaned while the second asks. One message each way is
enough for every race of answer, timeout and drop, since each run has one
request and at most one release, and each is read against the state at
arrival. Two drops allow one during recovery from another. A socket that has
closed may be used again, so two are the errored one and its successor, and
the number of reconnects is not bounded.
*Label monitor*: one webhook handler beside the poll gives every overlap of
two passes through `processLabelEvent`; the delivery may be repeated, so one
handler runs many times. A second cycle tells listed from skipped (the code's
constant is 3). *Phase loop*: one fault is one death, one throw, one run given
up, one lost checkout, one expired key, one swallowed failure to write the count
or to remove the labels of a resolved conflict, or one trigger set again, at any
step; answers, resumes, conflicts and refused pushes are not counted. The
configuration that is left out is a review phase in a workflow without an
implementation review: each of its steps is one of another configuration's; the
proofs include it. With two faults the safety properties were checked once
on single configurations (some six million states, too long for a run).
Each cap at 1 separates below it from at it; `MaxTasks` 0 still allows an increment
in each unit. *Job scheduler*: jobs share nothing but the sets they are in, so
one job run by two processes and swept by one of them has all the overlaps; two
attempts tell a retry from the last. The constraint `SomeJobOpen` stops at
states in which the only job has succeeded or was torn (below): every property
of `JobScheduler` excludes such jobs or is met by them, and in the behaviours
about the dispatch queue it always holds.

Four runs are expected to fail, each for one statement of a comment or of the
interface that the code does not keep; `PROJECT.json` quotes them.

* `redis_queue_sweep_race`: snapshots taken one after the other can show a live
  item as residue in two sweeps running.
* `dispatcher_two_active`: `resumePolling` and `pollLoop` both pass the cap
  check before either has a job in `activeWorkers`.
* `dispatcher_index`: lease expiry requeues the item and does not stop the
  handler, although the log line says the worker is cancelled; a second handler
  may start, and the first one's `complete()` removes the index entry of the
  live item. The in-memory `complete()` has the same shape.
* `phase_conflict_skips_implement`: a merge conflict before implement, once
  resolved, re-arms at review, and the workflow finishes without implement.

### What the properties except, and other disagreements

Some properties hold only outside a case the code really reaches. The case is
named in the property, so that nothing else hides behind it.

* `Reconnects`: the two stuck states above.
* `GatesRespected`: it speaks of the *first* question clarify asks, before any
  later phase or gate has left a label. A question asked again after later work
  can be passed when two runs die one after the other: the second resolves its
  start from the labels of the later phases. One fault does not reach this, so
  the run never showed it; the attempt to prove the property did. Excepted too
  is a run that jumped over implement, by the re-arm above, by
  a trigger over the phase label of a run that was given up, or by
  a `process` item retried over an answered dependency block, which
  `phase-resolver.ts:115` takes for the completion of implement. The pause for
  manual validation stands in for the review, and grants `completed:implement`
  (`phase-loop.ts:2571`) before its own gate is raised: a death in between
  passes both.
* `FinishedMeansValidated`: a run that died at the approval pause and is
  retried works under the old `completed:validate` (`phase-loop.ts:438`), and so
  does one after a resolved conflict whose handler failed to remove the label
  (`merge-conflict-handler.ts:721`).
* `FinishedWorkAccepted`: once the start ref has expired (`phase-loop.ts:110`)
  the next entry captures a new one, and the guard turns away what was pushed
  before it. The comment there says as much.
* `RemediationBudget`: with `maxRemediations` 0, which the schema
  (`packages/config/src/template-schema.ts:105`) allows, a grant still runs one
  attempt (`AttemptsPerGrant`). `seen.lost` counts the attempts whose count was
  lost, and as many more may be made: the agent is counted only after it has
  exited (`remediate-executor.ts:222`), so a run that dies before leaves the
  attempt uncounted even in a checkout that survives; a failure to write the
  count is swallowed; attempts that ended with a non-zero exit are never
  mirrored to Redis, so a re-clone forgets them; and the mirror expires.
* `NoSilentStop`: a working tree that cannot be reverted ends the run with no
  label (`phase-loop.ts:2419`); so does a refused push on a closed issue or when
  the error label cannot be written (`phase-loop.ts:3134`); and a run that the
  dispatcher gives up, for which it calls its own handler.
* `RunEnds`: an operator may grant one budget after another.
* `TriggerKeptUntilQueued`: a trigger that is set while a handler of the one
  before stands between its enqueue and its removal of the label goes with it.
* `TriggerServed`, `ResumeServed`: an issue that is closed or no longer assigned
  to the cluster's user is left alone (`label-monitor-service.ts:598`, `:619`,
  `routes/webhooks.ts:83`), and its labels stay. `ResumeServed` speaks of the
  polled labels: an answered `sibling-review` has only its webhook, and waits for
  ever when that is lost.
* `ExpiresIffReported` says of the shipped client, which only logs when the
  socket is closed (`packages/cluster-relay/src/relay.ts:253`), that the expiry
  `types/lease.ts` documents never happens: its run goes on under a lease nobody
  renews.
* `DeadOnlyByFailures`: a failure that a `WorkerProcessor`'s handler reports in
  its result is nacked twice when the read at the end of the first `nack()`
  fails (`src/worker/worker-processor.ts:215`, `:239`). It then costs two
  attempts, and the job may be dead after half of `maxAttempts` failures; no
  failure costs more.
* `NoJobLost` excepts *torn* jobs: a process that dies between ZPOPMIN and ZADD
  of `dequeue()`, or between ZREM and ZADD of `nack()` or the sweep, leaves the
  job in no set, and nothing finds it again.
* `JobsSettle` excepts *shared* jobs: two runs of one job, after a visibility
  timeout, write `attempts` back over each other and may do so for ever. It
  needs a process that sweeps: the worker service (`src/worker/main.ts`) never
  calls `releaseTimedOutJobs()`, only `JobProcessor` does.

Met while modelling, and not the subject of a run:

* denied leases, lease errors, stops and reaps count as failed attempts
  (`services/worker-dispatcher.ts:375`, `:387`, `:178`, `:714`), where
  `types/monitor.ts:334` speaks of handler failures;
* `clear()` right before `isDuplicate()` (`label-monitor-service.ts:309`) means
  the phase tracker does not deduplicate webhook and poll, as the comment above
  it says; the queue's in-flight index does;
* a trigger that arrives while a run is ending is marked processed and stripped
  (`label-monitor-service.ts:456`) although that run will not serve it, and the
  gate labels that were read before the enqueue (`:479`) are stripped with it:
  one that the ending run raises, or somebody answers, in between goes too if it
  was among them, or if the issue had to be fetched again. A trigger is meant to
  discard the gates of the run before; no comment speaks of this overlap;
* `completed:dependency-limit` is retained on resume (`label-manager.ts:107`)
  and nothing removes it later;
* `WorkerProcessor.stop()` never resolves for a stuck job unless
  `forceShutdownOnTimeout` is set, and a `JobProcessor` that fetches a job it
  still runs counts it once in `maxConcurrent`.

## Fairness

*Queue*: each process's reaper loop keeps taking steps (it is a timer loop that
catches every error), claims age, and a heartbeat key nobody refreshes expires
(Redis TTL). `<>[][CalmNext]` says that from some point on no sweep is aborted
and no sweeping process restarts; residue repair needs two undisturbed sweeps
of one process, since the tracker is process memory. Workers get no fairness.

*Leases and relay*: timers fire (request timeout, heartbeat, reconnect, denial
backstop), what is on an open socket arrives, jobs end, the cloud sweeps. Drops
are bounded for the leases; for the relay `<>[][RelayCalmNext]` says that from
some point on the cloud accepts and answers.

*Label monitor*: the poll loop is a timer loop that catches every error;
handlers and workers go on; from some point on GitHub and Redis do not fail.
No fairness for webhooks nor for the TTL of the dedup key: both properties hold
with every delivery lost.

*Phase loop*: one conjunct, a worker with a step to take takes it. Agent, CI
and GitHub calls have time-outs. People owe nothing.

*Job scheduler*: commands, handlers, polls and sweeps go on; visibility timeouts
pass for jobs nobody works on; from some point on Redis does not fail, no
process dies, and timeouts are long enough for the handlers. Without the last,
a job may time out and be shared for ever.

*Dispatcher*: loops, handlers and lease requests end (handlers have a run
limit, requests a timeout), timers fire (the denial backstop among them), a
process that has stopped exits and is started again. `CalmDispatcherNext`
says that eventually Redis calls succeed, no process is killed, and heartbeats
are kept in time. The last includes that a lease request ends before the
heartbeat set by `claim()` runs out. The defaults, 30 s each, leave no
margin: when the request outlasts the heartbeat, the reaper returns the claim,
the late `release()` finds no claim and counts no attempt, and without this
assumption TLC shows the item claimed and reclaimed for ever.

`EveryItemLeaves` excepts a cluster whose gate the cloud has closed
(`cluster_rejected`, tier limit 0) and does not claim that the work succeeded:
an item leaves by completion, dead-lettering or the repair of residue.

## Proofs

Every invariant a passing run checks is a theorem, and so are its action
properties and refinements. TLC shows them on the instances above, the
theorems for every value of the constants: any number of items, workers, processes,
sockets, handlers, jobs and faults, and every cap. Constants are only assumed
to be what their declarations say: counts and caps are naturals, those the code
never lets be 0 are positive, clock readings are naturals, the "none" values
differ from what they stand beside, sweepers are processes, workers and job
processors are different threads. Each is an `ASSUME` of the module that
declares the constant.

The shape is the same throughout: an inductive invariant `...Inv`, a lemma for
the initial states, one for a step with a case for each action, and the
theorems as its consequences by `PTL`.

| Proof module | Theorems | Inductive invariant, and why the property is not enough |
|---|---|---|
| `RedisQueueProofs` | `TypeCorrect`, `OneOwnerHolds`, `UntrackedOnlyByStaleCompleteOrSweep`, `RedisKeepsContract` (refinement) | `TypeOK /\ OneOwner`, where `OneOwner` speaks of the items outside `tainted`: once an index entry is gone an enqueue makes a second copy, so the claim is restricted to items to which this has not happened. `FiniteCopies` for the refinement: copies can be counted only if there are finitely many |
| `WorkerDispatcherProofs` | `DispatcherTypeCorrect`, `DispatcherUsesQueue` (refinement), `DispatcherOneOwner`, `DispatcherUntracks`, `DispatcherKeepsContract`, `OneActiveWithoutLeases` | `BusyHolds`: past `claim()` a worker still has its item, or its next call would not be one the queue allows; `StaleAtHome`: a reaper refers to workers of its own process, or a dying process would drop another's item. `Serial`, without leases: all jobs of a process past the check of the cap are one |
| `InMemoryQueueProofs` | `InMemoryTypeCorrect`, `PendingSortedHolds`, `NoResidueHolds`, `KeepsContractHolds` (refinement) | the three invariants together: the search is right only on a sorted array, and the array is sorted only if the search is right |
| `LeaseManagerProofs` | `LeaseTypeCorrect`, `NoEarlyExpiryHolds`, `ExpiresIffReportedHolds` | `CountIsTrue`: the manager's count is the number of heartbeats that did not leave, for a client that throws; `SilentNeverExpires` for one that does not |
| `ClusterRelayProofs` | `RelayTypeCorrect`, `OneSocketHolds` | `LiveIsAwaited`, `WsIsAwaited`: the only socket that may be alive is the one the loop waits for, which the code states nowhere and a late "close" of another does not change |
| `LabelMonitorProofs` | `MonitorTypeCorrect`, `TriggerKeptUntilQueuedHolds` | `NoneStrips`: while a trigger is fresh no handler stands at the mark or the removal, and `enqueue` is the only step that leads there |
| `PhaseLoopProofs` | `PhaseTypeCorrect`, `GatesRespectedHolds`, `RemediationBudgetHolds`, `FinishedWorkAcceptedHolds`, `FinishedMeansValidatedHolds`, `NoSilentStopHolds` | eight parts, which say for every trace a dead run can leave (labels, sidecar, mirror, start ref) what must have happened before it was left. `BudgetCounted`: an attempt is counted in the sidecar or in Redis, or known to be lost, or its agent still runs, and then the cap is not reached; `WorkInRange`: code nobody accepted is within the range of a ref that Redis keeps |
| `JobSchedulerProofs` | `NoJobLostHolds`, `DeadOnlyByFailuresHolds` | `Kept`: a job in no set is in the hand of a thread whose remaining commands will put it into one; `AllAccounted`: no count of attempts stored, read or about to be written runs ahead of the failures and their repeats |

*Queue.* The proof of `OneOwnerHolds` sorts the steps by what they do to
copies: steps that only remove (`Shrinks`), steps that turn a claim into a
pending member (`ClaimToPending`: release, requeue, reclaim), the claim itself,
and the enqueue, whose guard makes the item have no copy at all (`NoWork`). An
item becomes tainted only by a `complete()` after a lost claim or by the residue
sweep, because an owner that completes or dead-letters leaves no copy behind
(`OwnerLeavesNothing`). `RedisKeepsContract` numbers the copies of a pending
member, so that a step adds or drops a single element of a finite set
(`AddedCopy`, `PoppedCopy`, `DroppedClaim`); a claim or a release then takes one
from one set and adds one to the other, which the contract does not see.
`DispatcherUsesQueue` carries all three over to the composition.

*Binary search.* `Search` is a recursive function, and its defining equation
holds only if a function with it exists. `BisectionExists` constructs one:
applying the loop's body once more to a function that obeys the equation on
ranges up to width n gives one that obeys it up to n + 1, and a least n without
such a function would contradict that. `SearchSplits` takes a least range on
which the answer is wrong and looks at its half. Both replace induction by the
least-number principle, which follows from the library's theorem on
well-founded relations without an operator parameter. `KeepsContractHolds` then counts copies: an
insert renumbers the places of the array one to one and adds one (`InsertCounts`,
`Renumbered`).

*Phase loop.* Two statements turned out to be false in general and were
corrected, as described under the exceptions: `GatesRespected` for questions
asked again, and the cap when `maxRemediations` is 0.

*Job scheduler.* `failures` and `fate` are history; the proof of
`DeadOnlyByFailures` needs the number of threads that are about to write to be
finite, which holds because each began with a failure and `AllAccounted`
carries it along. `AllLimited` bounds the second nacks: each one, made or still
possible, belongs to a failure of its own, so no failure is counted three times.

Only model-checked: all liveness (`ResidueRepaired`, `OrphanRecovered`,
`JobsSettle`, `EveryItemLeaves`, `NoReplicaStalls`, `RequestsSettle`,
`OrphanedLeaseFreed`, `Reconnects`, `TriggerServed`, `ResumeServed`, `RunEnds`),
since the provers installed do not treat fairness and ENABLED; and
the four runs that are expected to fail.

## Not modelled

The repository has some 200 000 lines of implementation in over a thousand files; most
of them build requests, parse answers, render views and text, or are schemas.
A model of them would have no state to explore. What is left out for other
reasons:

* the other monitors (merge conflicts, dependencies, clarification answers, PR
  feedback): each polls and calls `enqueueIfAbsent()` as `LabelMonitor` does;
* address-pr-feedback, the epic workflow and sibling pull requests in `worker/`:
  separate entry points into the same labels and queue;
* Redis being unreachable throughout (in-memory fall-backs of the tracker), and
  failing writes of the phase loop's two keys;
* proxied requests and tunnel frames of the relay: payloads that are passed on;
* HTTP API, SSE, conversations, launcher: request handling and process plumbing;
* message router, control plane, credential daemon, workflow engine: stateful,
  and next in the plan;
* cockpit, CLI, editor extension, integrations, configuration, learning: I/O,
  user interface, text and scoring.

## Plan

1. Done: the queue contract, the Redis adapter, the dispatcher, the in-memory
   adapter; leases and the relay client, the label monitor, the phase loop, the
   job scheduler.
2. Done: theorems for every invariant of the passing runs; `UsesQueue`; the
   refinement of `QueueContract` by both adapters and by the dispatcher.
3. Theorems next: an abstract specification of phase order that `PhaseLoop`
   implements.
4. Modules: the message router with its correlation manager and dead-letter
   queue; worker scaler; credential sessions; the workflow executor.

## Running

    tlc -config RedisQueue.cfg MCRedisQueue
    tlapm RedisQueueProofs.tla

The other runs and the proof modules are listed in `PROJECT.json`.
`PhaseLoopProofs` takes a few minutes, the others about one at most.
