-------------------------- MODULE WorkerDispatcher --------------------------
(***************************************************************************)
(* WorkerDispatcher (packages/orchestrator/src/services/                   *)
(* worker-dispatcher.ts) composed with the queue it drives.  Every worker  *)
(* container is one member of Processes: it polls, runs handlers,          *)
(* refreshes heartbeats, runs the reaper loop, pauses after a lease        *)
(* denial, stops gracefully or dies.  An await is where other actors may   *)
(* step in, so an action ends at the first await that another actor's step *)
(* could make matter.                                                      *)
(*                                                                         *)
(* The handler (the workflow run) and the cloud's answer to a lease        *)
(* request are outside: their outcomes are chosen freely.                  *)
(***************************************************************************)
EXTENDS RedisQueue

CONSTANTS
  Processes,        \* worker containers
  LeaseEnforced     \* config.lease.enforce: a lease manager is set

\* A process outside Sweepers never reaches the Redis half of its reaper loop
\* (a bound: in the code every process runs it).
ASSUME ProcessAssumption ==
  Sweepers \subseteq Processes /\ None \notin Processes /\ None \notin Workers
ASSUME LeaseAssumption == LeaseEnforced \in BOOLEAN

VARIABLES
  phase,      \* what the code that polled under this worker id is doing
  home,       \* the process it runs in
  viaLoop,    \* ids pollLoop, not resumePolling, is polling under
  active,     \* the ids in their process's activeWorkers map
  leased,     \* the ids in their process's workerLeases map
  paused,     \* processes with pollingPaused
  closed,     \* processes whose lease manager says rejected or tier limit 0
  stopping,   \* processes whose stop() has begun
  draining,   \* those whose stop() found a job and waits for it
  stale       \* reapStaleWorkers: the id found without a heartbeat

jobVars   == <<phase, home, viaLoop, active, leased>>
procVars  == <<paused, closed, stopping, draining, stale>>
dispVars  == <<jobVars, procVars>>
allVars   == <<queueVars, dispVars>>

Phases == {"none", "claiming", "leasing", "denied", "errored", "running", "rearm", "finally"}

-----------------------------------------------------------------------------
(* Polling *)

Goes(w, ph) == phase' = [phase EXCEPT ![w] = ph]

JobsOf(p)   == {w \in Workers : home[w] = p}
ActiveOf(p) == active \cap JobsOf(p)
UnusedId(w) == phase[w] = "none" /\ Fresh(w) /\ \A p \in Processes : stale[p] # w

\* pollLoop awaits its own pollOnce before it sleeps and polls again.
LoopBusy(p) == \E w \in JobsOf(p) \cap viaLoop : phase[w] \in {"claiming", "leasing", "denied", "errored"}

\* Mutant: the worker cap is off by one.
PollAllowedOffByOne(p) == p \notin paused /\ p \notin closed /\ Cardinality(ActiveOf(p)) <= 1

\* The checks of pollOnce before its first await.  A job enters activeWorkers
\* only after claim() and requestLease() have returned.
PollAllowed(p) == p \notin paused /\ p \notin closed /\ ActiveOf(p) = {}

StartPoll(p, w, loop) ==
  /\ UnusedId(w)
  /\ Goes(w, "claiming")
  /\ home' = [home EXCEPT ![w] = p]
  /\ viaLoop' = IF loop THEN viaLoop \cup {w} ELSE viaLoop

PollOnce(p, w) ==
  /\ p \notin stopping
  /\ ~LoopBusy(p)
  /\ PollAllowed(p)
  /\ StartPoll(p, w, TRUE)
  /\ UNCHANGED <<queueVars, active, leased, procVars>>

PollEnds(w) ==
  /\ Goes(w, "none")
  /\ home' = [home EXCEPT ![w] = None]
  /\ viaLoop' = viaLoop \ {w}

\* claim() returned null: the queue is empty ...
ClaimFindsNothing(w) ==
  /\ phase[w] = "claiming"
  /\ \A m \in Member : pending[m] = 0
  /\ PollEnds(w)
  /\ UNCHANGED <<queueVars, active, leased, procVars>>

\* ... or Redis failed, before or after it ran the script.
ClaimFails(w) ==
  /\ phase[w] = "claiming"
  /\ UNCHANGED queueVars \/ ClaimReplyLost(w)
  /\ PollEnds(w)
  /\ UNCHANGED <<active, leased, procVars>>

\* With a lease manager the claimed item waits for requestLease(); meanwhile
\* nothing refreshes its heartbeat.  Without one it is dispatched at once.
ClaimReturns(w) ==
  /\ phase[w] = "claiming"
  /\ ClaimItem(w)
  /\ Goes(w, IF LeaseEnforced THEN "leasing" ELSE "running")
  /\ active' = IF LeaseEnforced THEN active ELSE active \cup {w}
  /\ viaLoop' = IF LeaseEnforced THEN viaLoop ELSE viaLoop \ {w}
  /\ UNCHANGED <<home, leased, procVars>>

\* Granted, or no answer in time (fail-open): startHeartbeat, run the handler.
Dispatch(w, lease) ==
  /\ phase[w] = "leasing"
  /\ heartbeat' = heartbeat \cup {w}
  /\ Goes(w, "running")
  /\ active' = active \cup {w}
  /\ leased' = leased \cup lease
  /\ UNCHANGED <<pending, claimed, inFlight, deadLetter, held, sweepVars, tainted>>
  /\ viaLoop' = viaLoop \ {w}
  /\ UNCHANGED <<home, procVars>>

LeaseGranted(w)  == Dispatch(w, {w})
LeaseTimedOut(w) == Dispatch(w, {})

\* Denied or errored: release() first; only then does a denial pause polling.
\* (The adapter logs a Redis error in release() and returns as if it had run.)
LeaseRefusedBy(w, release) ==
  /\ phase[w] = "leasing"
  /\ release
  /\ \/ Goes(w, "denied")
     \/ Goes(w, "errored")
  /\ UNCHANGED <<home, viaLoop, active, leased, procVars>>

LeaseRefused(w)     == LeaseRefusedBy(w, Release(w))
LeaseRefusedLost(w) == LeaseRefusedBy(w, UNCHANGED queueVars)

PollReturns(w) ==
  /\ phase[w] \in {"denied", "errored"}
  /\ paused' = IF phase[w] = "denied" THEN paused \cup {home[w]} ELSE paused
  /\ PollEnds(w)
  /\ held' = [held EXCEPT ![w] = None]
  /\ UNCHANGED <<redisVars, sweepVars, tainted, active, leased, closed, stopping, draining, stale>>

\* Mutant: a resume is ignored while no worker is active.
ResumeOnlyBusy(p) ==
  /\ p \in paused
  /\ ActiveOf(p) # {}
  /\ paused' = paused \ {p}
  /\ UNCHANGED <<queueVars, jobVars, closed, stopping, draining, stale>>

\* slot_available or the denialResumeMs backstop: clear the flag and poll at
\* once, beside whatever pollLoop is doing.
ResumePolling(p) ==
  /\ p \in paused
  /\ paused' = paused \ {p}
  /\ IF p \notin closed /\ ActiveOf(p) = {}
       THEN \E w \in Workers : StartPoll(p, w, FALSE)
       ELSE UNCHANGED <<phase, home, viaLoop>>
  /\ UNCHANGED <<queueVars, active, leased, closed, stopping, draining, stale>>

\* cluster_rejected, or a tier limit of 0.
GateCloses(p) ==
  /\ LeaseEnforced
  /\ p \notin closed
  /\ closed' = closed \cup {p}
  /\ UNCHANGED <<queueVars, jobVars, paused, stopping, draining, stale>>

\* tier_info, or a denial of a concurrent request, brings a limit above 0.
GateOpens(p) ==
  /\ p \in closed
  /\ closed' = closed \ {p}
  /\ UNCHANGED <<queueVars, jobVars, paused, stopping, draining, stale>>

-----------------------------------------------------------------------------
(* Running a handler *)

\* The handler returned: complete(), then perhaps the re-arm.
HandlerReturns(w) ==
  /\ phase[w] = "running"
  /\ Complete(w)
  /\ \/ Goes(w, "rearm")
     \/ Goes(w, "finally")
  /\ UNCHANGED <<home, viaLoop, active, leased, procVars>>

\* enqueueIfAbsent(rearmItem): the same itemKey at resume priority.
Rearm(w) ==
  /\ phase[w] = "rearm"
  /\ \/ Enqueue(held[w], "resume")
     \/ UNCHANGED queueVars           \* in flight again, or a Redis error
  /\ Goes(w, "finally")
  /\ UNCHANGED <<home, viaLoop, active, leased, procVars>>

\* The handler threw: release().
HandlerThrows(w) ==
  /\ phase[w] = "running"
  /\ Release(w)
  /\ Goes(w, "finally")
  /\ UNCHANGED <<home, viaLoop, active, leased, procVars>>

\* complete() or release() logged a Redis error and did nothing.
FinishLost(w) ==
  /\ phase[w] = "running"
  /\ Goes(w, "finally") \/ Goes(w, "rearm")
  /\ UNCHANGED <<queueVars, home, viaLoop, active, leased, procVars>>

\* Mutant: the finally block also deletes the claim hash.
FinallyDropsClaim(w) ==
  /\ phase[w] = "finally"
  /\ HDelClaim(w)
  /\ held' = [held EXCEPT ![w] = None]
  /\ Goes(w, "none")
  /\ home' = [home EXCEPT ![w] = None]
  /\ active' = active \ {w}
  /\ leased' = leased \ {w}
  /\ UNCHANGED <<pending, inFlight, deadLetter, sweepVars, tainted, viaLoop, procVars>>

\* Mutant: the finally block leaves the worker in activeWorkers.
FinallyKeepsActive(w) ==
  /\ phase[w] = "finally"
  /\ heartbeat' = heartbeat \ {w}
  /\ held' = [held EXCEPT ![w] = None]
  /\ Goes(w, "none")
  /\ leased' = leased \ {w}
  /\ UNCHANGED <<pending, claimed, inFlight, deadLetter, sweepVars, tainted, home, active, viaLoop, procVars>>

\* The finally block.  The reaper may still hold a reference to the worker.
Finally(w) ==
  /\ phase[w] = "finally"
  /\ heartbeat' = heartbeat \ {w}
  /\ held' = IF \E p \in Processes : stale[p] = w THEN held ELSE [held EXCEPT ![w] = None]
  /\ Goes(w, "none")
  /\ home' = [home EXCEPT ![w] = None]
  /\ active' = active \ {w}
  /\ leased' = leased \ {w}
  /\ UNCHANGED <<pending, claimed, inFlight, deadLetter, sweepVars, tainted, viaLoop, procVars>>

\* The interval of startHeartbeat, until finally, lease expiry or the reaper
\* clears it.
RefreshHeartbeat(w) ==
  /\ w \in active /\ w \notin heartbeat
  /\ \A p \in Processes : stale[p] # w
  /\ HeartbeatSet(w)
  /\ UNCHANGED dispVars

\* handleLeaseExpired: the worker leaves both maps and its item is requeued;
\* the handler itself is not interrupted.
LeaseExpired(w) ==
  /\ w \in leased \cap active
  /\ active' = active \ {w}
  /\ leased' = leased \ {w}
  /\ RequeueForResume(w) \/ UNCHANGED queueVars
  /\ UNCHANGED <<phase, home, viaLoop, procVars>>

-----------------------------------------------------------------------------
(* The reaper loop, shutdown and crashes *)

\* reapStaleWorkers: EXISTS said no; the interval is cleared ...
ReapStaleCheck(p, w) ==
  /\ p \notin stopping
  /\ p \in Sweepers => sweepPc[p] = "idle"
  /\ stale[p] = None
  /\ w \in ActiveOf(p) /\ w \notin heartbeat
  /\ stale' = [stale EXCEPT ![p] = w]
  /\ UNCHANGED <<queueVars, jobVars, paused, closed, stopping, draining>>

\* ... and release() is called, whatever happened in between.
ReapStaleBy(p, release) ==
  /\ stale[p] # None
  /\ release
  /\ active' = active \ {stale[p]}
  /\ stale' = [stale EXCEPT ![p] = None]
  /\ UNCHANGED <<phase, home, viaLoop, leased, paused, closed, stopping, draining>>

ReapStaleRelease(p) == ReapStaleBy(p, Release(stale[p]))
ReapStaleLost(p)    == ReapStaleBy(p, UNCHANGED queueVars)

\* The reaper held the last reference to a finished worker.
ReapedWorkerForgotten(w) ==
  /\ phase[w] = "none"
  /\ \A p \in Processes : stale[p] # w
  /\ Forget(w)
  /\ UNCHANGED dispVars

Sweep(p) ==
  /\ p \in Sweepers
  /\ stale[p] = None
  /\ ReapNext(p) \/ ReconcileNext(p)
  /\ sweepPc[p] = "idle" => p \notin stopping
  /\ UNCHANGED dispVars

\* stop(): the loops end and the backstop timer is cleared; with a job in
\* activeWorkers stop() waits for it, for shutdownTimeoutMs at most.
StopBegins(p) ==
  /\ p \notin stopping
  /\ stopping' = stopping \cup {p}
  /\ draining' = IF ActiveOf(p) = {} THEN draining ELSE draining \cup {p}
  /\ UNCHANGED <<queueVars, jobVars, paused, closed, stale>>

\* The timeout is over: release() what is still active.
StopReleasesBy(w, release) ==
  /\ w \in active /\ home[w] \in draining
  /\ release
  /\ active' = active \ {w}
  /\ UNCHANGED <<phase, home, viaLoop, leased, procVars>>

StopReleases(w)    == StopReleasesBy(w, Release(w))
StopReleaseLost(w) == StopReleasesBy(w, UNCHANGED queueVars)

StopEnds(p) ==
  /\ p \in draining
  /\ ActiveOf(p) = {}
  /\ draining' = draining \ {p}
  /\ UNCHANGED <<queueVars, jobVars, paused, closed, stopping, stale>>

\* The process exits or is killed, at any point, and is started again.
ProcessDies(p) ==
  /\ IF p \in Sweepers THEN SweepReset(p) ELSE UNCHANGED sweepVars
  /\ held' = [w \in Workers |-> IF home[w] = p \/ stale[p] = w THEN None ELSE held[w]]
  /\ phase' = [w \in Workers |-> IF home[w] = p THEN "none" ELSE phase[w]]
  /\ home' = [w \in Workers |-> IF home[w] = p THEN None ELSE home[w]]
  /\ active' = active \ JobsOf(p)
  /\ leased' = leased \ JobsOf(p)
  /\ paused' = paused \ {p}
  /\ closed' = closed \ {p}
  /\ stopping' = stopping \ {p}
  /\ draining' = draining \ {p}
  /\ stale' = [stale EXCEPT ![p] = None]
  /\ viaLoop' = viaLoop \ JobsOf(p)
  /\ UNCHANGED <<redisVars, tainted>>

-----------------------------------------------------------------------------
DispatcherInit ==
  /\ Init
  /\ phase = [w \in Workers |-> "none"]
  /\ home = [w \in Workers |-> None]
  /\ viaLoop = {} /\ active = {} /\ leased = {}
  /\ paused = {} /\ closed = {} /\ stopping = {} /\ draining = {}
  /\ stale = [p \in Processes |-> None]

JobNext(w) ==
  \/ ClaimReturns(w) \/ LeaseGranted(w) \/ LeaseTimedOut(w) \/ LeaseRefused(w) \/ PollReturns(w)
  \/ HandlerReturns(w) \/ Rearm(w) \/ HandlerThrows(w) \/ Finally(w)
  \/ ReapedWorkerForgotten(w) \/ StopReleases(w)
  \/ ClaimFindsNothing(w)

\* In time: the interval of startHeartbeat fires at half the TTL, and the
\* lease request of a claimed item ends before the key claim() set expires.
KeepsTime(w) == w \in active \/ phase[w] = "leasing"

EnvNext(w) ==
  \/ RefreshHeartbeat(w)
  \/ ~KeepsTime(w) /\ HeartbeatExpires(w) /\ UNCHANGED dispVars
  \/ GraceWindowPasses(w) /\ UNCHANGED dispVars

ProcNext(p) ==
  \/ \E w \in Workers : PollOnce(p, w)
  \/ ResumePolling(p) \/ Sweep(p)
  \/ \E w \in Workers : ReapStaleCheck(p, w)
  \/ ReapStaleRelease(p) \/ GateOpens(p) \/ StopEnds(p)

Fault ==
  \/ \E w \in Workers : 
       \/ ClaimFails(w) \/ LeaseExpired(w)
       \/ LeaseRefusedLost(w) \/ FinishLost(w) \/ StopReleaseLost(w)
  \/ \E w \in Workers : KeepsTime(w) /\ HeartbeatExpires(w) /\ UNCHANGED dispVars
  \/ \E p \in Processes : GateCloses(p) \/ StopBegins(p) \/ ProcessDies(p) \/ ReapStaleLost(p)
  \/ \E p \in Sweepers : stale[p] = None /\ UNCHANGED dispVars
                          /\ (ReapAborted(p) \/ ReconcileAborted(p) \/ \E k \in Items : ReconcileRemoveError(p, k))

\* No step of this kind is a failure; a process whose stop() is over exits.
CalmDispatcherNext ==
  \/ EnqueueNext /\ UNCHANGED dispVars
  \/ \E w \in Workers : JobNext(w) \/ EnvNext(w)
  \/ \E p \in Processes : ProcNext(p) \/ (p \in stopping \ draining /\ ProcessDies(p))

DispatcherNext == CalmDispatcherNext \/ Fault

DispatcherSpec == DispatcherInit /\ [][DispatcherNext]_allVars

-----------------------------------------------------------------------------
(* Properties *)

\* Every variable keeps its shape; only a job that runs is in a map.
DispatcherTypeOK ==
  /\ TypeOK
  /\ phase \in [Workers -> Phases]
  /\ home \in [Workers -> Processes \cup {None}]
  /\ viaLoop \subseteq Workers /\ active \subseteq Workers /\ leased \subseteq Workers
  /\ paused \subseteq Processes /\ closed \subseteq Processes
  /\ draining \subseteq stopping /\ stopping \subseteq Processes
  /\ stale \in [Processes -> Workers \cup {None}]
  /\ \A w \in Workers : (phase[w] = "none") <=> (home[w] = None)
  /\ \A w \in active \cup leased : phase[w] \in {"running", "rearm", "finally"}

\* The dispatcher uses the queue only as the queue's specification allows, so
\* everything proved of RedisQueue holds of the composition.
UsesQueue == Spec

\* A container has at most one entry in activeWorkers.
OneActivePerProcess == \A p \in Processes : Cardinality(ActiveOf(p)) <= 1

\* Every live copy of an item is in the in-flight index.
WorkIsTracked == \A k \in Items : HasWork(k) => k \in inFlight

\* An item is dead-lettered only because its handler threw.
DeadLetterOnlyByHandler ==
  [][deadLetter' # deadLetter => \E w \in Workers : HandlerThrows(w)]_allVars

-----------------------------------------------------------------------------
(* Liveness.  Loops keep running, handlers and lease requests end, timers  *)
(* fire, a process that stops exits; from some point on Redis, the relay   *)
(* and the processes do not fail any more.                                 *)

FairDispatcherSpec ==
  /\ DispatcherSpec
  /\ \A w \in Workers :
       /\ WF_allVars(JobNext(w))
       /\ WF_allVars(GraceWindowPasses(w) /\ UNCHANGED dispVars)
       /\ WF_allVars(held[w] = None /\ HeartbeatExpires(w) /\ UNCHANGED dispVars)
  /\ \A p \in Processes :
       /\ WF_allVars(\E w \in Workers : PollOnce(p, w))
       /\ WF_allVars(ResumePolling(p))
       /\ WF_allVars(ReapStaleRelease(p))
       /\ WF_allVars(Sweep(p))
       /\ WF_allVars(StopEnds(p))
       /\ WF_allVars(p \in stopping \ draining /\ ProcessDies(p))
  /\ <>[][CalmDispatcherNext]_allVars

\* What was enqueued is eventually completed or dead-lettered, and an index
\* entry without work is eventually removed: no crash, lost reply, reclaim,
\* pause or graceful stop leaves an item blocked for ever.
EveryItemLeaves == \A k \in Items : k \in inFlight ~> (k \notin inFlight \/ closed = Processes)

\* No container falls silent: it polls or works again and again, whatever
\* denials, missed slot_available broadcasts, shutdowns and crashes it went
\* through -- unless the cloud has closed its gate.
NoReplicaStalls == \A p \in Processes : []<>(p \in closed \/ JobsOf(p) # {})
=============================================================================
