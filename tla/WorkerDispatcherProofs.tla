----------------------- MODULE WorkerDispatcherProofs -----------------------
(***************************************************************************)
(* Proofs about WorkerDispatcher for every set of processes, worker ids    *)
(* and items, with and without a lease manager.                            *)
(*                                                                         *)
(* The dispatcher implements the queue's specification only because a      *)
(* worker that has got past claim() still has the item claim() gave it     *)
(* (BusyHolds): otherwise it would set a heartbeat, forget or re-arm an    *)
(* item the queue knows nothing of.  BusyHolds in turn needs StaleAtHome:  *)
(* the reaper of one process never refers to a worker of another, so a     *)
(* dying process drops only items of its own workers.  The two are         *)
(* inductive together with the types.                                      *)
(***************************************************************************)
EXTENDS WorkerDispatcher, RedisQueueProofs

\* Past claim(), until runWorker or pollOnce returns, a worker has its item.
BusyHolds == \A w \in Workers : phase[w] \notin {"none", "claiming"} => held[w] # None

\* What a process's reaper refers to is, or was until it finished, its own.
StaleAtHome == \A p \in Processes : stale[p] # None => home[stale[p]] \in {p, None}

\* The inductive invariant.
DispatcherInv == DispatcherTypeOK /\ BusyHolds /\ StaleAtHome

-----------------------------------------------------------------------------
(* The dispatcher's steps as steps of the queue *)

\* A step of a worker, a sweeper or an enqueue is a step of the queue.
LEMMA QueueNext ==
  /\ EnqueueNext => Next
  /\ \A w \in Workers : WorkerNext(w) => Next
  /\ \A s \in Sweepers : ReapNext(s) \/ ReconcileNext(s) \/ SweepFault(s) => Next
  /\ WorkersDie => Next
BY DEF Next, CalmNext

\* Every step of a job leaves the queue alone or is a step of its worker.
LEMMA JobQueueStep ==
  ASSUME DispatcherInv, NEW w \in Workers, JobNext(w)
  PROVE  [Next]_queueVars
<1>1. (held[w] # None /\ held[w] \in Items) \/ phase[w] \in {"none", "claiming"}
  BY DEF DispatcherInv, BusyHolds, DispatcherTypeOK, TypeOK
<1>2. CASE ClaimReturns(w)
  BY <1>2, QueueNext DEF ClaimReturns, WorkerNext
<1>3. CASE LeaseGranted(w) \/ LeaseTimedOut(w)
  <2>1. PICK lease \in SUBSET Workers : Dispatch(w, lease)
    BY <1>3 DEF LeaseGranted, LeaseTimedOut
  <2>2. HeartbeatSet(w)
    BY <1>1, <2>1 DEF Dispatch, HeartbeatSet
  <2> QED
    BY <2>2, QueueNext DEF WorkerNext
<1>4. CASE LeaseRefused(w)
  BY <1>4, QueueNext DEF LeaseRefused, LeaseRefusedBy, WorkerNext
<1>5. CASE PollReturns(w)
  <2>1. Forget(w)
    BY <1>1, <1>5 DEF PollReturns, Forget, redisVars
  <2> QED
    BY <2>1, QueueNext DEF WorkerNext
<1>6. CASE HandlerReturns(w)
  BY <1>6, QueueNext DEF HandlerReturns, WorkerNext
<1>7. CASE Rearm(w)
  <2>1. held[w] \in Items
    BY <1>1, <1>7 DEF Rearm
  <2>2. Enqueue(held[w], "resume") => EnqueueNext
    BY <2>1 DEF EnqueueNext
  <2> QED
    BY <1>7, <2>2, QueueNext DEF Rearm
<1>8. CASE HandlerThrows(w)
  BY <1>8, QueueNext DEF HandlerThrows, WorkerNext
<1>9. CASE Finally(w)
  <2>1. CASE \E p \in Processes : stale[p] = w
    <3>1. HeartbeatExpires(w) \/ UNCHANGED queueVars
      BY <1>9, <2>1 DEF Finally, HeartbeatExpires, queueVars, redisVars
    <3> QED
      BY <3>1, QueueNext DEF WorkerNext
  <2>2. CASE ~\E p \in Processes : stale[p] = w
    <3>1. Forget(w)
      BY <1>1, <1>9, <2>2 DEF Finally, Forget
    <3> QED
      BY <3>1, QueueNext DEF WorkerNext
  <2> QED
    BY <2>1, <2>2
<1>10. CASE ReapedWorkerForgotten(w)
  BY <1>10, QueueNext DEF ReapedWorkerForgotten, WorkerNext
<1>11. CASE StopReleases(w)
  BY <1>11, QueueNext DEF StopReleases, StopReleasesBy, WorkerNext
<1>12. CASE ClaimFindsNothing(w)
  BY <1>12 DEF ClaimFindsNothing
<1> QED
  BY <1>2, <1>3, <1>4, <1>5, <1>6, <1>7, <1>8, <1>9, <1>10, <1>11, <1>12 DEF JobNext

\* A dying process restarts its sweep and drops the items of its workers.
LEMMA DeathQueueStep ==
  ASSUME NEW p \in Processes, ProcessDies(p)
  PROVE  Next
<1>1. HoldersGone
  <2> DEFINE gone == {w \in Workers : home[w] = p \/ stale[p] = w}
  <2>1. held' = [w \in Workers |-> IF w \in gone THEN None ELSE held[w]]
    BY DEF ProcessDies
  <2> QED
    BY <2>1 DEF HoldersGone
<1>2. CASE p \in Sweepers
  <2>1. ProcessRestart(p)
    BY <1>1, <1>2 DEF ProcessDies, ProcessRestart
  <2> QED
    BY <1>2, <2>1, QueueNext DEF SweepFault
<1>3. CASE p \notin Sweepers
  <2>1. WorkersDie
    BY <1>1, <1>3 DEF ProcessDies, WorkersDie
  <2> QED
    BY <2>1, QueueNext
<1> QED
  BY <1>2, <1>3

\* Nothing a process does besides running jobs and dying, and no fault, does
\* to the queue what the queue does not allow.
LEMMA ProcQueueStep ==
  ASSUME DispatcherInv, NEW p \in Processes, ProcNext(p)
  PROVE  [Next]_queueVars
<1>1. CASE \E w \in Workers : PollOnce(p, w)
  BY <1>1 DEF PollOnce
<1>2. CASE ResumePolling(p) \/ GateOpens(p) \/ StopEnds(p)
  BY <1>2 DEF ResumePolling, GateOpens, StopEnds
<1>3. CASE Sweep(p)
  BY <1>3, QueueNext DEF Sweep
<1>4. CASE \E w \in Workers : ReapStaleCheck(p, w)
  BY <1>4 DEF ReapStaleCheck
<1>5. CASE ReapStaleRelease(p)
  <2>1. stale[p] \in Workers
    BY <1>5 DEF DispatcherInv, DispatcherTypeOK, ReapStaleRelease, ReapStaleBy
  <2>2. Release(stale[p])
    BY <1>5 DEF ReapStaleRelease, ReapStaleBy
  <2>3. WorkerNext(stale[p])
    BY <2>2 DEF WorkerNext
  <2> QED
    BY <2>1, <2>3, QueueNext
<1> QED
  BY <1>1, <1>2, <1>3, <1>4, <1>5 DEF ProcNext

\* The same for the faults.
LEMMA FaultQueueStep ==
  ASSUME DispatcherInv, Fault
  PROVE  [Next]_queueVars
<1>1. ASSUME NEW w \in Workers,
             \/ ClaimFails(w) \/ LeaseExpired(w)
             \/ LeaseRefusedLost(w) \/ FinishLost(w) \/ StopReleaseLost(w)
      PROVE  [Next]_queueVars
  <2>1. CASE ClaimFails(w)
    BY <2>1, QueueNext DEF ClaimFails, WorkerNext
  <2>2. CASE LeaseExpired(w)
    BY <2>2, QueueNext DEF LeaseExpired, WorkerNext
  <2>3. CASE LeaseRefusedLost(w)
    BY <2>3 DEF LeaseRefusedLost, LeaseRefusedBy
  <2>4. CASE FinishLost(w) \/ StopReleaseLost(w)
    BY <2>4 DEF FinishLost, StopReleaseLost, StopReleasesBy
  <2> QED
    BY <1>1, <2>1, <2>2, <2>3, <2>4
<1>2. ASSUME NEW w \in Workers, HeartbeatExpires(w)
      PROVE  [Next]_queueVars
  BY <1>2, QueueNext DEF WorkerNext
<1>3. ASSUME NEW p \in Processes, GateCloses(p) \/ StopBegins(p) \/ ProcessDies(p) \/ ReapStaleLost(p)
      PROVE  [Next]_queueVars
  <2>1. CASE GateCloses(p) \/ StopBegins(p)
    BY <2>1 DEF GateCloses, StopBegins
  <2>2. CASE ProcessDies(p)
    BY <2>2, DeathQueueStep
  <2>3. CASE ReapStaleLost(p)
    BY <2>3 DEF ReapStaleLost, ReapStaleBy
  <2> QED
    BY <1>3, <2>1, <2>2, <2>3
<1>4. ASSUME NEW p \in Sweepers,
             ReapAborted(p) \/ ReconcileAborted(p) \/ \E k \in Items : ReconcileRemoveError(p, k)
      PROVE  [Next]_queueVars
  BY <1>4, QueueNext DEF SweepFault
<1> QED
  BY <1>1, <1>2, <1>3, <1>4 DEF Fault

\* Every step of the dispatcher is a step of the queue or leaves it alone.
LEMMA QueueStep == DispatcherInv /\ [DispatcherNext]_allVars => [Next]_queueVars
<1> SUFFICES ASSUME DispatcherInv, [DispatcherNext]_allVars
             PROVE  [Next]_queueVars
  OBVIOUS
<1>1. CASE UNCHANGED allVars
  BY <1>1 DEF allVars
<1>2. CASE EnqueueNext
  BY <1>2, QueueNext
<1>3. ASSUME NEW w \in Workers, EnvNext(w)
      PROVE  [Next]_queueVars
  <2>1. WorkerNext(w)
    BY <1>3 DEF EnvNext, RefreshHeartbeat, WorkerNext
  <2> QED
    BY <2>1, QueueNext
<1>4. CASE CalmDispatcherNext
  BY <1>2, <1>3, <1>4, JobQueueStep, ProcQueueStep, DeathQueueStep DEF CalmDispatcherNext
<1>5. CASE Fault
  BY <1>5, FaultQueueStep
<1> QED
  BY <1>1, <1>4, <1>5 DEF DispatcherNext

-----------------------------------------------------------------------------
(* The inductive invariant *)

\* What the dispatcher's own variables look like.
DispatcherShape ==
  /\ phase \in [Workers -> Phases]
  /\ home \in [Workers -> Processes \cup {None}]
  /\ viaLoop \subseteq Workers /\ active \subseteq Workers /\ leased \subseteq Workers
  /\ paused \subseteq Processes /\ closed \subseteq Processes
  /\ draining \subseteq stopping /\ stopping \subseteq Processes
  /\ stale \in [Processes -> Workers \cup {None}]
  /\ \A w \in Workers : (phase[w] = "none") <=> (home[w] = None)
  /\ \A w \in active \cup leased : phase[w] \in {"running", "rearm", "finally"}

\* The part of it that only the dispatcher's own variables decide.
DispatcherOwn == DispatcherShape /\ BusyHolds /\ StaleAtHome

\* The invariant is the queue's types and what the dispatcher adds.
LEMMA InvParts == DispatcherInv <=> TypeOK /\ DispatcherOwn
BY DEF DispatcherInv, DispatcherTypeOK, DispatcherOwn, DispatcherShape

\* Only claim(), the end of a job and a crash change what a worker holds.
LEMMA WorkerCallKeepsHeld ==
  ASSUME NEW w,
         \/ Release(w) \/ RequeueForResume(w) \/ Complete(w)
         \/ HeartbeatExpires(w) \/ HeartbeatSet(w) \/ GraceWindowPasses(w)
  PROVE  held' = held
BY DEF Release, ReleaseRetry, ReleaseDeadLetter, ClaimAlreadyCleared, RequeueForResume, RequeueResume,
       Complete, HeartbeatExpires, HeartbeatSet, GraceWindowPasses

\* No sweep touches it, and no enqueue.
LEMMA SweepKeepsHeld ==
  ASSUME NEW s,
         \/ ReapNext(s) \/ ReconcileNext(s) \/ ReapAborted(s) \/ ReconcileAborted(s)
         \/ \E k \in Items : ReconcileRemoveError(s, k)
  PROVE  held' = held
<1>1. CASE ReapNext(s)
  BY <1>1 DEF ReapNext, ReapScan, ReapRead, ReclaimOrphan, ReclaimSkipped, ReapEnd
<1>2. CASE ReconcileNext(s)
  BY <1>2 DEF ReconcileNext, ReconcileSnapshotIndex, ReconcileSnapshotPending, ReconcileScanClaims,
              ReconcileReadClaim, ReconcileGate, ReconcileRemove, ReconcileEnd
<1>3. CASE ReapAborted(s) \/ ReconcileAborted(s) \/ \E k \in Items : ReconcileRemoveError(s, k)
  BY <1>3 DEF ReapAborted, ReconcileAborted, ReconcileRemoveError
<1> QED
  BY <1>1, <1>2, <1>3

\* An enqueue does not either.
LEMMA EnqueueKeepsHeld ==
  ASSUME NEW k, NEW reason, Enqueue(k, reason)
  PROVE  held' = held
BY DEF Enqueue

\* A step that changes neither the dispatcher's variables nor what is held.
LEMMA OwnStutter ==
  ASSUME DispatcherOwn, UNCHANGED dispVars, held' = held
  PROVE  DispatcherOwn'
BY DEF DispatcherOwn, DispatcherShape, BusyHolds, StaleAtHome, dispVars, jobVars, procVars

\* A poll starts under an id nothing refers to.
LEMMA StartPollOwn ==
  ASSUME DispatcherOwn, NEW p \in Processes, NEW w \in Workers, NEW loop \in BOOLEAN,
         StartPoll(p, w, loop), held' = held, UNCHANGED <<active, leased, stale, draining, stopping>>,
         paused' \subseteq Processes, closed' \subseteq Processes
  PROVE  DispatcherOwn'
<1>1. phase' = [phase EXCEPT ![w] = "claiming"] /\ home' = [home EXCEPT ![w] = p] /\ phase[w] = "none"
  BY DEF StartPoll, Goes, UnusedId
<1>2. \A q \in Processes : stale[q] # w
  BY DEF StartPoll, UnusedId
<1>3. viaLoop' \subseteq Workers
  BY DEF StartPoll, DispatcherOwn, DispatcherShape
<1>4. DispatcherShape'
  BY <1>1, <1>3, ProcessAssumption DEF DispatcherOwn, DispatcherShape, Phases
<1>5. BusyHolds'
  BY <1>1 DEF DispatcherOwn, BusyHolds, DispatcherShape
<1>6. StaleAtHome'
  BY <1>1, <1>2 DEF DispatcherOwn, StaleAtHome, DispatcherShape
<1> QED
  BY <1>4, <1>5, <1>6 DEF DispatcherOwn

\* A poll, or a job outside both maps, ends.
LEMMA EndsOwn ==
  ASSUME DispatcherOwn, NEW w \in Workers,
         phase' = [phase EXCEPT ![w] = "none"], home' = [home EXCEPT ![w] = None],
         \A v \in Workers : v # w => held'[v] = held[v],
         viaLoop' \subseteq Workers, active' \subseteq active, leased' \subseteq leased,
         w \notin active' \cup leased',
         paused' \subseteq Processes, UNCHANGED <<closed, draining, stopping, stale>>
  PROVE  DispatcherOwn'
<1>1. DispatcherShape'
  BY DEF DispatcherOwn, DispatcherShape, Phases
<1>2. BusyHolds'
  BY DEF DispatcherOwn, DispatcherShape, BusyHolds
<1>3. StaleAtHome'
  BY DEF DispatcherOwn, DispatcherShape, StaleAtHome
<1> QED
  BY <1>1, <1>2, <1>3 DEF DispatcherOwn

\* A job goes on to another phase with the item it holds.
LEMMA GoesOwn ==
  ASSUME DispatcherOwn, NEW w \in Workers, NEW ph \in Phases \ {"none", "claiming"},
         Goes(w, ph), phase[w] # "none", held'[w] # None,
         \A v \in Workers : v # w => held'[v] = held[v],
         viaLoop' \subseteq Workers, active' \subseteq active \cup {w}, leased' \subseteq leased \cup {w},
         w \in active' \cup leased' => ph \in {"running", "rearm", "finally"},
         UNCHANGED <<home, procVars>>
  PROVE  DispatcherOwn'
<1>1. phase' = [phase EXCEPT ![w] = ph]
  BY DEF Goes
<1>2. DispatcherShape'
  BY <1>1 DEF DispatcherOwn, DispatcherShape, procVars
<1>3. BusyHolds'
  BY <1>1 DEF DispatcherOwn, DispatcherShape, BusyHolds
<1>4. StaleAtHome'
  BY DEF DispatcherOwn, StaleAtHome, procVars
<1> QED
  BY <1>2, <1>3, <1>4 DEF DispatcherOwn

\* A worker leaves one map or both; flags of its process may change.
LEMMA MapsOwn ==
  ASSUME DispatcherOwn, held' = held, UNCHANGED <<phase, home, viaLoop>>,
         active' \subseteq active, leased' \subseteq leased,
         paused' \subseteq Processes, closed' \subseteq Processes,
         draining' \subseteq stopping', stopping' \subseteq Processes,
         stale' \in [Processes -> Workers \cup {None}],
         \A p \in Processes : stale'[p] # None => home[stale'[p]] \in {p, None}
  PROVE  DispatcherOwn'
<1>1. DispatcherShape'
  BY DEF DispatcherOwn, DispatcherShape
<1>2. BusyHolds'
  BY DEF DispatcherOwn, BusyHolds
<1>3. StaleAtHome'
  BY DEF StaleAtHome
<1> QED
  BY <1>1, <1>2, <1>3 DEF DispatcherOwn

\* The process and all its workers are gone; nothing else is touched.
LEMMA DeathOwn ==
  ASSUME DispatcherOwn, NEW p \in Processes, ProcessDies(p)
  PROVE  DispatcherOwn'
<1>1. /\ phase' = [w \in Workers |-> IF home[w] = p THEN "none" ELSE phase[w]]
      /\ home' = [w \in Workers |-> IF home[w] = p THEN None ELSE home[w]]
      /\ active' = active \ JobsOf(p) /\ leased' = leased \ JobsOf(p)
      /\ stale' = [stale EXCEPT ![p] = None]
      /\ viaLoop' \subseteq viaLoop
  BY DEF ProcessDies
<1>2. /\ paused' \subseteq paused /\ closed' \subseteq closed
      /\ stopping' = stopping \ {p} /\ draining' = draining \ {p}
  BY DEF ProcessDies
<1>3. held' = [w \in Workers |-> IF home[w] = p \/ stale[p] = w THEN None ELSE held[w]]
  BY DEF ProcessDies
<1>4. DispatcherShape'
  BY <1>1, <1>2, ProcessAssumption DEF DispatcherOwn, DispatcherShape, Phases, JobsOf
<1>5. BusyHolds'
  <2> SUFFICES ASSUME NEW w \in Workers, phase'[w] \notin {"none", "claiming"}
               PROVE  held'[w] # None
    BY DEF BusyHolds
  <2>1. home[w] # p /\ phase[w] \notin {"none", "claiming"}
    BY <1>1 DEF DispatcherOwn, DispatcherShape
  <2>2. home[w] # None
    BY <2>1 DEF DispatcherOwn, DispatcherShape
  <2>3. stale[p] # w
    BY <2>1, <2>2, ProcessAssumption DEF DispatcherOwn, StaleAtHome
  <2> QED
    BY <1>3, <2>1, <2>3 DEF DispatcherOwn, BusyHolds
<1>6. StaleAtHome'
  BY <1>1 DEF DispatcherOwn, DispatcherShape, StaleAtHome
<1> QED
  BY <1>4, <1>5, <1>6 DEF DispatcherOwn

\* The steps of a job.
LEMMA JobOwn ==
  ASSUME TypeOK, DispatcherOwn, NEW w \in Workers, JobNext(w)
  PROVE  DispatcherOwn'
<1> USE DEF Phases
<1>0. /\ phase[w] \notin {"none", "claiming"} => held[w] # None
      /\ phase[w] \notin {"running", "rearm", "finally"} => w \notin active \cup leased
      /\ active \subseteq Workers /\ leased \subseteq Workers /\ viaLoop \subseteq Workers
      /\ paused \subseteq Processes /\ home[w] \in Processes \cup {None}
      /\ phase[w] # "none" => home[w] \in Processes
  BY DEF DispatcherOwn, DispatcherShape, BusyHolds
<1>1. CASE ClaimReturns(w)
  <2>1. PICK m \in Member : held' = [held EXCEPT ![w] = m.key]
    BY <1>1 DEF ClaimReturns, ClaimItem
  <2>2. held'[w] # None /\ \A v \in Workers : v # w => held'[v] = held[v]
    BY <2>1, NoneAssumption DEF TypeOK, Member
  <2>3. PICK ph \in {"leasing", "running"} : Goes(w, ph) /\ (active' # active => ph = "running")
    BY <1>1, LeaseAssumption DEF ClaimReturns
  <2>4. active' \subseteq active \cup {w} /\ leased' = leased /\ viaLoop' \subseteq viaLoop
    BY <1>1 DEF ClaimReturns
  <2>5. w \notin active \cup leased /\ phase[w] # "none"
    BY <1>0, <1>1 DEF ClaimReturns
  <2>6. UNCHANGED <<home, procVars>>
    BY <1>1 DEF ClaimReturns
  <2> QED
    BY <1>0, <2>2, <2>3, <2>4, <2>5, <2>6, GoesOwn
<1>2. CASE LeaseGranted(w) \/ LeaseTimedOut(w)
  <2>1. PICK lease \in SUBSET {w} : Dispatch(w, lease)
    BY <1>2 DEF LeaseGranted, LeaseTimedOut
  <2>2. Goes(w, "running") /\ phase[w] = "leasing" /\ held' = held
    BY <2>1 DEF Dispatch
  <2>3. active' = active \cup {w} /\ leased' \subseteq leased \cup {w} /\ viaLoop' \subseteq viaLoop
    BY <2>1 DEF Dispatch
  <2>4. UNCHANGED <<home, procVars>>
    BY <2>1 DEF Dispatch
  <2> QED
    BY <1>0, <2>2, <2>3, <2>4, GoesOwn
<1>3. CASE LeaseRefused(w)
  <2>1. PICK ph \in {"denied", "errored"} : Goes(w, ph)
    BY <1>3 DEF LeaseRefused, LeaseRefusedBy
  <2>2. held' = held
    BY <1>3, WorkerCallKeepsHeld DEF LeaseRefused, LeaseRefusedBy
  <2>3. phase[w] = "leasing" /\ UNCHANGED <<viaLoop, active, leased, home, procVars>>
    BY <1>3 DEF LeaseRefused, LeaseRefusedBy
  <2> QED
    BY <1>0, <2>1, <2>2, <2>3, GoesOwn
<1>4. CASE PollReturns(w)
  <2>1. phase' = [phase EXCEPT ![w] = "none"] /\ home' = [home EXCEPT ![w] = None] /\ viaLoop' \subseteq viaLoop
    BY <1>4 DEF PollReturns, PollEnds, Goes
  <2>2. \A v \in Workers : v # w => held'[v] = held[v]
    BY <1>4 DEF PollReturns, TypeOK
  <2>3. UNCHANGED <<active, leased, closed, draining, stopping, stale>> /\ w \notin active \cup leased
    BY <1>0, <1>4 DEF PollReturns
  <2>4. paused' \subseteq Processes
    BY <1>0, <1>4 DEF PollReturns
  <2> QED
    BY <1>0, <2>1, <2>2, <2>3, <2>4, EndsOwn
<1>5. CASE HandlerReturns(w) \/ Rearm(w) \/ HandlerThrows(w)
  <2>1. PICK ph \in {"rearm", "finally"} : Goes(w, ph)
    BY <1>5 DEF HandlerReturns, Rearm, HandlerThrows
  <2>2. held' = held
    BY <1>5, WorkerCallKeepsHeld, EnqueueKeepsHeld DEF HandlerReturns, Rearm, HandlerThrows, queueVars
  <2>3. phase[w] \in {"running", "rearm"} /\ UNCHANGED <<viaLoop, active, leased, home, procVars>>
    BY <1>5 DEF HandlerReturns, Rearm, HandlerThrows
  <2> QED
    BY <1>0, <2>1, <2>2, <2>3, GoesOwn
<1>6. CASE Finally(w)
  <2>1. phase' = [phase EXCEPT ![w] = "none"] /\ home' = [home EXCEPT ![w] = None]
    BY <1>6 DEF Finally, Goes
  <2>2. \A v \in Workers : v # w => held'[v] = held[v]
    BY <1>6 DEF Finally, TypeOK
  <2>3. /\ active' = active \ {w} /\ leased' = leased \ {w}
        /\ UNCHANGED <<viaLoop, paused, closed, draining, stopping, stale>>
    BY <1>6 DEF Finally, procVars
  <2> QED
    BY <1>0, <2>1, <2>2, <2>3, EndsOwn
<1>7. CASE ReapedWorkerForgotten(w)
  <2>1. /\ phase[w] = "none" /\ UNCHANGED dispVars
        /\ \A v \in Workers : v # w => held'[v] = held[v]
    BY <1>7 DEF ReapedWorkerForgotten, Forget, TypeOK
  <2>2. DispatcherShape' /\ StaleAtHome'
    BY <2>1 DEF DispatcherOwn, DispatcherShape, StaleAtHome, dispVars, jobVars, procVars
  <2>3. BusyHolds'
    BY <2>1 DEF DispatcherOwn, BusyHolds, dispVars, jobVars
  <2> QED
    BY <2>2, <2>3 DEF DispatcherOwn
<1>8. CASE StopReleases(w)
  <2>1. held' = held
    BY <1>8, WorkerCallKeepsHeld DEF StopReleases, StopReleasesBy
  <2>2. active' \subseteq active /\ UNCHANGED <<phase, home, viaLoop, leased, procVars>>
    BY <1>8 DEF StopReleases, StopReleasesBy
  <2> QED
    BY <2>1, <2>2, MapsOwn DEF DispatcherOwn, DispatcherShape, StaleAtHome, procVars
<1>9. CASE ClaimFindsNothing(w)
  <2>1. phase' = [phase EXCEPT ![w] = "none"] /\ home' = [home EXCEPT ![w] = None] /\ viaLoop' \subseteq viaLoop
    BY <1>9 DEF ClaimFindsNothing, PollEnds, Goes
  <2>2. held' = held /\ UNCHANGED <<active, leased, paused, closed, draining, stopping, stale>>
    BY <1>9 DEF ClaimFindsNothing, queueVars, procVars
  <2>3. w \notin active \cup leased
    BY <1>0, <1>9 DEF ClaimFindsNothing
  <2> QED
    BY <1>0, <2>1, <2>2, <2>3, EndsOwn
<1> QED
  BY <1>1, <1>2, <1>3, <1>4, <1>5, <1>6, <1>7, <1>8, <1>9 DEF JobNext

\* The steps of a process.
LEMMA ProcOwn ==
  ASSUME TypeOK, DispatcherOwn, NEW p \in Processes, ProcNext(p)
  PROVE  DispatcherOwn'
<1>0. /\ active \subseteq Workers /\ paused \subseteq Processes /\ closed \subseteq Processes
      /\ draining \subseteq stopping /\ stopping \subseteq Processes
      /\ stale \in [Processes -> Workers \cup {None}]
      /\ \A q \in Processes : stale[q] # None => home[stale[q]] \in {q, None}
  BY DEF DispatcherOwn, DispatcherShape, StaleAtHome
<1>1. CASE \E w \in Workers : PollOnce(p, w)
  <2>1. PICK w \in Workers : PollOnce(p, w)
    BY <1>1
  <2>2. StartPoll(p, w, TRUE)
    BY <2>1 DEF PollOnce
  <2>3. held' = held /\ UNCHANGED <<active, leased, stale, draining, stopping, paused, closed>>
    BY <2>1 DEF PollOnce, queueVars, procVars
  <2> QED
    BY <1>0, <2>2, <2>3, StartPollOwn
<1>2. CASE ResumePolling(p)
  <2>1. held' = held /\ UNCHANGED <<active, leased, stale, draining, stopping, closed>> /\ paused' \subseteq paused
    BY <1>2 DEF ResumePolling, queueVars
  <2>2. CASE \E w \in Workers : StartPoll(p, w, FALSE)
    BY <1>0, <2>1, <2>2, StartPollOwn
  <2>3. CASE UNCHANGED <<phase, home, viaLoop>>
    BY <1>0, <2>1, <2>3, MapsOwn
  <2> QED
    BY <1>2, <2>2, <2>3 DEF ResumePolling
<1>3. CASE Sweep(p)
  <2>1. held' = held /\ UNCHANGED dispVars
    BY <1>3, SweepKeepsHeld DEF Sweep
  <2> QED
    BY <2>1, OwnStutter
<1>4. CASE \E w \in Workers : ReapStaleCheck(p, w)
  <2>1. PICK w \in Workers : ReapStaleCheck(p, w)
    BY <1>4
  <2>2. /\ held' = held /\ UNCHANGED <<phase, home, viaLoop, active, leased, paused, closed, stopping, draining>>
        /\ stale' = [stale EXCEPT ![p] = w] /\ home[w] = p
    BY <2>1 DEF ReapStaleCheck, queueVars, jobVars, ActiveOf, JobsOf
  <2>3. stale' \in [Processes -> Workers \cup {None}]
    BY <1>0, <2>2
  <2>4. \A q \in Processes : stale'[q] # None => home[stale'[q]] \in {q, None}
    BY <1>0, <2>2
  <2> QED
    BY <1>0, <2>2, <2>3, <2>4, MapsOwn
<1>5. CASE ReapStaleRelease(p)
  <2>1. held' = held
    BY <1>5, WorkerCallKeepsHeld DEF ReapStaleRelease, ReapStaleBy
  <2>2. /\ UNCHANGED <<phase, home, viaLoop, leased, paused, closed, stopping, draining>>
        /\ active' \subseteq active /\ stale' = [stale EXCEPT ![p] = None]
    BY <1>5 DEF ReapStaleRelease, ReapStaleBy
  <2>3. stale' \in [Processes -> Workers \cup {None}]
    BY <1>0, <2>2
  <2>4. \A q \in Processes : stale'[q] # None => home[stale'[q]] \in {q, None}
    BY <1>0, <2>2
  <2> QED
    BY <1>0, <2>1, <2>2, <2>3, <2>4, MapsOwn
<1>6. CASE GateOpens(p)
  <2>1. held' = held /\ UNCHANGED <<phase, home, viaLoop, active, leased, paused, stopping, draining, stale>>
    BY <1>6 DEF GateOpens, queueVars, jobVars
  <2>2. closed' \subseteq closed
    BY <1>6 DEF GateOpens
  <2> QED
    BY <1>0, <2>1, <2>2, MapsOwn
<1>7. CASE StopEnds(p)
  <2>1. held' = held /\ UNCHANGED <<phase, home, viaLoop, active, leased, paused, closed, stopping, stale>>
    BY <1>7 DEF StopEnds, queueVars, jobVars
  <2>2. draining' \subseteq draining
    BY <1>7 DEF StopEnds
  <2> QED
    BY <1>0, <2>1, <2>2, MapsOwn
<1> QED
  BY <1>1, <1>2, <1>3, <1>4, <1>5, <1>6, <1>7 DEF ProcNext

\* The faults.
LEMMA FaultOwn ==
  ASSUME TypeOK, DispatcherOwn, Fault
  PROVE  DispatcherOwn'
<1> USE DEF Phases
<1>0. /\ active \subseteq Workers /\ leased \subseteq Workers /\ viaLoop \subseteq Workers
      /\ paused \subseteq Processes /\ closed \subseteq Processes
      /\ draining \subseteq stopping /\ stopping \subseteq Processes
      /\ stale \in [Processes -> Workers \cup {None}]
      /\ \A q \in Processes : stale[q] # None => home[stale[q]] \in {q, None}
  BY DEF DispatcherOwn, DispatcherShape, StaleAtHome
<1>1. ASSUME NEW w \in Workers,
             \/ ClaimFails(w) \/ LeaseExpired(w)
             \/ LeaseRefusedLost(w) \/ FinishLost(w) \/ StopReleaseLost(w)
      PROVE  DispatcherOwn'
  <2>0. /\ phase[w] \notin {"none", "claiming"} => held[w] # None
        /\ phase[w] \notin {"running", "rearm", "finally"} => w \notin active \cup leased
    BY DEF DispatcherOwn, DispatcherShape, BusyHolds
  <2>1. CASE ClaimFails(w)
    <3>1. phase' = [phase EXCEPT ![w] = "none"] /\ home' = [home EXCEPT ![w] = None] /\ viaLoop' \subseteq viaLoop
      BY <2>1 DEF ClaimFails, PollEnds, Goes
    <3>2. held' = held
      BY <2>1 DEF ClaimFails, ClaimReplyLost, queueVars
    <3>3. UNCHANGED <<active, leased, paused, closed, draining, stopping, stale>> /\ w \notin active \cup leased
      BY <2>0, <2>1 DEF ClaimFails, procVars
    <3> QED
      BY <1>0, <3>1, <3>2, <3>3, EndsOwn
  <2>2. CASE LeaseExpired(w)
    <3>1. held' = held
      BY <2>2, WorkerCallKeepsHeld DEF LeaseExpired, queueVars
    <3>2. active' \subseteq active /\ leased' \subseteq leased /\ UNCHANGED <<phase, home, viaLoop, procVars>>
      BY <2>2 DEF LeaseExpired
    <3> QED
      BY <1>0, <3>1, <3>2, MapsOwn DEF procVars
  <2>3. CASE LeaseRefusedLost(w)
    <3>1. PICK ph \in {"denied", "errored"} : Goes(w, ph)
      BY <2>3 DEF LeaseRefusedLost, LeaseRefusedBy
    <3>2. /\ held' = held /\ phase[w] = "leasing"
          /\ UNCHANGED <<viaLoop, active, leased, home, procVars>>
      BY <2>3 DEF LeaseRefusedLost, LeaseRefusedBy, queueVars
    <3> QED
      BY <1>0, <2>0, <3>1, <3>2, GoesOwn
  <2>4. CASE FinishLost(w)
    <3>1. PICK ph \in {"rearm", "finally"} : Goes(w, ph)
      BY <2>4 DEF FinishLost
    <3>2. /\ held' = held /\ phase[w] = "running"
          /\ UNCHANGED <<viaLoop, active, leased, home, procVars>>
      BY <2>4 DEF FinishLost, queueVars
    <3> QED
      BY <1>0, <2>0, <3>1, <3>2, GoesOwn
  <2>5. CASE StopReleaseLost(w)
    <3>1. held' = held /\ active' \subseteq active /\ UNCHANGED <<phase, home, viaLoop, leased, procVars>>
      BY <2>5 DEF StopReleaseLost, StopReleasesBy, queueVars
    <3> QED
      BY <1>0, <3>1, MapsOwn DEF procVars
  <2> QED
    BY <1>1, <2>1, <2>2, <2>3, <2>4, <2>5
<1>2. ASSUME NEW w \in Workers, HeartbeatExpires(w), UNCHANGED dispVars
      PROVE  DispatcherOwn'
  BY <1>2, WorkerCallKeepsHeld, OwnStutter
<1>3. ASSUME NEW p \in Processes, GateCloses(p) \/ StopBegins(p) \/ ProcessDies(p) \/ ReapStaleLost(p)
      PROVE  DispatcherOwn'
  <2>1. CASE GateCloses(p)
    <3>1. held' = held /\ UNCHANGED <<phase, home, viaLoop, active, leased, paused, stopping, draining, stale>>
      BY <2>1 DEF GateCloses, queueVars, jobVars
    <3>2. closed' = closed \cup {p}
      BY <2>1 DEF GateCloses
    <3> QED
      BY <1>0, <3>1, <3>2, MapsOwn
  <2>2. CASE StopBegins(p)
    <3>1. held' = held /\ UNCHANGED <<phase, home, viaLoop, active, leased, paused, closed, stale>>
      BY <2>2 DEF StopBegins, queueVars, jobVars
    <3>2. stopping' = stopping \cup {p} /\ draining' \subseteq draining \cup {p}
      BY <2>2 DEF StopBegins
    <3> QED
      BY <1>0, <3>1, <3>2, MapsOwn
  <2>3. CASE ProcessDies(p)
    BY <2>3, DeathOwn
  <2>4. CASE ReapStaleLost(p)
    <3>1. /\ held' = held /\ UNCHANGED <<phase, home, viaLoop, leased, paused, closed, stopping, draining>>
          /\ active' \subseteq active /\ stale' = [stale EXCEPT ![p] = None]
      BY <2>4 DEF ReapStaleLost, ReapStaleBy, queueVars
    <3>2. stale' \in [Processes -> Workers \cup {None}]
      BY <1>0, <3>1
    <3>3. \A q \in Processes : stale'[q] # None => home[stale'[q]] \in {q, None}
      BY <1>0, <3>1
    <3> QED
      BY <1>0, <3>1, <3>2, <3>3, MapsOwn
  <2> QED
    BY <1>3, <2>1, <2>2, <2>3, <2>4
<1>4. ASSUME NEW p \in Sweepers, UNCHANGED dispVars,
             ReapAborted(p) \/ ReconcileAborted(p) \/ \E k \in Items : ReconcileRemoveError(p, k)
      PROVE  DispatcherOwn'
  BY <1>4, SweepKeepsHeld, OwnStutter
<1> QED
  BY <1>1, <1>2, <1>3, <1>4 DEF Fault

\* Every step keeps the invariant.
LEMMA DispatcherStep == DispatcherInv /\ [DispatcherNext]_allVars => DispatcherInv'
<1> SUFFICES ASSUME DispatcherInv, [DispatcherNext]_allVars
             PROVE  DispatcherInv'
  OBVIOUS
<1>1. TypeOK /\ DispatcherOwn
  BY InvParts
<1>2. TypeOK'
  BY <1>1, QueueStep, NextType
<1>3. DispatcherOwn'
  <2>1. CASE UNCHANGED allVars
    BY <1>1, <2>1, OwnStutter DEF allVars, queueVars
  <2>2. CASE EnqueueNext /\ UNCHANGED dispVars
    BY <1>1, <2>2, EnqueueKeepsHeld, OwnStutter DEF EnqueueNext
  <2>3. ASSUME NEW w \in Workers, EnvNext(w)
        PROVE  DispatcherOwn'
    <3>1. held' = held /\ UNCHANGED dispVars
      BY <2>3, WorkerCallKeepsHeld DEF EnvNext, RefreshHeartbeat
    <3> QED
      BY <1>1, <3>1, OwnStutter
  <2>4. CASE CalmDispatcherNext
    BY <1>1, <2>2, <2>3, <2>4, JobOwn, ProcOwn, DeathOwn DEF CalmDispatcherNext
  <2>5. CASE Fault
    BY <1>1, <2>5, FaultOwn
  <2> QED
    BY <2>1, <2>4, <2>5 DEF DispatcherNext
<1>4. (TypeOK /\ DispatcherOwn)' => DispatcherInv'
  BY DEF DispatcherInv, DispatcherTypeOK, DispatcherOwn, DispatcherShape
<1> QED
  BY <1>2, <1>3, <1>4

\* It holds at the start.
LEMMA DispatcherInitInv == DispatcherInit => DispatcherInv
<1> SUFFICES ASSUME DispatcherInit
             PROVE  DispatcherInv
  OBVIOUS
<1>1. TypeOK
  BY InitType DEF DispatcherInit
<1>2. DispatcherOwn
  BY DEF DispatcherInit, DispatcherOwn, DispatcherShape, BusyHolds, StaleAtHome, Phases
<1> QED
  BY <1>1, <1>2, InvParts

\* DispatcherInv is an invariant of the composition.
LEMMA DispatcherInvariant == DispatcherSpec => []DispatcherInv
BY DispatcherInitInv, DispatcherStep, PTL DEF DispatcherSpec

\* The variables of queue and dispatcher keep their shape; only jobs past
\* their claim are in a map of their process.
THEOREM DispatcherTypeCorrect == DispatcherSpec => []DispatcherTypeOK
<1>1. DispatcherInv => DispatcherTypeOK
  BY DEF DispatcherInv
<1> QED
  BY <1>1, DispatcherInvariant, PTL

\* Refinement: the dispatcher calls the queue only as the queue's
\* specification allows, whatever polls, leases, reapers, stops and crashes
\* interleave -- so what RedisQueueProofs proves holds of the composition.
THEOREM DispatcherUsesQueue == DispatcherSpec => UsesQueue
<1>1. DispatcherInit => Init
  BY DEF DispatcherInit
<1> QED
  BY <1>1, DispatcherInvariant, QueueStep, PTL DEF DispatcherSpec, UsesQueue, Spec

\* One owner per item, carried over to the composition: as long as its index
\* entry is not removed from under it, an item is pending once or claimed by
\* one worker, however the processes poll, reap, stop and die.
THEOREM DispatcherOneOwner == DispatcherSpec => []OneOwner
BY DispatcherUsesQueue, OneOwnerHolds, PTL DEF UsesQueue

\* And only a complete() after a lost claim or a sweep removes such an entry.
THEOREM DispatcherUntracks == DispatcherSpec => OnlyStaleCompleteOrSweepUntracks
BY DispatcherUsesQueue, UntrackedOnlyByStaleCompleteOrSweep, PTL DEF UsesQueue

\* And the composition keeps the contract of the QueueManager interface: a
\* copy of an item appears only by an enqueue of an item that is not in the
\* index and disappears only by complete() or the dead-letter branch of
\* release(), whatever polls, reapers, stops and crashes do in between.
THEOREM DispatcherKeepsContract == DispatcherSpec => KeepsContract
BY DispatcherUsesQueue, RedisKeepsContract, PTL DEF UsesQueue

-----------------------------------------------------------------------------
(* One active worker per process, without a lease manager.  The check of   *)
(* pollOnce is made before claim(), the entry in activeWorkers after it;   *)
(* what closes the gap is that only pollLoop polls (nothing is ever        *)
(* paused, so nothing is ever resumed) and that it awaits its own poll.    *)

\* Has passed the worker cap: still claiming, or in activeWorkers.
Engaged(w) == phase[w] = "claiming" \/ w \in active

\* Nothing was denied, every poll is pollLoop's, and one at a time.
Serial ==
  /\ paused = {}
  /\ \A w \in Workers : phase[w] \notin {"leasing", "denied", "errored"}
  /\ \A w \in Workers : phase[w] = "claiming" => w \in viaLoop
  /\ \A v, w \in Workers : Engaged(v) /\ Engaged(w) /\ home[v] = home[w] => v = w

\* A step that lets nobody pass the cap keeps it.
LEMMA QuietSerial ==
  ASSUME Serial, paused' = {},
         \A w \in Workers : phase'[w] \notin {"leasing", "denied", "errored"},
         \A w \in Workers : phase'[w] = "claiming" => phase[w] = "claiming" /\ w \in viaLoop',
         \A w \in Workers : phase'[w] = "claiming" \/ w \in active' => Engaged(w) /\ home'[w] = home[w]
  PROVE  Serial'
BY DEF Serial, Engaged

\* A step that changes none of it keeps it too.
LEMMA SerialStutter ==
  ASSUME Serial, UNCHANGED <<paused, phase, home, viaLoop, active>>
  PROVE  Serial'
BY DEF Serial, Engaged

\* The steps of a job.
LEMMA JobSerial ==
  ASSUME DispatcherInv, Serial, ~LeaseEnforced, NEW w \in Workers, JobNext(w)
  PROVE  Serial'
<1>0. /\ phase \in [Workers -> Phases] /\ home \in [Workers -> Processes \cup {None}]
      /\ active \subseteq Workers /\ paused = {}
      /\ \A v \in active : phase[v] \in {"running", "rearm", "finally"}
  BY DEF DispatcherInv, DispatcherTypeOK, Serial
<1>1. phase[w] \notin {"leasing", "denied", "errored"}
  BY DEF Serial
<1>2. CASE ClaimReturns(w)
  <2>1. /\ phase' = [phase EXCEPT ![w] = "running"] /\ active' = active \cup {w}
        /\ viaLoop' = viaLoop \ {w} /\ UNCHANGED <<home, paused>> /\ phase[w] = "claiming"
    BY <1>2 DEF ClaimReturns, Goes, procVars
  <2> QED
    BY <1>0, <2>1, QuietSerial DEF Serial, Engaged
<1>3. CASE LeaseGranted(w) \/ LeaseTimedOut(w) \/ LeaseRefused(w) \/ PollReturns(w)
  BY <1>1, <1>3 DEF LeaseGranted, LeaseTimedOut, Dispatch, LeaseRefused, LeaseRefusedBy, PollReturns
<1>4. CASE HandlerReturns(w) \/ Rearm(w) \/ HandlerThrows(w)
  <2>1. PICK ph \in {"rearm", "finally"} : phase' = [phase EXCEPT ![w] = ph]
    BY <1>4 DEF HandlerReturns, Rearm, HandlerThrows, Goes
  <2>2. UNCHANGED <<viaLoop, active, home, paused>>
    BY <1>4 DEF HandlerReturns, Rearm, HandlerThrows, procVars
  <2> QED
    BY <1>0, <2>1, <2>2, QuietSerial DEF Serial, Engaged
<1>5. CASE Finally(w)
  <2>1. /\ phase' = [phase EXCEPT ![w] = "none"] /\ home' = [home EXCEPT ![w] = None]
        /\ active' = active \ {w} /\ UNCHANGED <<viaLoop, paused>>
    BY <1>5 DEF Finally, Goes, procVars
  <2> QED
    BY <1>0, <2>1, QuietSerial DEF Serial, Engaged
<1>6. CASE ReapedWorkerForgotten(w)
  BY <1>6, SerialStutter DEF ReapedWorkerForgotten, dispVars, jobVars, procVars
<1>7. CASE StopReleases(w)
  <2>1. active' = active \ {w} /\ UNCHANGED <<phase, home, viaLoop, paused>>
    BY <1>7 DEF StopReleases, StopReleasesBy, procVars
  <2> QED
    BY <1>0, <2>1, QuietSerial DEF Serial, Engaged
<1>8. CASE ClaimFindsNothing(w)
  <2>1. /\ phase' = [phase EXCEPT ![w] = "none"] /\ home' = [home EXCEPT ![w] = None]
        /\ viaLoop' = viaLoop \ {w} /\ UNCHANGED <<active, paused>> /\ phase[w] = "claiming"
    BY <1>8 DEF ClaimFindsNothing, PollEnds, Goes, procVars
  <2> QED
    BY <1>0, <2>1, QuietSerial DEF Serial, Engaged
<1> QED
  BY <1>2, <1>3, <1>4, <1>5, <1>6, <1>7, <1>8 DEF JobNext

\* A process that dies takes its polls and jobs with it.
LEMMA DeathSerial ==
  ASSUME DispatcherInv, Serial, NEW p \in Processes, ProcessDies(p)
  PROVE  Serial'
<1>1. /\ phase' = [w \in Workers |-> IF home[w] = p THEN "none" ELSE phase[w]]
      /\ home' = [w \in Workers |-> IF home[w] = p THEN None ELSE home[w]]
      /\ active' = active \ {w \in Workers : home[w] = p}
      /\ viaLoop' = viaLoop \ {w \in Workers : home[w] = p}
      /\ paused' = paused \ {p}
  BY DEF ProcessDies, JobsOf
<1>2. active \subseteq Workers /\ home \in [Workers -> Processes \cup {None}] /\ phase \in [Workers -> Phases]
  BY DEF DispatcherInv, DispatcherTypeOK
<1> QED
  BY <1>1, <1>2, QuietSerial DEF Serial, Engaged

\* The steps of a process; pollLoop's next poll is the one that matters.
LEMMA ProcSerial ==
  ASSUME DispatcherInv, Serial, NEW p \in Processes, ProcNext(p)
  PROVE  Serial'
<1>0. /\ phase \in [Workers -> Phases] /\ home \in [Workers -> Processes \cup {None}]
      /\ active \subseteq Workers /\ paused = {}
      /\ \A v \in active : phase[v] \in {"running", "rearm", "finally"}
  BY DEF DispatcherInv, DispatcherTypeOK, Serial
<1>1. CASE \E w \in Workers : PollOnce(p, w)
  <2>1. PICK w \in Workers : PollOnce(p, w)
    BY <1>1
  <2>2. /\ phase' = [phase EXCEPT ![w] = "claiming"] /\ home' = [home EXCEPT ![w] = p]
        /\ viaLoop' = viaLoop \cup {w} /\ UNCHANGED <<active, paused>> /\ phase[w] = "none"
    BY <2>1 DEF PollOnce, StartPoll, Goes, UnusedId, procVars
  <2>3. \A v \in Workers : home[v] = p => ~Engaged(v)
    BY <1>0, <2>1 DEF PollOnce, PollAllowed, LoopBusy, ActiveOf, JobsOf, Engaged, Serial
  <2>4. \A v \in Workers : v # w => (Engaged(v)' <=> Engaged(v)) /\ home'[v] = home[v]
    BY <1>0, <2>2 DEF Engaged
  <2>5. home'[w] = p
    BY <1>0, <2>2
  <2>6. \A u, v \in Workers : Engaged(u)' /\ Engaged(v)' /\ home'[u] = home'[v] => u = v
    BY <2>3, <2>4, <2>5 DEF Serial
  <2>7. \A v \in Workers : phase'[v] = "claiming" => v \in viaLoop'
    BY <1>0, <2>2 DEF Serial
  <2>8. paused' = {} /\ \A v \in Workers : phase'[v] \notin {"leasing", "denied", "errored"}
    BY <1>0, <2>2 DEF Serial
  <2> QED
    BY <2>6, <2>7, <2>8 DEF Serial
<1>2. CASE ResumePolling(p)
  BY <1>0, <1>2 DEF ResumePolling
<1>3. CASE Sweep(p)
  BY <1>3, SerialStutter DEF Sweep, dispVars, jobVars, procVars
<1>4. CASE \E w \in Workers : ReapStaleCheck(p, w)
  BY <1>4, SerialStutter DEF ReapStaleCheck, jobVars
<1>5. CASE ReapStaleRelease(p)
  <2>1. active' \subseteq active /\ UNCHANGED <<phase, home, viaLoop, paused>>
    BY <1>5 DEF ReapStaleRelease, ReapStaleBy
  <2> QED
    BY <1>0, <2>1, QuietSerial DEF Serial, Engaged
<1>6. CASE GateOpens(p) \/ StopEnds(p)
  BY <1>6, SerialStutter DEF GateOpens, StopEnds, jobVars
<1> QED
  BY <1>1, <1>2, <1>3, <1>4, <1>5, <1>6 DEF ProcNext

\* The faults.
LEMMA FaultSerial ==
  ASSUME DispatcherInv, Serial, Fault
  PROVE  Serial'
<1>0. /\ phase \in [Workers -> Phases] /\ home \in [Workers -> Processes \cup {None}]
      /\ active \subseteq Workers /\ paused = {}
      /\ \A v \in active : phase[v] \in {"running", "rearm", "finally"}
  BY DEF DispatcherInv, DispatcherTypeOK, Serial
<1>1. ASSUME NEW w \in Workers,
             \/ ClaimFails(w) \/ LeaseExpired(w)
             \/ LeaseRefusedLost(w) \/ FinishLost(w) \/ StopReleaseLost(w)
      PROVE  Serial'
  <2>1. CASE ClaimFails(w)
    <3>1. /\ phase' = [phase EXCEPT ![w] = "none"] /\ home' = [home EXCEPT ![w] = None]
          /\ viaLoop' = viaLoop \ {w} /\ UNCHANGED <<active, paused>> /\ phase[w] = "claiming"
      BY <2>1 DEF ClaimFails, PollEnds, Goes, procVars
    <3> QED
      BY <1>0, <3>1, QuietSerial DEF Serial, Engaged
  <2>2. CASE LeaseExpired(w) \/ StopReleaseLost(w)
    <3>1. active' \subseteq active /\ UNCHANGED <<phase, home, viaLoop, paused>>
      BY <2>2 DEF LeaseExpired, StopReleaseLost, StopReleasesBy, procVars
    <3> QED
      BY <1>0, <3>1, QuietSerial DEF Serial, Engaged
  <2>3. CASE LeaseRefusedLost(w)
    BY <2>3 DEF LeaseRefusedLost, LeaseRefusedBy, Serial
  <2>4. CASE FinishLost(w)
    <3>1. PICK ph \in {"rearm", "finally"} : phase' = [phase EXCEPT ![w] = ph]
      BY <2>4 DEF FinishLost, Goes
    <3>2. UNCHANGED <<viaLoop, active, home, paused>>
      BY <2>4 DEF FinishLost, procVars
    <3> QED
      BY <1>0, <3>1, <3>2, QuietSerial DEF Serial, Engaged
  <2> QED
    BY <1>1, <2>1, <2>2, <2>3, <2>4
<1>2. CASE UNCHANGED dispVars
  BY <1>2, SerialStutter DEF dispVars, jobVars, procVars
<1>3. ASSUME NEW p \in Processes, GateCloses(p) \/ StopBegins(p) \/ ProcessDies(p) \/ ReapStaleLost(p)
      PROVE  Serial'
  <2>1. CASE GateCloses(p) \/ StopBegins(p)
    BY <2>1, SerialStutter DEF GateCloses, StopBegins, jobVars
  <2>2. CASE ProcessDies(p)
    BY <2>2, DeathSerial
  <2>3. CASE ReapStaleLost(p)
    <3>1. active' \subseteq active /\ UNCHANGED <<phase, home, viaLoop, paused>>
      BY <2>3 DEF ReapStaleLost, ReapStaleBy
    <3> QED
      BY <1>0, <3>1, QuietSerial DEF Serial, Engaged
  <2> QED
    BY <1>3, <2>1, <2>2, <2>3
<1> QED
  BY <1>1, <1>2, <1>3 DEF Fault

\* Every step keeps it.
LEMMA SerialStep ==
  ASSUME ~LeaseEnforced
  PROVE  DispatcherInv /\ Serial /\ [DispatcherNext]_allVars => Serial'
<1> SUFFICES ASSUME DispatcherInv, Serial, [DispatcherNext]_allVars
             PROVE  Serial'
  OBVIOUS
<1>1. CASE UNCHANGED dispVars
  BY <1>1, SerialStutter DEF dispVars, jobVars, procVars
<1>2. ASSUME NEW w \in Workers, EnvNext(w)
      PROVE  UNCHANGED dispVars
  BY <1>2 DEF EnvNext, RefreshHeartbeat
<1>3. CASE CalmDispatcherNext
  BY <1>1, <1>2, <1>3, JobSerial, ProcSerial, DeathSerial DEF CalmDispatcherNext
<1>4. CASE Fault
  BY <1>4, FaultSerial
<1> QED
  BY <1>1, <1>3, <1>4 DEF DispatcherNext, allVars

\* A set whose members are all equal has at most one.
LEMMA AtMostOne ==
  ASSUME NEW S, \A x, y \in S : x = y
  PROVE  Cardinality(S) <= 1
<1>1. CASE S = {}
  BY <1>1, FS_EmptySet
<1>2. CASE S # {}
  <2>1. PICK x : S = {x}
    BY <1>2
  <2> QED
    BY <2>1, FS_Singleton
<1> QED
  BY <1>1, <1>2

\* Without a lease manager a container never runs two handlers from its
\* activeWorkers map.  (With one it may: a resumed poll runs beside
\* pollLoop's, which the run with leases exhibits.)
THEOREM OneActiveWithoutLeases ==
  ASSUME ~LeaseEnforced
  PROVE  DispatcherSpec => []OneActivePerProcess
<1>1. DispatcherInit => Serial
  BY DEF DispatcherInit, Serial, Engaged
<1>2. Serial => OneActivePerProcess
  BY AtMostOne DEF Serial, OneActivePerProcess, ActiveOf, JobsOf, Engaged
<1> QED
  BY <1>1, <1>2, SerialStep, DispatcherInvariant, PTL DEF DispatcherSpec

=============================================================================
