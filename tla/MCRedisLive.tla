---------------------------- MODULE MCRedisLive ----------------------------
(***************************************************************************)
(* The two queues that live in Redis, the orchestrator's (RedisQueue) and  *)
(* the job scheduler's, and how each recovers what a process left behind.  *)
(* They share no key, so one instance explores each of them alone, chosen  *)
(* by part, and states the fairness of each.                               *)
(***************************************************************************)
EXTENDS RedisQueue, JobScheduler

VARIABLE part   \* the queue that this behaviour is about

liveVars == <<part, queueVars, schedulerVars>>

LiveInit ==
  /\ part \in {"queue", "jobs"}
  /\ Init /\ JobInit
  /\ part # "queue" => inFlight = {}

OnQueue == part = "queue" /\ UNCHANGED <<part, schedulerVars>>
OnJobs  == part = "jobs" /\ UNCHANGED <<part, queueVars>>

LiveNext ==
  \/ OnQueue /\ Next
  \/ OnJobs /\ JobNext

\* Time passes (keys without a writer expire, claims age), the reaper loop of
\* every process keeps taking its next step, and from some point on neither
\* Redis nor the process fails in the middle of a sweep.
QueueFairness ==
  /\ \A s \in Sweepers : WF_liveVars(OnQueue /\ (ReapNext(s) \/ ReconcileNext(s)))
  /\ \A w \in Workers :
       /\ WF_liveVars(OnQueue /\ GraceWindowPasses(w))
       /\ WF_liveVars(OnQueue /\ held[w] = None /\ HeartbeatExpires(w))
  /\ <>[][CalmNext]_queueVars

\* Operations go on, handlers end, timers fire, and from some point on nothing
\* fails and timeouts are long enough.
ThreadGoes(t) ==
  \/ JobCommand(t) \/ HandlerSucceeds(t) \/ HandlerFails(t)
  \/ t \in Sweeps /\ (VisibilityCheck(t) \/ ReleaseNext(t))

JobFairness ==
  /\ \A t \in Threads : WF_liveVars(OnJobs /\ ThreadGoes(t))
  /\ WF_liveVars(OnJobs /\ \E p \in Procs, n \in Slots : Poll(p, n))
  /\ \A j \in Jobs : WF_liveVars(OnJobs /\ VisibilityExpires(j) /\ j \notin Worked)
  /\ <>[][JobCalmNext]_schedulerVars

LiveSpec == LiveInit /\ [][LiveNext]_liveVars /\ QueueFairness /\ JobFairness

\* Once a job has succeeded, an operation that had it in hand broke off or it
\* was dead-lettered (nothing takes it out again, and the counts only grow),
\* every property of JobScheduler is settled for it: no later state matters.
SomeJobOpen == \E j \in Jobs : ~Told(j) /\ j \notin dlq
=============================================================================
