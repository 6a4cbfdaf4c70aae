---------------------------- MODULE LeaseManager ----------------------------
(***************************************************************************)
(* LeaseManager (packages/orchestrator/src/services/lease-manager.ts) with *)
(* its caller, the lease gate of WorkerDispatcher.pollOnce, the WebSocket  *)
(* of the cluster relay and the cloud's lease service (external).          *)
(*                                                                         *)
(* Every pollOnce() draws a fresh workerId and sends at most one request,  *)
(* with a fresh correlationId, that the cloud answers with a fresh         *)
(* leaseId; a run r stands for all three.  The socket is FIFO; what is in  *)
(* flight when it closes is lost.                                          *)
(***************************************************************************)
EXTENDS Naturals, Sequences, FiniteSets

CONSTANTS
  Runs,                  \* passes of pollOnce() that claim an item
  MaxHeartbeatFailures,  \* LeaseConfig.maxHeartbeatFailures
  Limit,                 \* the user's concurrency limit, known to the cloud
  ClientThrows,          \* the clients considered: does send() throw when the socket is down?
  MaxInFlight,           \* bound: messages in flight, each way
  MaxDrops,              \* bound: how often the socket closes
  None                   \* the cloud has told no limit yet

ASSUME FailuresAssumption == MaxHeartbeatFailures \in Nat \ {0}
ASSUME LimitAssumption    == Limit \in Nat
ASSUME ClientAssumption   == ClientThrows \subseteq BOOLEAN
ASSUME BoundsAssumption   == MaxInFlight \in Nat /\ MaxDrops \in Nat

VARIABLES
  run,                  \* what pollOnce() or runWorker does for r
  paused,               \* pollingPaused
  pendingRequests,
  pendingReleases,
  activeLeases,
  consecutiveFailures,
  workerLeases,         \* the runs whose lease the dispatcher will release
  userTierLimit,
  clusterRejected,
  linkUp,               \* client.isConnected
  throws,               \* the client's send() reports a closed socket
  toCloud, toCluster,   \* in flight on the socket
  drops,                \* how often the socket has closed
  cloudLeases,          \* the leases the cloud counts
  heard,                \* those it has heard of since the last pass of its sweep
  unsent                \* history: heartbeats of a lease in a row that did not leave

callerVars == <<run, paused, workerLeases>>
beatVars  == <<activeLeases, consecutiveFailures, unsent>>
tierVars   == <<userTierLimit, clusterRejected>>
linkVars   == <<linkUp, throws, drops>>
cloudVars  == <<cloudLeases, heard>>
leaseVars == <<callerVars, beatVars, tierVars, linkVars, cloudVars,
          pendingRequests, pendingReleases, toCloud, toCluster>>

Active  == {r \in Runs : run[r] \in {"leased", "unleased"}}   \* activeWorkers
Started == {r \in Runs : run[r] \in {"leased", "unleased", "expired"}}

-----------------------------------------------------------------------------
(* client.send() *)

Msg(type, r) == [type |-> type, id |-> r]

\* A closed socket drops the message; only some clients say so by throwing.
Send(m)  == toCloud' = IF linkUp THEN Append(toCloud, m) ELSE toCloud
SendFails == ~linkUp /\ throws
HasRoom   == Len(toCloud) < MaxInFlight

-----------------------------------------------------------------------------
(* The caller and the manager *)

MaxWorkers == IF userTierLimit = None \/ userTierLimit >= 1 THEN 1 ELSE 0

\* pollOnce() has claimed an item and calls requestLease(); a client that
\* throws answers "timeout" at once, and a timeout dispatches without a lease.
RequestLease(r) ==
  /\ run[r] = "idle"
  /\ ~paused /\ ~clusterRejected /\ Cardinality(Active) < MaxWorkers
  /\ HasRoom
  /\ Send(Msg("lease_request", r))
  /\ run' = [run EXCEPT ![r] = IF SendFails THEN "unleased" ELSE "asking"]
  /\ pendingRequests' = IF SendFails THEN pendingRequests ELSE pendingRequests \cup {r}
  /\ UNCHANGED <<beatVars, tierVars, linkVars, cloudVars, paused, workerLeases, pendingReleases, toCluster>>

\* requestTimeoutMs has passed: fail open.
RequestTimeout(r) ==
  /\ r \in pendingRequests
  /\ pendingRequests' = pendingRequests \ {r}
  /\ run' = [run EXCEPT ![r] = "unleased"]
  /\ UNCHANGED <<beatVars, tierVars, linkVars, cloudVars, paused, workerLeases, pendingReleases, toCloud, toCluster>>

\* The grant resolves the promise; startHeartbeat() follows in the same turn.
Granted(r) ==
  /\ run' = [run EXCEPT ![r] = "leased"]
  /\ activeLeases' = activeLeases \cup {r}
  /\ consecutiveFailures' = [consecutiveFailures EXCEPT ![r] = 0]
  /\ workerLeases' = workerLeases \cup {r}
  /\ unsent' = [unsent EXCEPT ![r] = 0]
  /\ UNCHANGED userTierLimit

Denied(r) ==
  /\ run' = [run EXCEPT ![r] = "denied"]
  /\ userTierLimit' = Limit
  /\ UNCHANGED <<beatVars, workerLeases>>

\* A grant without a leaseId and a "released" are errors too.
Errored(r) ==
  /\ run' = [run EXCEPT ![r] = "requeued"]
  /\ UNCHANGED <<beatVars, workerLeases, userTierLimit>>

\* Mutant: an unexpected status leaves the caller without an answer.
ResolveForgetsError(r, status) ==
  CASE status = "granted" -> Granted(r)
    [] status = "denied"  -> Denied(r)
    [] OTHER              -> UNCHANGED <<run, beatVars, workerLeases, userTierLimit>>

Resolve(r, status) ==
  CASE status = "granted" -> Granted(r)
    [] status = "denied"  -> Denied(r)
    [] OTHER              -> Errored(r)

\* Mutant: the lease is recorded whether or not anybody waits for it.
LateGrantTaken(m) ==
  /\ UNCHANGED <<paused, clusterRejected, pendingReleases>>
  /\ pendingRequests' = pendingRequests \ {m.id}
  /\ \/ m.id \in pendingRequests /\ Resolve(m.id, m.type)
     \/ /\ m.id \notin pendingRequests /\ m.type = "granted"
        /\ activeLeases' = activeLeases \cup {m.id}
        /\ UNCHANGED <<run, workerLeases, userTierLimit, consecutiveFailures, unsent>>
     \/ /\ m.id \notin pendingRequests /\ m.type # "granted"
        /\ UNCHANGED <<run, workerLeases, userTierLimit, beatVars>>

\* handleLeaseResponse: an acknowledged release, an answer to nobody, or the
\* answer a caller waits for.
HandleLeaseResponse(m) ==
  /\ UNCHANGED <<paused, clusterRejected>>
  /\ IF m.type = "released" /\ m.id \in pendingReleases
     THEN /\ pendingReleases' = pendingReleases \ {m.id}
          /\ UNCHANGED <<run, beatVars, workerLeases, userTierLimit, pendingRequests>>
     ELSE IF m.id \notin pendingRequests
     THEN UNCHANGED <<run, beatVars, workerLeases, userTierLimit, pendingRequests, pendingReleases>>
     ELSE /\ pendingRequests' = pendingRequests \ {m.id}
          /\ UNCHANGED pendingReleases
          /\ Resolve(m.id, m.type)

\* The other messages of the lease protocol: slot_available reaches
\* resumePolling(), tier_info and cluster_rejected set the gate of pollOnce().
HandleNotice(m) ==
  /\ paused' = (paused /\ m.type # "slot_available")
  /\ userTierLimit' = IF m.type = "tier_info" THEN Limit ELSE userTierLimit
  /\ clusterRejected' = (clusterRejected \/ m.type = "cluster_rejected")
  /\ UNCHANGED <<run, beatVars, workerLeases, pendingRequests, pendingReleases>>

Notices == {"slot_available", "tier_info", "cluster_rejected"}

\* The handler that server.ts and RelayBridge.handleMessage register.
Receive ==
  /\ toCluster # <<>>
  /\ toCluster' = Tail(toCluster)
  /\ LET m == Head(toCluster)
     IN  IF m.type \in Notices THEN HandleNotice(m) ELSE HandleLeaseResponse(m)
  /\ UNCHANGED <<linkVars, cloudVars, toCloud>>

\* pollOnce() after a denial: the item is back in the queue, polling pauses.
PausePolling(r) ==
  /\ run[r] = "denied"
  /\ run' = [run EXCEPT ![r] = "requeued"]
  /\ paused' = TRUE
  /\ UNCHANGED <<beatVars, tierVars, linkVars, cloudVars, workerLeases, pendingRequests, pendingReleases, toCloud, toCluster>>

\* The backstop timer of pausePolling().
DenialResume ==
  /\ paused
  /\ paused' = FALSE
  /\ UNCHANGED <<beatVars, tierVars, linkVars, cloudVars, run, workerLeases, pendingRequests, pendingReleases, toCloud, toCluster>>

\* Mutant: the interval is not cleared.
ReleaseKeepsBeating(r) ==
  /\ Send(Msg("lease_release", r))
  /\ pendingReleases' = IF SendFails THEN pendingReleases ELSE pendingReleases \cup {r}
  /\ UNCHANGED <<activeLeases, consecutiveFailures, unsent>>

ReleaseLease(r) ==
  /\ Send(Msg("lease_release", r))
  /\ pendingReleases' = IF SendFails THEN pendingReleases ELSE pendingReleases \cup {r}
  /\ activeLeases' = activeLeases \ {r}
  /\ UNCHANGED <<consecutiveFailures, unsent>>

\* The finally block of runWorker.
RunEnds(r) ==
  /\ r \in Started
  /\ HasRoom
  /\ run' = [run EXCEPT ![r] = "ended"]
  /\ workerLeases' = workerLeases \ {r}
  /\ IF r \in workerLeases THEN ReleaseLease(r) ELSE UNCHANGED <<beatVars, pendingReleases, toCloud>>
  /\ UNCHANGED <<tierVars, linkVars, cloudVars, paused, pendingRequests, toCluster>>

\* The acknowledgement did not come in requestTimeoutMs.
ReleaseForgotten(r) ==
  /\ r \in pendingReleases
  /\ pendingReleases' = pendingReleases \ {r}
  /\ UNCHANGED <<callerVars, beatVars, tierVars, linkVars, cloudVars, pendingRequests, toCloud, toCluster>>

\* Mutant: a success does not reset the count.
BeatKeepsCount(r) ==
  /\ r \in activeLeases /\ ~SendFails /\ HasRoom
  /\ Send(Msg("lease_heartbeat", r))
  /\ unsent' = [unsent EXCEPT ![r] = IF linkUp THEN 0 ELSE IF @ < MaxHeartbeatFailures THEN @ + 1 ELSE @]
  /\ UNCHANGED <<callerVars, tierVars, linkVars, cloudVars, activeLeases, consecutiveFailures,
                 pendingRequests, pendingReleases, toCluster>>

\* sendHeartbeat when send() returns -- whether or not anything left.
HeartbeatSent(r) ==
  /\ r \in activeLeases /\ ~SendFails /\ HasRoom
  /\ Send(Msg("lease_heartbeat", r))
  /\ consecutiveFailures' = [consecutiveFailures EXCEPT ![r] = 0]
  /\ unsent' = [unsent EXCEPT ![r] = IF linkUp THEN 0 ELSE IF @ < MaxHeartbeatFailures THEN @ + 1 ELSE @]
  /\ UNCHANGED <<callerVars, tierVars, linkVars, cloudVars, activeLeases,
                 pendingRequests, pendingReleases, toCluster>>

\* Mutant: the threshold is off by one.
FailsOneLate(r) ==
  /\ r \in activeLeases /\ SendFails
  /\ consecutiveFailures' = [consecutiveFailures EXCEPT ![r] = @ + 1]
  /\ unsent' = [unsent EXCEPT ![r] = @ + 1]
  /\ IF consecutiveFailures[r] + 1 > MaxHeartbeatFailures
     THEN /\ activeLeases' = activeLeases \ {r}
          /\ workerLeases' = workerLeases \ {r}
          /\ run' = [run EXCEPT ![r] = "expired"]
     ELSE UNCHANGED <<activeLeases, workerLeases, run>>
  /\ UNCHANGED <<paused, tierVars, linkVars, cloudVars, pendingRequests, pendingReleases, toCloud, toCluster>>

\* sendHeartbeat when send() throws: at the threshold the lease expires, and
\* handleLeaseExpired takes the run out of the dispatcher's maps.
HeartbeatFails(r) ==
  /\ r \in activeLeases /\ SendFails
  /\ consecutiveFailures' = [consecutiveFailures EXCEPT ![r] = @ + 1]
  /\ unsent' = [unsent EXCEPT ![r] = @ + 1]
  /\ IF consecutiveFailures[r] + 1 >= MaxHeartbeatFailures
     THEN /\ activeLeases' = activeLeases \ {r}
          /\ workerLeases' = workerLeases \ {r}
          /\ run' = [run EXCEPT ![r] = "expired"]
     ELSE UNCHANGED <<activeLeases, workerLeases, run>>
  /\ UNCHANGED <<paused, tierVars, linkVars, cloudVars, pendingRequests, pendingReleases, toCloud, toCluster>>

\* The worker container dies and starts again with an empty manager.
Crash ==
  /\ run' = [r \in Runs |-> IF run[r] = "idle" THEN "idle" ELSE "ended"]
  /\ paused' = FALSE
  /\ pendingRequests' = {} /\ pendingReleases' = {} /\ activeLeases' = {} /\ workerLeases' = {}
  /\ userTierLimit' = None /\ clusterRejected' = FALSE
  /\ linkUp' = FALSE
  /\ toCloud' = <<>> /\ toCluster' = <<>>
  /\ drops < MaxDrops /\ drops' = drops + 1
  /\ UNCHANGED <<consecutiveFailures, unsent, throws, cloudVars>>

-----------------------------------------------------------------------------
(* The socket and the cloud *)

LinkDrops ==
  /\ linkUp /\ drops < MaxDrops
  /\ linkUp' = FALSE /\ drops' = drops + 1
  /\ toCloud' = <<>> /\ toCluster' = <<>>
  /\ UNCHANGED <<callerVars, beatVars, tierVars, throws, cloudVars, pendingRequests, pendingReleases>>

LinkReconnects ==
  /\ ~linkUp
  /\ linkUp' = TRUE
  /\ UNCHANGED <<callerVars, beatVars, tierVars, throws, drops, cloudVars, pendingRequests, pendingReleases, toCloud, toCluster>>

Reply(type, r) ==
  /\ Len(toCluster) < MaxInFlight
  /\ toCluster' = Append(toCluster, Msg(type, r))

\* A request is granted below the limit and denied at it; the cloud may fail
\* before the lease exists (error, released) or after (a grant without id).
CloudAnswers(r) ==
  \/ /\ Cardinality(cloudLeases) < Limit
     /\ cloudLeases' = cloudLeases \cup {r} /\ heard' = heard \cup {r}
     /\ \E type \in {"granted", "grantedWithoutId"} : Reply(type, r)
  \/ /\ Cardinality(cloudLeases) >= Limit
     /\ Reply("denied", r)
     /\ UNCHANGED cloudVars
  \/ /\ \E type \in {"error", "released"} : Reply(type, r)
     /\ UNCHANGED cloudVars

CloudReceives ==
  /\ toCloud # <<>>
  /\ toCloud' = Tail(toCloud)
  /\ LET m == Head(toCloud)
     IN  \/ m.type = "lease_request" /\ CloudAnswers(m.id)
         \/ /\ m.type = "lease_release"
            /\ Reply("released", m.id)
            /\ cloudLeases' = cloudLeases \ {m.id} /\ heard' = heard \ {m.id}
         \/ /\ m.type = "lease_heartbeat"
            /\ heard' = heard \cup ({m.id} \cap cloudLeases)
            /\ UNCHANGED <<cloudLeases, toCluster>>
  /\ UNCHANGED <<callerVars, beatVars, tierVars, linkVars, pendingRequests, pendingReleases>>

\* The sweep: a lease not heard of for a whole TTL is freed.
CloudSweeps(r) ==
  /\ r \in cloudLeases
  /\ IF r \in heard THEN heard' = heard \ {r} /\ UNCHANGED cloudLeases
                    ELSE cloudLeases' = cloudLeases \ {r} /\ UNCHANGED heard
  /\ UNCHANGED <<callerVars, beatVars, tierVars, linkVars, pendingRequests, pendingReleases, toCloud, toCluster>>

CloudNotifies ==
  /\ linkUp /\ toCluster = <<>>
  /\ \E type \in Notices : Reply(type, None)
  /\ UNCHANGED <<callerVars, beatVars, tierVars, linkVars, cloudVars, pendingRequests, pendingReleases, toCloud>>

-----------------------------------------------------------------------------
LeaseInit ==
  /\ run = [r \in Runs |-> "idle"]
  /\ paused = FALSE
  /\ pendingRequests = {} /\ pendingReleases = {}
  /\ activeLeases = {} /\ workerLeases = {}
  /\ consecutiveFailures = [r \in Runs |-> 0]
  /\ unsent = [r \in Runs |-> 0]
  /\ userTierLimit = None /\ clusterRejected = FALSE
  /\ linkUp = TRUE /\ drops = 0
  /\ throws \in ClientThrows
  /\ toCloud = <<>> /\ toCluster = <<>>
  /\ cloudLeases = {} /\ heard = {}

LeaseNext ==
  \/ \E r \in Runs :
       \/ RequestLease(r) \/ RequestTimeout(r) \/ PausePolling(r) \/ RunEnds(r)
       \/ ReleaseForgotten(r) \/ HeartbeatSent(r) \/ HeartbeatFails(r) \/ CloudSweeps(r)
  \/ Receive \/ DenialResume \/ Crash
  \/ LinkDrops \/ LinkReconnects \/ CloudReceives \/ CloudNotifies

LeaseSpec == LeaseInit /\ [][LeaseNext]_leaseVars

-----------------------------------------------------------------------------
(* Properties *)

RunStates == {"idle", "asking", "denied", "requeued", "leased", "unleased", "expired", "ended"}
Messages  == [type : {"lease_request", "lease_release", "lease_heartbeat"}, id : Runs]
Responses == [type : {"granted", "grantedWithoutId", "denied", "error", "released"}, id : Runs]
               \cup [type : Notices, id : {None}]

\* Every variable keeps its shape, and the maps of the dispatcher and of the
\* manager agree: whoever waits has a timer, whoever holds a lease beats.
LeaseTypeOK ==
  /\ run \in [Runs -> RunStates]
  /\ paused \in BOOLEAN /\ clusterRejected \in BOOLEAN /\ linkUp \in BOOLEAN /\ throws \in BOOLEAN
  /\ pendingReleases \subseteq Runs
  /\ pendingRequests = {r \in Runs : run[r] = "asking"}
  /\ activeLeases = workerLeases
  /\ workerLeases = {r \in Runs : run[r] = "leased"}
  /\ consecutiveFailures \in [Runs -> 0 .. MaxHeartbeatFailures]
  /\ unsent \in [Runs -> 0 .. MaxHeartbeatFailures]
  /\ userTierLimit \in {None, Limit}
  /\ toCloud \in Seq(Messages) /\ toCluster \in Seq(Responses)
  /\ drops \in 0 .. MaxDrops
  /\ heard \subseteq cloudLeases /\ cloudLeases \subseteq Runs

\* A lease expires only after maxHeartbeatFailures heartbeats in a row that
\* did not leave: one success in between starts the count anew.
NoEarlyExpiry == \A r \in Runs : run[r] = "expired" => unsent[r] = MaxHeartbeatFailures

\* Once maxHeartbeatFailures heartbeats of a lease in a row have not left, its
\* run is given up if the client reports a closed socket, and only then.  The
\* repository's own ClusterRelay.send() logs and returns: with it a run goes on
\* under a lease that no heartbeat renews any more, however long the socket is
\* down, although LeaseConfig promises the expiry.
ExpiresIffReported ==
  \A r \in Runs :
    run[r] \in {"leased", "expired"} /\ unsent[r] = MaxHeartbeatFailures => (run[r] = "expired" <=> throws)

\* Nobody waits for ever: a request is answered, errors or times out,
\* whatever becomes of the socket.
RequestsSettle == \A r \in Runs : run[r] = "asking" ~> run[r] # "asking"

\* A lease the cloud counts for a run that does not run (any more) under it --
\* the grant came too late or was lost, the release was lost, the worker died
\* -- is freed in the end: nothing keeps it alive by heartbeats.
OrphanedLeaseFreed ==
  \A r \in Runs : (r \in cloudLeases /\ run[r] \notin {"idle", "asking", "leased"}) ~> r \notin cloudLeases
=============================================================================
