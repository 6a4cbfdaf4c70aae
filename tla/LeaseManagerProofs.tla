------------------------- MODULE LeaseManagerProofs -------------------------
(***************************************************************************)
(* Proofs about LeaseManager for every set of runs, every threshold and    *)
(* every limit.                                                            *)
(*                                                                         *)
(* The two properties about heartbeats tie what the manager counts         *)
(* (consecutiveFailures) to what really left the cluster (unsent).  The    *)
(* two agree only with a client that throws, and only for a lease that is  *)
(* active: CountIsTrue.  With a client that does not throw the count never *)
(* moves and no lease ever expires: SilentNeverExpires.                    *)
(***************************************************************************)
EXTENDS LeaseManager, SequenceTheorems, TLAPS

\* For a client that reports a closed socket, the manager's count is the
\* number of heartbeats that did not leave, and below the threshold.
CountIsTrue ==
  throws => \A r \in activeLeases : /\ unsent[r] = consecutiveFailures[r]
                                    /\ consecutiveFailures[r] < MaxHeartbeatFailures

\* With a client that never reports one, no run is ever given up.
SilentNeverExpires == ~throws => \A r \in Runs : run[r] # "expired"

\* The inductive invariant.
LeaseInv == LeaseTypeOK /\ CountIsTrue /\ SilentNeverExpires /\ NoEarlyExpiry

-----------------------------------------------------------------------------
(* The socket *)

\* A message that is put on the socket is the only one that is new there.
LEMMA SendType ==
  ASSUME LeaseTypeOK, NEW type \in {"lease_request", "lease_release", "lease_heartbeat"},
         NEW r \in Runs, Send(Msg(type, r))
  PROVE  toCloud' \in Seq(Messages)
<1>1. Msg(type, r) \in Messages
  BY DEF Msg, Messages
<1> QED
  BY <1>1, AppendProperties DEF LeaseTypeOK, Send

\* The same for an answer of the cloud.
LEMMA ReplyType ==
  ASSUME LeaseTypeOK, NEW type, NEW r, Msg(type, r) \in Responses, Reply(type, r)
  PROVE  toCluster' \in Seq(Responses)
BY AppendProperties DEF LeaseTypeOK, Reply

\* What arrives at the cloud is a message of a run.
LEMMA ToCloudType ==
  ASSUME LeaseTypeOK, toCloud # <<>>
  PROVE  /\ Head(toCloud) \in Messages /\ Head(toCloud).id \in Runs
         /\ Tail(toCloud) \in Seq(Messages)
<1>1. Head(toCloud) \in Messages /\ Tail(toCloud) \in Seq(Messages)
  BY HeadTailProperties DEF LeaseTypeOK
<1> QED
  BY <1>1 DEF Messages

\* What arrives at the cluster is an answer to a run or a notice.
LEMMA ToClusterType ==
  ASSUME LeaseTypeOK, toCluster # <<>>
  PROVE  /\ Head(toCluster) \in Responses
         /\ Head(toCluster).type \notin Notices => Head(toCluster).id \in Runs
         /\ Tail(toCluster) \in Seq(Responses)
<1>1. Head(toCluster) \in Responses /\ Tail(toCluster) \in Seq(Responses)
  BY HeadTailProperties DEF LeaseTypeOK
<1> QED
  BY <1>1 DEF Responses, Notices

\* An answer to a request is a message of the protocol.
LEMMA AnswerType ==
  ASSUME NEW type \in {"granted", "grantedWithoutId", "denied", "error", "released"}, NEW r \in Runs
  PROVE  Msg(type, r) \in Responses
BY DEF Msg, Responses

-----------------------------------------------------------------------------
\* The manager starts empty.
LEMMA LeaseInitInv == LeaseInit => LeaseInv
<1> SUFFICES ASSUME LeaseInit PROVE LeaseInv
  OBVIOUS
<1>1. paused \in BOOLEAN /\ clusterRejected \in BOOLEAN /\ linkUp \in BOOLEAN
  BY Zenon DEF LeaseInit
<1>2. throws \in BOOLEAN
  BY ClientAssumption, Zenon DEF LeaseInit
<1>3. toCloud \in Seq(Messages) /\ toCluster \in Seq(Responses)
  BY DEF LeaseInit
<1>4. LeaseTypeOK
  BY <1>1, <1>2, <1>3, FailuresAssumption, BoundsAssumption DEF LeaseInit, LeaseTypeOK, RunStates
<1> QED
  BY <1>4 DEF LeaseInit, LeaseInv, CountIsTrue, SilentNeverExpires, NoEarlyExpiry

\* The caller's side: requests, time-outs, denials and ends of runs.
LEMMA CallerInv ==
  ASSUME LeaseInv, NEW r \in Runs,
         RequestLease(r) \/ RequestTimeout(r) \/ PausePolling(r) \/ RunEnds(r) \/ ReleaseForgotten(r)
  PROVE  LeaseInv'
<1> USE DEF LeaseInv, LeaseTypeOK, RunStates, CountIsTrue, SilentNeverExpires, NoEarlyExpiry,
            beatVars, tierVars, linkVars, cloudVars, callerVars
<1>1. CASE RequestLease(r)
  <2>1. toCloud' \in Seq(Messages)
    BY <1>1, SendType DEF RequestLease
  <2> QED
    BY <1>1, <2>1 DEF RequestLease
<1>2. CASE RequestTimeout(r)
  BY <1>2 DEF RequestTimeout
<1>3. CASE PausePolling(r)
  BY <1>3 DEF PausePolling
<1>4. CASE RunEnds(r)
  <2>1. toCloud' \in Seq(Messages)
    BY <1>4, SendType DEF RunEnds, ReleaseLease
  <2> QED
    BY <1>4, <2>1 DEF RunEnds, ReleaseLease, Started
<1>5. CASE ReleaseForgotten(r)
  BY <1>5 DEF ReleaseForgotten
<1> QED
  BY <1>1, <1>2, <1>3, <1>4, <1>5

\* The heartbeat of a lease.
LEMMA HeartbeatInv ==
  ASSUME LeaseInv, NEW r \in Runs, HeartbeatSent(r) \/ HeartbeatFails(r)
  PROVE  LeaseInv'
<1> USE DEF LeaseInv, LeaseTypeOK, RunStates, CountIsTrue, SilentNeverExpires, NoEarlyExpiry, SendFails,
            beatVars, tierVars, linkVars, cloudVars, callerVars
<1>1. CASE HeartbeatSent(r)
  <2>1. toCloud' \in Seq(Messages)
    BY <1>1, SendType DEF HeartbeatSent
  <2> QED
    BY <1>1, <2>1, FailuresAssumption DEF HeartbeatSent
<1>2. CASE HeartbeatFails(r)
  <2>1. throws /\ run[r] = "leased" /\ consecutiveFailures[r] \in 0 .. MaxHeartbeatFailures - 1
    BY <1>2, FailuresAssumption DEF HeartbeatFails
  <2>2. /\ consecutiveFailures' = [consecutiveFailures EXCEPT ![r] = @ + 1]
        /\ unsent' = [unsent EXCEPT ![r] = @ + 1]
        /\ unsent[r] = consecutiveFailures[r]
    BY <1>2, <2>1 DEF HeartbeatFails
  <2>3. consecutiveFailures' \in [Runs -> 0 .. MaxHeartbeatFailures] /\ unsent' \in [Runs -> 0 .. MaxHeartbeatFailures]
    BY <2>1, <2>2, FailuresAssumption
  <2>4. UNCHANGED <<paused, tierVars, linkVars, cloudVars, pendingRequests, pendingReleases, toCloud, toCluster>>
    BY <1>2 DEF HeartbeatFails
  <2>5. CASE consecutiveFailures[r] + 1 >= MaxHeartbeatFailures
    <3>1. /\ activeLeases' = activeLeases \ {r} /\ workerLeases' = workerLeases \ {r}
          /\ run' = [run EXCEPT ![r] = "expired"]
      BY <1>2, <2>5 DEF HeartbeatFails
    <3>2. LeaseTypeOK'
      BY <2>1, <2>3, <2>4, <3>1
    <3>3. unsent'[r] = MaxHeartbeatFailures
      BY <2>1, <2>2, <2>5, FailuresAssumption
    <3>4. NoEarlyExpiry'
      BY <2>2, <3>1, <3>3
    <3>5. CountIsTrue' /\ SilentNeverExpires'
      BY <2>1, <2>2, <2>4, <3>1
    <3> QED
      BY <3>2, <3>4, <3>5
  <2>6. CASE ~(consecutiveFailures[r] + 1 >= MaxHeartbeatFailures)
    <3>1. UNCHANGED <<activeLeases, workerLeases, run>>
      BY <1>2, <2>6 DEF HeartbeatFails
    <3>2. LeaseTypeOK'
      BY <2>3, <2>4, <3>1
    <3>3. CountIsTrue' /\ SilentNeverExpires' /\ NoEarlyExpiry'
      BY <2>1, <2>2, <2>4, <2>6, <3>1, FailuresAssumption
    <3> QED
      BY <3>2, <3>3
  <2> QED
    BY <2>5, <2>6
<1> QED
  BY <1>1, <1>2

\* An answer or a notice of the cloud arrives.
LEMMA ReceiveInv ==
  ASSUME LeaseInv, Receive
  PROVE  LeaseInv'
<1> DEFINE m == Head(toCluster)
<1>1. m \in Responses /\ (m.type \notin Notices => m.id \in Runs) /\ toCluster' \in Seq(Responses)
  BY ToClusterType DEF Receive, LeaseInv
<1> USE DEF LeaseInv, LeaseTypeOK, RunStates, CountIsTrue, SilentNeverExpires, NoEarlyExpiry,
            beatVars, linkVars, cloudVars
<1>2. CASE m.type \in Notices
  BY <1>1, <1>2 DEF Receive, HandleNotice
<1>3. CASE m.type \notin Notices
  <2>1. HandleLeaseResponse(m) /\ UNCHANGED <<linkVars, cloudVars, toCloud>>
    BY <1>3 DEF Receive
  <2>2. CASE m.type = "released" /\ m.id \in pendingReleases
    BY <1>1, <2>1, <2>2 DEF HandleLeaseResponse
  <2>3. CASE ~(m.type = "released" /\ m.id \in pendingReleases) /\ m.id \notin pendingRequests
    BY <1>1, <2>1, <2>3 DEF HandleLeaseResponse
  <2>4. CASE ~(m.type = "released" /\ m.id \in pendingReleases) /\ m.id \in pendingRequests
    <3>1. /\ pendingRequests' = pendingRequests \ {m.id}
          /\ UNCHANGED <<pendingReleases, paused, clusterRejected>>
          /\ Resolve(m.id, m.type)
      BY <2>1, <2>4 DEF HandleLeaseResponse
    <3>2. CASE Granted(m.id)
      BY <1>1, <1>3, <2>1, <2>4, <3>1, <3>2, FailuresAssumption DEF Granted
    <3>3. CASE Denied(m.id)
      BY <1>1, <1>3, <2>1, <2>4, <3>1, <3>3 DEF Denied
    <3>4. CASE Errored(m.id)
      BY <1>1, <1>3, <2>1, <2>4, <3>1, <3>4 DEF Errored
    <3> QED
      BY <3>1, <3>2, <3>3, <3>4 DEF Resolve
  <2> QED
    BY <2>2, <2>3, <2>4
<1> QED
  BY <1>2, <1>3

\* The socket, the container and the backstop timer.
LEMMA EnvironmentInv ==
  ASSUME LeaseInv, DenialResume \/ Crash \/ LinkDrops \/ LinkReconnects
  PROVE  LeaseInv'
<1> USE BoundsAssumption
    DEF LeaseInv, LeaseTypeOK, RunStates, CountIsTrue, SilentNeverExpires, NoEarlyExpiry,
            beatVars, tierVars, linkVars, cloudVars, callerVars
<1>1. CASE DenialResume
  <2>1. paused' \in BOOLEAN
    BY <1>1, Zenon DEF DenialResume
  <2> QED
    BY <1>1, <2>1 DEF DenialResume
<1>2. CASE Crash
  <2>1. paused' \in BOOLEAN /\ clusterRejected' \in BOOLEAN /\ linkUp' \in BOOLEAN
    BY <1>2, Zenon DEF Crash
  <2>2. /\ run' \in [Runs -> {"idle", "ended"}]
        /\ pendingRequests' = {} /\ pendingReleases' = {} /\ activeLeases' = {} /\ workerLeases' = {}
        /\ toCloud' \in Seq(Messages) /\ toCluster' \in Seq(Responses)
        /\ userTierLimit' = None /\ drops' \in 0 .. MaxDrops
    BY <1>2 DEF Crash
  <2> QED
    BY <1>2, <2>1, <2>2 DEF Crash
<1>3. CASE LinkDrops
  <2>1. linkUp' \in BOOLEAN
    BY <1>3, Zenon DEF LinkDrops
  <2> QED
    BY <1>3, <2>1 DEF LinkDrops
<1>4. CASE LinkReconnects
  <2>1. linkUp' \in BOOLEAN
    BY <1>4, Zenon DEF LinkReconnects
  <2> QED
    BY <1>4, <2>1 DEF LinkReconnects
<1> QED
  BY <1>1, <1>2, <1>3, <1>4

\* The cloud changes only its own leases and what is on the socket.
LEMMA CloudInv ==
  ASSUME LeaseInv,
         CloudReceives \/ CloudNotifies \/ \E r \in Runs : CloudSweeps(r)
  PROVE  LeaseInv'
<1>0. UNCHANGED <<callerVars, beatVars, tierVars, linkVars, pendingRequests, pendingReleases>>
  BY DEF CloudReceives, CloudNotifies, CloudSweeps
<1>1. SUFFICES /\ toCloud' \in Seq(Messages) /\ toCluster' \in Seq(Responses)
               /\ heard' \subseteq cloudLeases' /\ cloudLeases' \subseteq Runs
  BY <1>0 DEF LeaseInv, LeaseTypeOK, CountIsTrue, SilentNeverExpires, NoEarlyExpiry,
              beatVars, tierVars, linkVars, callerVars
<1>2. CASE CloudReceives
  <2> DEFINE m == Head(toCloud)
  <2>1. m.id \in Runs /\ toCloud' \in Seq(Messages)
    BY <1>2, ToCloudType DEF CloudReceives, LeaseInv
  <2>2. CASE CloudAnswers(m.id)
    <3>1. \E type \in {"granted", "grantedWithoutId", "denied", "error", "released"} : Reply(type, m.id)
      BY <2>2 DEF CloudAnswers
    <3>2. toCluster' \in Seq(Responses)
      BY <2>1, <3>1, AnswerType, ReplyType DEF LeaseInv
    <3> QED
      BY <2>1, <2>2, <3>2 DEF CloudAnswers, LeaseInv, LeaseTypeOK, cloudVars
  <2>3. CASE Reply("released", m.id) /\ cloudLeases' = cloudLeases \ {m.id} /\ heard' = heard \ {m.id}
    <3>1. toCluster' \in Seq(Responses)
      BY <2>1, <2>3, AnswerType, ReplyType DEF LeaseInv
    <3> QED
      BY <2>1, <2>3, <3>1 DEF LeaseInv, LeaseTypeOK
  <2>4. CASE heard' = heard \cup ({m.id} \cap cloudLeases) /\ UNCHANGED <<cloudLeases, toCluster>>
    BY <2>1, <2>4 DEF LeaseInv, LeaseTypeOK
  <2> QED
    BY <1>2, <2>2, <2>3, <2>4 DEF CloudReceives
<1>3. CASE CloudNotifies
  <2>1. PICK type \in Notices : Reply(type, None)
    BY <1>3 DEF CloudNotifies
  <2>2. Msg(type, None) \in Responses
    BY DEF Msg, Responses
  <2> QED
    BY <1>3, <2>1, <2>2, ReplyType DEF CloudNotifies, cloudVars, LeaseInv, LeaseTypeOK
<1>4. CASE \E r \in Runs : CloudSweeps(r)
  BY <1>4 DEF CloudSweeps, LeaseInv, LeaseTypeOK
<1> QED
  BY <1>2, <1>3, <1>4

\* Every step keeps the invariant.
LEMMA LeaseNextInv == LeaseInv /\ [LeaseNext]_leaseVars => LeaseInv'
<1> SUFFICES ASSUME LeaseInv, [LeaseNext]_leaseVars PROVE LeaseInv'
  OBVIOUS
<1>1. CASE UNCHANGED leaseVars
  BY <1>1 DEF LeaseInv, LeaseTypeOK, CountIsTrue, SilentNeverExpires, NoEarlyExpiry,
              leaseVars, beatVars, tierVars, linkVars, cloudVars, callerVars
<1> QED
  BY <1>1, CallerInv, HeartbeatInv, ReceiveInv, EnvironmentInv, CloudInv DEF LeaseNext

\* The invariant holds in every reachable state.
THEOREM LeaseInvariant == LeaseSpec => []LeaseInv
BY LeaseInitInv, LeaseNextInv, PTL DEF LeaseSpec

\* Every variable keeps its shape, and the maps of the dispatcher and of the
\* manager agree in every state: whoever waits is in pendingRequests, whoever
\* holds a lease is in activeLeases and in workerLeases.
THEOREM LeaseTypeCorrect == LeaseSpec => []LeaseTypeOK
<1>1. LeaseInv => LeaseTypeOK
  BY DEF LeaseInv
<1> QED
  BY <1>1, LeaseInvariant, PTL

\* sendHeartbeat gives a lease up only after maxHeartbeatFailures heartbeats
\* in a row that did not leave.
THEOREM NoEarlyExpiryHolds == LeaseSpec => []NoEarlyExpiry
<1>1. LeaseInv => NoEarlyExpiry
  BY DEF LeaseInv
<1> QED
  BY <1>1, LeaseInvariant, PTL

\* After maxHeartbeatFailures heartbeats in a row that did not leave, a run has
\* been given up with a client whose send() throws, and goes on with one whose
\* send() only logs.
THEOREM ExpiresIffReportedHolds == LeaseSpec => []ExpiresIffReported
<1>1. LeaseInv => ExpiresIffReported
  <2> SUFFICES ASSUME LeaseInv, NEW r \in Runs, run[r] \in {"leased", "expired"}, unsent[r] = MaxHeartbeatFailures
               PROVE  run[r] = "expired" <=> throws
    BY DEF ExpiresIffReported
  <2>1. CASE run[r] = "expired"
    BY <2>1 DEF LeaseInv, SilentNeverExpires
  <2>2. CASE run[r] = "leased"
    <3>1. r \in activeLeases
      BY <2>2 DEF LeaseInv, LeaseTypeOK
    <3>2. ~throws
      BY <3>1, FailuresAssumption DEF LeaseInv, LeaseTypeOK, CountIsTrue
    <3> QED
      BY <2>2, <3>2
  <2> QED
    BY <2>1, <2>2
<1> QED
  BY <1>1, LeaseInvariant, PTL
=============================================================================
