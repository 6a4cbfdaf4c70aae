----------------------------- MODULE MCLeaseRelay ----------------------------
(***************************************************************************)
(* The two ends of the cloud connection: the leases and the relay client.  *)
(* LeaseManager sees of the relay only whether the socket is up, so one    *)
(* instance explores each of them alone, chosen by part, and states the    *)
(* fairness of each.                                                       *)
(***************************************************************************)
EXTENDS LeaseManager, ClusterRelay

VARIABLE part   \* the service that this behaviour is about

cloudLinkVars == <<part, leaseVars, relayVars>>

CloudLinkInit ==
  /\ part \in {"lease", "relay"}
  /\ LeaseInit /\ RelayInit
  /\ part # "lease" => throws

OnLease == part = "lease" /\ UNCHANGED <<part, relayVars>>
OnRelay == part = "relay" /\ UNCHANGED <<part, leaseVars>>

CloudLinkNext ==
  \/ OnLease /\ LeaseNext
  \/ OnRelay /\ RelayNext

\* Timers fire, the relay reconnects, what is on the socket arrives, jobs end
\* and the cloud sweeps.
LeaseFairness ==
  /\ WF_cloudLinkVars(OnLease /\ Receive) /\ WF_cloudLinkVars(OnLease /\ CloudReceives)
  /\ WF_cloudLinkVars(OnLease /\ LinkReconnects) /\ WF_cloudLinkVars(OnLease /\ DenialResume)
  /\ \A r \in Runs :
       /\ WF_cloudLinkVars(OnLease /\ RequestTimeout(r)) /\ WF_cloudLinkVars(OnLease /\ PausePolling(r))
       /\ WF_cloudLinkVars(OnLease /\ RunEnds(r)) /\ WF_cloudLinkVars(OnLease /\ HeartbeatSent(r))
       /\ WF_cloudLinkVars(OnLease /\ HeartbeatFails(r)) /\ WF_cloudLinkVars(OnLease /\ CloudSweeps(r))

\* Timers fire, and the cloud accepts a socket, answers the handshake and the
\* pings; from some point on nothing fails.
RelayFairness ==
  /\ \A s \in Sockets :
       /\ WF_cloudLinkVars(OnRelay /\ OnOpen(s)) /\ WF_cloudLinkVars(OnRelay /\ OnMessage(s))
       /\ WF_cloudLinkVars(OnRelay /\ OnPong(s)) /\ WF_cloudLinkVars(OnRelay /\ Closes(s))
  /\ WF_cloudLinkVars(OnRelay /\ \E s \in Sockets : Connect(s) \/ SleepEnds(s))
  /\ WF_cloudLinkVars(OnRelay /\ CalmTick)
  /\ <>[][RelayCalmNext]_relayVars

CloudLinkSpec == CloudLinkInit /\ [][CloudLinkNext]_cloudLinkVars /\ LeaseFairness /\ RelayFairness
=============================================================================
