------------------------- MODULE ClusterRelayProofs -------------------------
(***************************************************************************)
(* Proofs about ClusterRelay for every number of sockets and every bound   *)
(* of the back-off.                                                        *)
(*                                                                         *)
(* Neither RelayTypeOK nor OneSocket is inductive: both rest on what the   *)
(* code never states, that the socket of the last connectOnce() is the     *)
(* only one that may be alive and that the loop awaits it for as long as   *)
(* it is.  A late "close" of an older socket resets the client without     *)
(* ending that wait (Settles).                                             *)
(***************************************************************************)
EXTENDS ClusterRelay, FiniteSetTheorems, TLAPS

\* Only the socket the loop waits for is connecting or open.
LiveIsAwaited ==
  \A s \in Sockets : socket[s] \in {"connecting", "open"} => s = current /\ loop = "awaiting"

\* this.ws is the socket the loop waits for.
WsIsAwaited == ws # NoSocket => ws = current /\ loop = "awaiting"

\* The handshake is under way on this.ws.
AuthenticatesOnWs == state = "authenticating" => ws # NoSocket

\* The inductive invariant.
RelayInv == RelayTypeOK /\ LiveIsAwaited /\ WsIsAwaited /\ AuthenticatesOnWs

-----------------------------------------------------------------------------
\* The client starts without a socket.
LEMMA RelayInitInv == RelayInit => RelayInv
<1> SUFFICES ASSUME RelayInit PROVE RelayInv
  OBVIOUS
<1>1. running \in BOOLEAN /\ pongReceived \in BOOLEAN /\ forwarding \in BOOLEAN
  BY Zenon DEF RelayInit
<1>2. (heartbeatTimer <=> state = "connected") /\ state # "connected"
  BY DEF RelayInit
<1> QED
  BY <1>1, <1>2, AttemptAssumption
     DEF RelayInit, RelayInv, RelayTypeOK, LiveIsAwaited, WsIsAwaited, AuthenticatesOnWs

\* The back-off stays within its bound.
LEMMA SettlesType ==
  ASSUME RelayTypeOK, NEW s, NEW attempt \in {0, Backoff}, Settles(s, attempt)
  PROVE  loop' \in {"off", "awaiting", "sleeping"} /\ reconnectAttempt' \in 0 .. MaxAttempt
BY AttemptAssumption DEF RelayTypeOK, Settles, Backoff

\* A new socket is made only when no other is alive.
LEMMA ConnectOnceInv ==
  ASSUME RelayInv, NEW s \in Sockets, ConnectOnce(s), loop # "awaiting", running' \in BOOLEAN
  PROVE  RelayInv'
BY NoSocketAssumption DEF RelayInv, RelayTypeOK, LiveIsAwaited, WsIsAwaited, AuthenticatesOnWs, ConnectOnce

\* Every step of a socket, of the loop or of a timer keeps the invariant.
LEMMA RelayNextInv == RelayInv /\ [RelayNext]_relayVars => RelayInv'
<1> SUFFICES ASSUME RelayInv, [RelayNext]_relayVars PROVE RelayInv'
  OBVIOUS
<1> USE DEF RelayInv, RelayTypeOK, LiveIsAwaited, WsIsAwaited, AuthenticatesOnWs
<1>1. ASSUME NEW s \in Sockets, Connect(s) PROVE RelayInv'
  BY <1>1, ConnectOnceInv DEF Connect
<1>2. ASSUME NEW s \in Sockets, SleepEnds(s) PROVE RelayInv'
  BY <1>2, ConnectOnceInv DEF SleepEnds
<1>3. CASE SleepAborted
  BY <1>3 DEF SleepAborted
<1>4. ASSUME NEW s \in Sockets, OnOpen(s) PROVE RelayInv'
  BY <1>4, NoSocketAssumption DEF OnOpen
<1>5. ASSUME NEW s \in Sockets, OnMessage(s) PROVE RelayInv'
  BY <1>5 DEF OnMessage
<1>6. ASSUME NEW s \in Sockets, OnPong(s) PROVE RelayInv'
  BY <1>6 DEF OnPong
<1>7. ASSUME NEW s \in Sockets, OnUnexpectedResponse(s) PROVE RelayInv'
  <2>1. loop' \in {"off", "awaiting", "sleeping"} /\ reconnectAttempt' \in 0 .. MaxAttempt
    BY <1>7, SettlesType DEF OnUnexpectedResponse
  <2> QED
    BY <1>7, <2>1 DEF OnUnexpectedResponse, Settles
<1>8. ASSUME NEW s \in Sockets, OnClose(s) PROVE RelayInv'
  <2>1. loop' \in {"off", "awaiting", "sleeping"} /\ reconnectAttempt' \in 0 .. MaxAttempt
    BY <1>8, SettlesType DEF OnClose
  <2> QED
    BY <1>8, <2>1 DEF OnClose, Settles
<1>9. ASSUME NEW s \in Sockets, OnError(s) PROVE RelayInv'
  <2>1. loop' \in {"off", "awaiting", "sleeping"} /\ reconnectAttempt' \in 0 .. MaxAttempt
    BY <1>9, SettlesType DEF OnError
  <2> QED
    BY <1>9, <2>1 DEF OnError, Settles
<1>10. ASSUME NEW s \in Sockets, OnConnectError(s) PROVE RelayInv'
  <2>1. loop' \in {"off", "awaiting", "sleeping"} /\ reconnectAttempt' \in 0 .. MaxAttempt
    BY <1>10, SettlesType DEF OnConnectError
  <2> QED
    BY <1>10, <2>1 DEF OnConnectError, Settles
<1>11. CASE HeartbeatTick
  BY <1>11 DEF HeartbeatTick
<1>12. CASE Disconnect
  BY <1>12 DEF Disconnect
<1>13. ASSUME NEW s \in Sockets, PeerVanishes(s) PROVE RelayInv'
  BY <1>13 DEF PeerVanishes
<1>14. CASE UNCHANGED relayVars
  BY <1>14 DEF relayVars
<1> QED
  BY <1>1, <1>2, <1>3, <1>4, <1>5, <1>6, <1>7, <1>8, <1>9, <1>10, <1>11, <1>12, <1>13, <1>14
     DEF RelayNext, RelayCalmNext, RelayFault, Closes, CalmTick

\* The invariant holds in every reachable state of the client.
THEOREM RelayInvariant == RelaySpec => []RelayInv
BY RelayInitInv, RelayNextInv, PTL DEF RelaySpec

\* Every variable of the client keeps its shape; in particular this.ws is
\* always a socket that has been opened, and the heartbeat interval runs
\* exactly while the state is "connected".
THEOREM RelayTypeCorrect == RelaySpec => []RelayTypeOK
<1>1. RelayInv => RelayTypeOK
  BY DEF RelayInv
<1> QED
  BY <1>1, RelayInvariant, PTL

\* The live sockets are contained in a singleton.
LEMMA LiveIsSingle == RelayInv => OneSocket
<1> SUFFICES ASSUME RelayInv PROVE OneSocket
  OBVIOUS
<1> DEFINE live == {s \in Sockets : socket[s] \in {"connecting", "open"}}
<1>1. live \subseteq {current}
  BY DEF RelayInv, LiveIsAwaited
<1>2. IsFiniteSet({current}) /\ Cardinality({current}) = 1
  BY FS_Singleton
<1>3. Cardinality(live) <= Cardinality({current})
  BY <1>1, <1>2, FS_Subset
<1> QED
  BY <1>2, <1>3 DEF OneSocket

\* Whatever errors, closes, time-outs and reconnects happen, in whatever
\* order, the cluster never has two live sockets with the cloud.
THEOREM OneSocketHolds == RelaySpec => []OneSocket
BY LiveIsSingle, RelayInvariant, PTL
=============================================================================
