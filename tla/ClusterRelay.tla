---------------------------- MODULE ClusterRelay ----------------------------
(***************************************************************************)
(* ClusterRelay (packages/cluster-relay/src/relay.ts): the WebSocket client *)
(* that keeps one connection to the cloud, and the part of RelayBridge     *)
(* (packages/orchestrator/src/services/relay-bridge.ts) that follows its   *)
(* "connected" and "disconnected" events.  connect() and disconnect() are  *)
(* called once each.                                                       *)
(*                                                                         *)
(* The ws library (external): a socket opens, closes, or emits "error" and *)
(* then "close"; after a protocol error on an open socket the close may    *)
(* come after the next socket was opened.  A refused upgrade only calls    *)
(* back "unexpected-response".  A socket whose peer is gone stays open and *)
(* silent until somebody terminates it.                                    *)
(***************************************************************************)
EXTENDS Naturals, FiniteSets

CONSTANTS
  Sockets,      \* bound: sockets that exist at a time, a closed one is reused
  MaxAttempt,   \* where baseReconnectDelayMs * 2^n reaches maxReconnectDelayMs
  NoSocket          \* no socket

ASSUME AttemptAssumption  == MaxAttempt \in Nat
ASSUME NoSocketAssumption == NoSocket \notin Sockets

VARIABLES
  state,             \* _state
  running,
  ws,                \* this.ws
  socket,            \* the sockets of the ws library
  silent,            \* the open sockets whose peer is gone
  loop,              \* the connect() loop: awaits connectOnce() or sleeps
  current,           \* the socket of the last connectOnce()
  reconnectAttempt,
  heartbeatTimer,
  pongReceived,
  forwarding         \* RelayBridge forwards events and sends metadata

relayVars == <<state, running, ws, socket, silent, loop, current, reconnectAttempt,
          heartbeatTimer, pongReceived, forwarding>>

\* connectOnce(): a new socket.
ConnectOnce(s) ==
  /\ socket[s] = "closed"
  /\ socket' = [socket EXCEPT ![s] = "connecting"]
  /\ current' = s
  /\ state' = "connecting"
  /\ loop' = "awaiting"
  /\ UNCHANGED <<ws, silent, reconnectAttempt, heartbeatTimer, pongReceived, forwarding>>

Connect(s) ==
  /\ loop = "off" /\ current = NoSocket
  /\ running' = TRUE
  /\ ConnectOnce(s)

SleepEnds(s) ==
  /\ loop = "sleeping" /\ running
  /\ ConnectOnce(s)
  /\ UNCHANGED running

\* The abort signal cuts the sleep short.
SleepAborted ==
  /\ loop = "sleeping" /\ ~running
  /\ loop' = "off" /\ state' = "disconnected"
  /\ UNCHANGED <<running, ws, socket, silent, current, reconnectAttempt, heartbeatTimer, pongReceived, forwarding>>

OnOpen(s) ==
  /\ socket[s] = "connecting"
  /\ socket' = [socket EXCEPT ![s] = "open"]
  /\ state' = "authenticating"
  /\ ws' = s
  /\ UNCHANGED <<running, silent, loop, current, reconnectAttempt, heartbeatTimer, pongReceived, forwarding>>

\* Any valid message: the first one completes the handshake, starts the
\* heartbeat and emits "connected".
OnMessage(s) ==
  /\ socket[s] = "open" /\ s \notin silent
  /\ state = "authenticating"
  /\ state' = "connected"
  /\ heartbeatTimer' = TRUE /\ pongReceived' = TRUE
  /\ forwarding' = TRUE
  /\ UNCHANGED <<running, ws, socket, silent, loop, current, reconnectAttempt>>

OnPong(s) ==
  /\ socket[s] = "open" /\ s \notin silent
  /\ ~pongReceived
  /\ pongReceived' = TRUE
  /\ UNCHANGED <<state, running, ws, socket, silent, loop, current, reconnectAttempt, heartbeatTimer, forwarding>>

Backoff == IF reconnectAttempt < MaxAttempt THEN reconnectAttempt + 1 ELSE reconnectAttempt

\* The promise of connectOnce() is settled, unless an "error" had settled it:
\* the loop sleeps, or ends when disconnect() was called.
Settles(s, attempt) ==
  IF loop = "awaiting" /\ s = current
  THEN /\ loop' = IF running THEN "sleeping" ELSE "off"
       /\ reconnectAttempt' = IF running THEN attempt ELSE reconnectAttempt
  ELSE UNCHANGED <<loop, reconnectAttempt>>

\* The upgrade was refused: nothing else is ever emitted for this socket.
OnUnexpectedResponse(s) ==
  /\ socket[s] = "connecting"
  /\ socket' = [socket EXCEPT ![s] = "closed"]
  /\ Settles(s, Backoff)
  /\ UNCHANGED <<state, running, ws, silent, current, heartbeatTimer, pongReceived, forwarding>>

\* "close", of whichever socket, resets the client and emits "disconnected".
OnClose(s) ==
  /\ socket[s] \in {"open", "closing"}
  /\ socket' = [socket EXCEPT ![s] = "closed"]
  /\ silent' = silent \ {s}
  /\ state' = "disconnected" /\ ws' = NoSocket /\ heartbeatTimer' = FALSE
  /\ forwarding' = FALSE
  /\ Settles(s, 0)
  /\ UNCHANGED <<running, current, pongReceived>>

\* Mutant: the heartbeat interval is left running.
ErrorKeepsTimer(s) ==
  /\ socket[s] = "open" /\ s \notin silent
  /\ socket' = [socket EXCEPT ![s] = "closing"]
  /\ state' = "disconnected" /\ ws' = NoSocket
  /\ Settles(s, Backoff)
  /\ UNCHANGED <<running, silent, current, heartbeatTimer, pongReceived, forwarding>>

\* "error" of an open socket rejects connectOnce(); its "close" is to come.
OnError(s) ==
  /\ socket[s] = "open" /\ s \notin silent
  /\ socket' = [socket EXCEPT ![s] = "closing"]
  /\ state' = "disconnected" /\ ws' = NoSocket /\ heartbeatTimer' = FALSE
  /\ Settles(s, Backoff)
  /\ UNCHANGED <<running, silent, current, pongReceived, forwarding>>

\* A failed handshake emits "error" and "close" in one turn.
OnConnectError(s) ==
  /\ socket[s] = "connecting"
  /\ socket' = [socket EXCEPT ![s] = "closed"]
  /\ state' = "disconnected" /\ ws' = NoSocket /\ heartbeatTimer' = FALSE
  /\ forwarding' = FALSE
  /\ Settles(s, Backoff)
  /\ UNCHANGED <<running, silent, current, pongReceived>>

\* Mutant: the loop goes on without the silent socket having been closed.
HeartbeatAbandonsSocket ==
  /\ heartbeatTimer
  /\ IF pongReceived
     THEN pongReceived' = FALSE /\ UNCHANGED <<state, ws, loop, heartbeatTimer>>
     ELSE /\ state' = "disconnected" /\ ws' = NoSocket /\ heartbeatTimer' = FALSE
          /\ loop' = "sleeping"
          /\ UNCHANGED pongReceived
  /\ UNCHANGED <<running, socket, silent, current, reconnectAttempt, forwarding>>

\* Mutant: a missing pong is only logged.
HeartbeatIgnoresSilence ==
  /\ heartbeatTimer
  /\ pongReceived' = FALSE
  /\ UNCHANGED <<state, running, ws, socket, silent, loop, current, reconnectAttempt, heartbeatTimer, forwarding>>

\* The heartbeat interval: ping, or terminate a socket that did not answer.
HeartbeatTick ==
  /\ heartbeatTimer
  /\ IF pongReceived
     THEN pongReceived' = FALSE /\ UNCHANGED <<socket, silent>>
     ELSE /\ socket' = IF ws = NoSocket THEN socket ELSE [socket EXCEPT ![ws] = "closing"]
          /\ silent' = silent \ {ws}
          /\ UNCHANGED pongReceived
  /\ UNCHANGED <<state, running, ws, loop, current, reconnectAttempt, heartbeatTimer, forwarding>>

\* disconnect(): abort closes the socket of the loop, whatever its state.
Disconnect ==
  /\ running
  /\ running' = FALSE
  /\ state' = "disconnecting"
  /\ ws' = NoSocket
  /\ heartbeatTimer' = FALSE
  /\ socket' = [s \in Sockets |-> IF socket[s] \in {"connecting", "open"} THEN "closing" ELSE socket[s]]
  /\ silent' = {}
  /\ UNCHANGED <<loop, current, reconnectAttempt, pongReceived, forwarding>>

\* The network of an open socket goes away unnoticed.
PeerVanishes(s) ==
  /\ socket[s] = "open" /\ s \notin silent
  /\ silent' = silent \cup {s}
  /\ UNCHANGED <<state, running, ws, socket, loop, current, reconnectAttempt, heartbeatTimer, pongReceived, forwarding>>
-----------------------------------------------------------------------------
RelayInit ==
  /\ state = "disconnected" /\ running = FALSE
  /\ ws = NoSocket /\ current = NoSocket
  /\ socket = [s \in Sockets |-> "closed"] /\ silent = {}
  /\ loop = "off" /\ reconnectAttempt = 0
  /\ heartbeatTimer = FALSE /\ pongReceived = TRUE
  /\ forwarding = FALSE

\* A socket that is on its way out closes.
Closes(s) == socket[s] = "closing" /\ OnClose(s)

\* A tick that does not blame a living peer.
CalmTick == HeartbeatTick /\ (pongReceived \/ silent # {})

RelayCalmNext ==
  \/ \E s \in Sockets : Connect(s) \/ SleepEnds(s) \/ OnOpen(s) \/ OnMessage(s) \/ OnPong(s) \/ Closes(s)
  \/ SleepAborted \/ CalmTick

RelayFault ==
  \/ \E s \in Sockets : OnUnexpectedResponse(s) \/ OnConnectError(s) \/ OnError(s) \/ PeerVanishes(s) \/ OnClose(s)
  \/ HeartbeatTick \/ Disconnect

RelayNext == RelayCalmNext \/ RelayFault

RelaySpec == RelayInit /\ [][RelayNext]_relayVars

-----------------------------------------------------------------------------
(* Properties *)

\* Every variable keeps its shape.  this.ws is a socket that has been opened,
\* so ws.send() never throws: send() reports nothing to its callers.
RelayTypeOK ==
  /\ state \in {"disconnected", "connecting", "authenticating", "connected", "disconnecting"}
  /\ socket \in [Sockets -> {"closed", "connecting", "open", "closing"}]
  /\ loop \in {"off", "awaiting", "sleeping"}
  /\ ws \in Sockets \cup {NoSocket} /\ current \in Sockets \cup {NoSocket}
  /\ ws # NoSocket => socket[ws] \in {"open", "closing"}
  /\ silent \subseteq {s \in Sockets : socket[s] = "open"}
  /\ reconnectAttempt \in 0 .. MaxAttempt
  /\ running \in BOOLEAN /\ pongReceived \in BOOLEAN /\ forwarding \in BOOLEAN
  /\ heartbeatTimer <=> state = "connected"
  /\ state = "connected" => ws # NoSocket /\ forwarding

\* The cluster never has two sockets with the cloud, whatever errors, closes
\* and time-outs the reconnect loop went through.
OneSocket == Cardinality({s \in Sockets : socket[s] \in {"connecting", "open"}}) <= 1

\* The two ways in which the loop waits for a close nobody will cause: the
\* peer vanished before it answered the handshake (no timer runs yet), or a
\* late "close" of the previous socket took this.ws away.
HandshakeUnanswered == state = "authenticating" /\ ws \in silent
SocketOrphaned      == ws = NoSocket /\ \E s \in Sockets : socket[s] = "open"

\* Automatic reconnection: after any failures the client is connected to a
\* living peer again, unless it was told to disconnect or is stuck in one of
\* the two ways above.
Reconnects ==
  running ~> \/ state = "connected" /\ ws \notin silent
             \/ ~running \/ HandshakeUnanswered \/ SocketOrphaned
=============================================================================
