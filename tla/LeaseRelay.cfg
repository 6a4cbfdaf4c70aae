CONSTANTS
  r1 = r1
  r2 = r2
  s1 = s1
  s2 = s2
  Runs = {r1, r2}
  MaxHeartbeatFailures = 2
  Limit = 1
  ClientThrows = {TRUE, FALSE}
  MaxInFlight = 1
  MaxDrops = 2
  None = None
  Sockets = {s1, s2}
  MaxAttempt = 2
  NoSocket = NoSocket
SPECIFICATION CloudLinkSpec
INVARIANT LeaseTypeOK
INVARIANT NoEarlyExpiry
INVARIANT ExpiresIffReported
INVARIANT RelayTypeOK
INVARIANT OneSocket
PROPERTY RequestsSettle
PROPERTY OrphanedLeaseFreed
PROPERTY Reconnects
CHECK_DEADLOCK FALSE
