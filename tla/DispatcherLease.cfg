CONSTANTS
  i1 = i1
  w1 = w1
  p1 = p1
  Items = {i1}
  Workers = {w1}
  Processes = {p1}
  Sweepers = {p1}
  MaxRetries = 2
  MaxCopies = 1
  None = None
  LeaseEnforced = TRUE
SPECIFICATION FairDispatcherSpec
PROPERTY UsesQueue
PROPERTY EveryItemLeaves
PROPERTY NoReplicaStalls
CHECK_DEADLOCK FALSE
