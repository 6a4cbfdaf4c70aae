CONSTANTS
  i1 = i1
  w1 = w1
  w2 = w2
  p1 = p1
  Items = {i1}
  Workers = {w1, w2}
  Processes = {p1}
  Sweepers = {p1}
  MaxRetries = 1
  MaxCopies = 1
  None = None
  LeaseEnforced = FALSE
SPECIFICATION FairDispatcherSpec
INVARIANT DispatcherTypeOK
INVARIANT OneActivePerProcess
PROPERTY UsesQueue
PROPERTY EveryItemLeaves
CHECK_DEADLOCK FALSE
