CONSTANTS
  i1 = i1
  w1 = w1
  w2 = w2
  p1 = p1
  Items = {i1}
  Workers = {w1, w2}
  Processes = {p1}
  Sweepers = {p1}
  MaxRetries = 2
  MaxCopies = 1
  None = None
  LeaseEnforced = TRUE
SPECIFICATION DispatcherSpec
SYMMETRY Symmetry
INVARIANT OneActivePerProcess
CHECK_DEADLOCK FALSE
