CONSTANTS
  i1 = i1
  w1 = w1
  w2 = w2
  p1 = p1
  p2 = p2
  Items = {i1}
  Workers = {w1, w2}
  Processes = {p1, p2}
  Sweepers = {p1}
  MaxRetries = 2
  MaxCopies = 1
  None = None
  LeaseEnforced = TRUE
SPECIFICATION DispatcherSpec
SYMMETRY Symmetry
INVARIANT WorkIsTracked
CHECK_DEADLOCK FALSE
