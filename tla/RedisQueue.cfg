CONSTANTS
  i1 = i1
  w1 = w1
  w2 = w2
  s1 = s1
  Items = {i1}
  Workers = {w1, w2}
  Sweepers = {s1}
  MaxRetries = 2
  MaxCopies = 2
  None = None
SPECIFICATION Spec
SYMMETRY Symmetry
INVARIANT TypeOK
INVARIANT OneOwner
PROPERTY OnlyStaleCompleteOrSweepUntracks
PROPERTY KeepsContract
CHECK_DEADLOCK FALSE
