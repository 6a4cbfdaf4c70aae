CONSTANTS
  i1 = i1
  i2 = i2
  w1 = w1
  w2 = w2
  Items = {i1, i2}
  Workers = {w1, w2}
  Times = {1}
  MaxRetries = 2
  MaxCount = 2
  MaxCopies = 2
  None = None
SPECIFICATION Spec
SYMMETRY Symmetry
INVARIANT TypeOK
INVARIANT PendingSorted
INVARIANT NoResidue
PROPERTY KeepsContract
CHECK_DEADLOCK FALSE
