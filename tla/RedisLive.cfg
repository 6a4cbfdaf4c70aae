CONSTANTS
  i1 = i1
  w1 = w1
  w2 = w2
  s1 = s1
  Items = {i1}
  Workers = {w1, w2}
  Sweepers = {s1}
  MaxRetries = 1
  MaxCopies = 1
  None = None
  j1 = j1
  jw = jw
  jp = jp
  n1 = n1
  v1 = v1
  Jobs = {j1}
  JobWorkers = {jw}
  Processors = {jp}
  Slots = {n1}
  SweepSlots = {v1}
  Client = Client
  NoJob = NoJob
  MaxConcurrent = 1
  MaxAttempts = 2
SPECIFICATION LiveSpec
CONSTRAINT SomeJobOpen
INVARIANT NoJobLost
INVARIANT DeadOnlyByFailures
PROPERTY ResidueRepaired
PROPERTY OrphanRecovered
PROPERTY JobsSettle
CHECK_DEADLOCK FALSE
