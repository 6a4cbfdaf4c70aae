CONSTANTS
  h1 = h1
  Hooks = {h1}
  MaxTriggers = 1
  MaxGates = 1
  Interval = 2
  Gates = {"plan-review", "sibling-review"}
  Known = {"plan-review"}
  Retained = {}
SPECIFICATION MonitorFairSpec
INVARIANT MonitorTypeOK
INVARIANT TriggerKeptUntilQueued
PROPERTY TriggerServed
PROPERTY ResumeServed
CHECK_DEADLOCK FALSE
