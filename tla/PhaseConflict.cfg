SPECIFICATION PhaseSpec
CONSTANTS
  Configs <- MCConfigs
  MaxRemediations = 1
  MaxImplementRetries = 1
  MaxBlockCycles = 1
  MaxTasks = 0
  MaxFaults = 0
INVARIANT FinishedMeansImplemented
CHECK_DEADLOCK FALSE
