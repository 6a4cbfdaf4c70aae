SPECIFICATION PhaseSpec
CONSTANTS
  Configs <- MCConfigs
  MaxRemediations = 1
  MaxImplementRetries = 1
  MaxBlockCycles = 1
  MaxTasks = 0
  MaxFaults = 1
INVARIANTS
  PhaseTypeOK
  GatesRespected
  RemediationBudget
  FinishedWorkAccepted
  FinishedMeansValidated
  NoSilentStop
PROPERTY
  RunEnds
CHECK_DEADLOCK FALSE
