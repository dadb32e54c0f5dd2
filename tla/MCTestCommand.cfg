CONSTANTS
  Commands <- AllCommands
  FlagSets <- SomeFlags
  Configs <- SomeConfigs
  Envs <- SomeEnvs
CHECK_DEADLOCK FALSE
SPECIFICATION FairSpec
INVARIANTS
  ExitCodeSound
  FailureReportedOnce
  RequestsJustified
  TempFileRemoved
PROPERTIES
  ResultsUnderAllowedPolicy
  Terminates
