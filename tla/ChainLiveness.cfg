SPECIFICATION FairSpec
CONSTANTS
  StepCount    = 3
  NoTask       = NoTask
  Plans       <- SoundPlans
  Bystander    = {b}
  Failing      = {0, 1, 2}
  MaxFailures  = 2
  KeysDeferred = TRUE
  ChainUser    = {}
  TaskUser     = FALSE
  MaxVersion   = 1
  MaxFaults    = 2
CHECK_DEADLOCK FALSE
INVARIANTS
  ActiveChainHasLiveStep
PROPERTIES
  RunningEnds
  ChainEnds
