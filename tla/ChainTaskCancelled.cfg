SPECIFICATION Spec
CONSTANTS
  StepCount    = 2
  NoTask       = NoTask
  Plans       <- TwoStops
  Bystander    = {}
  Failing      = {}
  MaxFailures  = 1
  KeysDeferred = TRUE
  ChainUser    = {}
  TaskUser     = TRUE
  MaxVersion   = 1
  MaxFaults    = 0
CHECK_DEADLOCK FALSE
INVARIANT ActiveChainHasLiveStep
