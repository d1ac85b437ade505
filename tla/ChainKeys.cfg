SPECIFICATION Spec
CONSTANTS
  StepCount    = 2
  NoTask       = NoTask
  Plans       <- TwoStops
  Bystander    = {}
  Failing      = {}
  MaxFailures  = 1
  KeysDeferred = FALSE
  ChainUser    = {}
  TaskUser     = FALSE
  MaxVersion   = 1
  MaxFaults    = 0
CHECK_DEADLOCK FALSE
INVARIANT ValidChainAccepted
