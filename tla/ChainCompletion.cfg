SPECIFICATION Spec
CONSTANTS
  StepCount    = 2
  NoTask       = NoTask
  Plans       <- TwoStops
  Bystander    = {}
  Failing      = {}
  MaxFailures  = 2
  KeysDeferred = TRUE
  ChainUser    = {}
  TaskUser     = FALSE
  MaxVersion   = 1
  MaxFaults    = 0
CHECK_DEADLOCK FALSE
PROPERTY LastStepCompletesChain
