SPECIFICATION Spec
CONSTANTS
  StepCount    = 2
  NoTask       = NoTask
  Plans       <- SkipsFirst
  Bystander    = {}
  Failing      = {0}
  MaxFailures  = 1
  KeysDeferred = TRUE
  ChainUser    = {}
  TaskUser     = FALSE
  MaxVersion   = 1
  MaxFaults    = 0
CHECK_DEADLOCK FALSE
INVARIANT CurrentTaskOfCurrentStep
