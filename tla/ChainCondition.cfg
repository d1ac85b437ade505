SPECIFICATION Spec
CONSTANTS
  StepCount    = 2
  NoTask       = NoTask
  Plans       <- FirstAsks
  Bystander    = {}
  Failing      = {}
  MaxFailures  = 1
  KeysDeferred = TRUE
  ChainUser    = {}
  TaskUser     = FALSE
  MaxVersion   = 1
  MaxFaults    = 0
CHECK_DEADLOCK FALSE
PROPERTY MetConditionAdvances
