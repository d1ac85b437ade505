SPECIFICATION Spec
CONSTANTS
  StepCount    = 3
  NoTask       = NoTask
  Plans       <- MixedPlans
  Bystander    = {b}
  Failing      = {0, 1, 2}
  MaxFailures  = 1
  KeysDeferred = TRUE
  ChainUser    = {u}
  TaskUser     = TRUE
  MaxVersion   = 4
  MaxFaults    = 1
CHECK_DEADLOCK FALSE
INVARIANTS
  TypeOK
  ChainPointsToItsStep
  StepsHaveCause
  EndHasCause
PROPERTIES
  KeepsChainContract
  KeepsTaskContract
  StallsHaveCause
