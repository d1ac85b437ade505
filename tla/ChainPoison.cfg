SPECIFICATION FairSpec
CONSTANTS
  StepCount    = 2
  NoTask       = NoTask
  Plans       <- UndoesFirst
  Bystander    = {b}
  Failing      = {1}
  MaxFailures  = 1
  KeysDeferred = TRUE
  ChainUser    = {}
  TaskUser     = FALSE
  MaxVersion   = 1
  MaxFaults    = 1
CHECK_DEADLOCK FALSE
PROPERTY OthersStillProcessed
