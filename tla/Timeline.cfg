SPECIFICATION Spec
CONSTANTS
  Description    <- Mixed
  Interval        = 2
  DefaultTimeout  = 3
  Margin          = 2
  DefaultInterval = 1
  MaxJitter       = 1
  Worker          = {w1, w2}
  Slack           = 1
  Before          = 2
  NoDate          = NoDate
  Horizon         = 14
CHECK_DEADLOCK FALSE
SYMMETRY Symmetry
INVARIANTS
  TypeOK
  NoParallelRuns
  NoDrift
  DatesAdvance
  FailuresFitPolicy
PROPERTIES
  HungOnly
  RetryNearlyWaits
