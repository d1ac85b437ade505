SPECIFICATION Spec
CONSTANTS
  Description    <- TwoTries
  Interval        = 2
  DefaultTimeout  = 3
  Margin          = 2
  DefaultInterval = 1
  MaxJitter       = 1
  Worker          = {w1, w2}
  Slack           = 1
  Before          = 0
  NoDate          = NoDate
  Horizon         = 12
CHECK_DEADLOCK FALSE
SYMMETRY Symmetry
INVARIANTS
  DiesByItsPolicy
