SPECIFICATION FairSpec
CONSTANTS
  Task        = {t1}
  Periodic    = {}
  Delivering  = {t1}
  Worker      = {w1, w2}
  Relay       = {r1, r2}
  Client      = {}
  NoTask      = NoTask
  MaxAttempts = 2
  MaxRetries  = 1
  MaxVersion  = 8
  MaxFaults   = 2
CHECK_DEADLOCK FALSE
INVARIANTS
  QueuedOnItsWay
  ResultsAccountedFor
PROPERTIES
  ExecutionEnds
  OneTimeTaskSettles
