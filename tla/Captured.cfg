SPECIFICATION Spec
CONSTANTS
  Task        = {t1}
  Periodic    = {}
  Delivering  = {}
  Worker      = {w1}
  Relay       = {r1}
  Client      = {c1}
  NoTask      = NoTask
  MaxAttempts = 1
  MaxRetries  = 1
  MaxVersion  = 4
  MaxFaults   = 0
CHECK_DEADLOCK FALSE
INVARIANT CapturedTaskUnchanged
