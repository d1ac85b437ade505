SPECIFICATION Spec
CONSTANTS
  Task        = {t1}
  Periodic    = {}
  Delivering  = {}
  Worker      = {w1}
  Relay       = {r1}
  Client      = {}
  NoTask      = NoTask
  MaxAttempts = 1
  MaxRetries  = 1
  MaxVersion  = 3
  MaxFaults   = 2
CHECK_DEADLOCK FALSE
INVARIANT DeliveryGuaranteed
