SPECIFICATION PollingSpec
CONSTANTS
  Task        = {t1}
  Periodic    = {}
  Polling     = {t1}
  Delivering  = {t1}
  Poller      = {p1}
  Worker      = {}
  Relay       = {}
  Client      = {}
  Low         = Low
  High        = High
  Bare        = Bare
  Garbled     = Garbled
  Value       = {Low, High}
  NotJson     = {Garbled}
  FieldOf    <- Fields
  NoField     = NoField
  NoTask      = NoTask
  NoAnswer    = NoAnswer
  MaxAttempts = 2
  MaxRetries  = 0
  MaxVersion  = 7
  MaxFaults   = 0
CHECK_DEADLOCK FALSE
SYMMETRY Symmetry
PROPERTIES
  OnlyChangesDelivered
