SPECIFICATION PollingSpec
CONSTANTS
  Task        = {t1}
  Periodic    = {}
  Polling     = {t1}
  Delivering  = {t1}
  Poller      = {p1, p2}
  Worker      = {w1}
  Relay       = {r1}
  Client      = {}
  Low         = Low
  High        = High
  Bare        = Bare
  Garbled     = Garbled
  Value       = {Low, High, Bare, Garbled}
  NotJson     = {Garbled}
  FieldOf    <- Fields
  NoField     = NoField
  NoTask      = NoTask
  NoAnswer    = NoAnswer
  MaxAttempts = 2
  MaxRetries  = 0
  MaxVersion  = 6
  MaxFaults   = 0
CHECK_DEADLOCK FALSE
SYMMETRY Symmetry
INVARIANTS
  PollingTypeOK
  PollerOwnsCapture
PROPERTIES
  ComparesWithLatest
  NewsIsDelivered
  CheckByHolder
