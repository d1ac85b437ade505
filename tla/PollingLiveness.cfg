SPECIFICATION FairPollingSpec
CONSTANTS
  Task        = {t1, t2}
  Periodic    = {}
  Polling     = {t1, t2}
  Delivering  = {t1}
  Poller      = {p1}
  Worker      = {}
  Relay       = {}
  Client      = {c1}
  Low         = Low
  High        = High
  Bare        = Bare
  Garbled     = Garbled
  Value       = {Garbled}
  NotJson     = {Garbled}
  FieldOf    <- Fields
  NoField     = NoField
  NoTask      = NoTask
  NoAnswer    = NoAnswer
  MaxAttempts = 2
  MaxRetries  = 0
  MaxVersion  = 3
  MaxFaults   = 1
CHECK_DEADLOCK FALSE
PROPERTIES
  CheckEnds
  FinalStatusIsFinal
