SPECIFICATION Spec
CONSTANTS
  Task        = {t1}
  Periodic    = {t1}
  Delivering  = {t1}
  Worker      = {w1, w2}
  Relay       = {r1, r2}
  Client      = {c1}
  NoTask      = NoTask
  MaxAttempts = 2
  MaxRetries  = 1
  MaxVersion  = 5
  MaxFaults   = 2
CHECK_DEADLOCK FALSE
SYMMETRY Symmetry
INVARIANTS
  TypeOK
  DatesFitStatus
  VersionIdentifiesRow
  DeadLetterExact
PROPERTIES
  FinalStatusIsFinal
  OutcomeByHolder
  KeepsContract
