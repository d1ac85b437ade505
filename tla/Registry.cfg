SPECIFICATION Spec
CONSTANTS
  Request    = {r1, r2, r3, r4}
  Sender     = {s1, s2}
  Key        = {k1, k2}
  NoRequest  = NoRequest
  MaxVersion = 2
CHECK_DEADLOCK FALSE
SYMMETRY Symmetry
INVARIANTS
  TypeOK
  SameKeySameTask
  CancelledForOne
  LetterKept
PROPERTIES
  ErrorLeavesNoTrace
