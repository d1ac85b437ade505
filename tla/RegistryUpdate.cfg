SPECIFICATION Spec
CONSTANTS
  Request    = {r1, r2, r3}
  Sender     = {s1}
  Key        = {k1, k2}
  NoRequest  = NoRequest
  MaxVersion = 3
CHECK_DEADLOCK FALSE
SYMMETRY Symmetry
INVARIANTS
  UpdateReplaces
