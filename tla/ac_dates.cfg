SPECIFICATION Spec
CONSTANTS
  Events = {e1, e2, e3, e4}
  Retentions = {q1, q2}
  Verifies = {v1}
  Overlap = FALSE
  Spares = FALSE
  MaxClock = 2
SYMMETRY Symmetry
INVARIANT VerifiesOk
CHECK_DEADLOCK FALSE
