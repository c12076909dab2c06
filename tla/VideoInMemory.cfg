SPECIFICATION Spec
CONSTANTS
  None = None
  Videos = {v1}
  Requests = {r1, r2, r3}
  Postgres = FALSE
  Failures = FALSE
SYMMETRY MCSymmetry
PROPERTY DeletedStaysDeleted
CHECK_DEADLOCK FALSE
