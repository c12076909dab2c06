SPECIFICATION Spec
CONSTANTS
  None = None
  Videos = {v1}
  Requests = {r1, r2, r3}
  Postgres = TRUE
  Failures = TRUE
SYMMETRY MCSymmetry
INVARIANT AbortEndpointWorks
CHECK_DEADLOCK FALSE
