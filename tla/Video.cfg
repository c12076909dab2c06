SPECIFICATION Spec
CONSTANTS
  None = None
  Videos = {v1}
  Requests = {r1, r2, r3, r4, r5}
  Postgres = TRUE
  Failures = TRUE
SYMMETRY MCSymmetry
INVARIANTS
  TypeOK
  ReadyHasObject
  MultipartNeverOrphaned
  AckedKept
  PendingCanBeSettled
PROPERTY ImplementsLifecycle
CHECK_DEADLOCK FALSE
