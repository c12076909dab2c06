SPECIFICATION FairSpec
CONSTANTS
  None = None
  ann = ann
  bob = bob
  MaxEvents = 3
  Batches = {b1, b2}
  Users <- MCUsers
  User <- MCUser
  Matches <- MCMatches
  Failures = TRUE
  Repeats = TRUE
INVARIANTS
  TypeOK
  TraitsFollowEvents
PROPERTIES
  RequestsKeepOrder
  ImplementsChannel
  NothingStuck
CHECK_DEADLOCK FALSE
