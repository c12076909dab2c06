SPECIFICATION FairSpec
CONSTANTS
  None = None
  Tokens = {t1}
  Identities = {i1}
  Accounts = {a1, a2}
  Requests = {r1, r2}
  TTL = 2
  ConfigAnswers = "raw"
INVARIANTS
  TypeOK
  SessionsHaveIdentity
  ListensOnlyConnected
PROPERTIES
  ImplementsTtlCache
  GoneStaysGone
  BootSettles
CHECK_DEADLOCK FALSE
