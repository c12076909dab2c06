SPECIFICATION Spec
CONSTANTS
  None = None
  Tokens = {t1}
  Identities = {i1}
  Accounts = {a1}
  Requests = {r1}
  TTL = 2
  ConfigAnswers = "validated"
INVARIANT TogglesWork
CHECK_DEADLOCK FALSE
