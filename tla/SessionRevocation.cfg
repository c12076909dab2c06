SPECIFICATION Spec
CONSTANTS
  None = None
  Tokens = {t1}
  Identities = {i1, i2}
  Requests = {r1, r2}
  TTL = 2
INVARIANT RevocationIsInstant
