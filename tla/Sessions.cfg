SPECIFICATION FairSpec
CONSTANTS
  None = None
  Tokens = {t1, t2}
  Identities = {i1, i2}
  Requests = {r1, r2}
  TTL = 2
INVARIANTS
  TypeOK
  TokensKeepIdentity
  RevokeAllLeavesNone
PROPERTIES
  EndedStaysEnded
  EndsForAReason
  OnlyTimeShortens
  UnusedExpires
