SPECIFICATION Spec
CONSTANTS
  None = None
  d1 = d1
  d2 = d2
  v1 = v1
  mail = mail
  ann = ann
  bob = bob
  Callbacks = {c1, c2, c3}
  States = {s1, s2}
  Users <- MCUsers
  Emails = {mail}
  Names = {ann, bob}
  Provider <- MCProvider
  Info <- MCInfo
  Replays = TRUE
  Crashes = TRUE
  ServiceCalls = {"softDelete", "unlink"}
SYMMETRY MCSymmetry
INVARIANTS
  TypeOK
  SessionsAreOwned
  AccountsAreWhole
  LinksStartFromOwner
  SessionsOfOneIdentity
PROPERTY ImplementsContract
CHECK_DEADLOCK FALSE
