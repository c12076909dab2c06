SPECIFICATION Spec
CONSTANTS
  None = None
  Tokens = {t1, t2}
  Identities = {i1, i2}
  Logouts = {o1, o2}
  Videos = {v1}
  Loads = {a1, a2}
SYMMETRY MCSymmetry
INVARIANTS
  TypeOK
  SignInSettles
  LoggedOutIsLetGo
  ShowsOwnVideos
  UploaderTellsTheTruth
  LeftBehindForAReason
PROPERTY DeletedStaysOffScreen
CHECK_DEADLOCK FALSE
