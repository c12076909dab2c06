SPECIFICATION Spec
CONSTANTS
  None = None
  Pipes = {p1, p2}
  Users = {u1, u2}
  MaxSize = 4
  MaxLogouts = 2
SYMMETRY MCSymmetry
INVARIANTS
  TypeOK
  WellFormedGames
  GameKeepsUser
