CONSTANTS
  Phones = {p1}
  Roles = {customer}
  Clients = {q1, q2}
  Codes = {x1, x2}
  MaxAttempts = 1
  Nothing = Nothing
  Admins = {a1, a2} a1 = a1
  Sessions = {s1, s2, s3}
  MaxLogouts = 1
SPECIFICATION MCSpec
CONSTRAINT OneWorld
SYMMETRY Symmetry
INVARIANTS
  TypeOK
  CodesAreLimited
  RotationIsLinear
  LogoutAllHolds
