SPECIFICATION Spec
CONSTANTS
  User = {u1, u2}
  Nobody = Nobody
  Invite = {i1}
  Request = {r1, r2}
  Kinds = {"verify", "redeem", "form"}
  MaxAttempts = 1
SYMMETRY Symmetry
CHECK_DEADLOCK FALSE
INVARIANTS
  TypeOK
PROPERTIES
  LinksAreOneTime
