SPECIFICATION Spec
CONSTANTS
  User = {u1}
  Nobody = Nobody
  Device = {d1}
  Request = {r1, r2}
  Kinds = {"send", "confirm", "decide", "poll", "create"}
  MaxMail = 2
  MaxAttempts = 1
  MaxKeys = 1
SYMMETRY Symmetry
CHECK_DEADLOCK FALSE
INVARIANTS
  TypeOK
  SignedInHasAccount
PROPERTIES
  MailsAreOneTime
  DevicesAreOneTime
  DecisionStands
