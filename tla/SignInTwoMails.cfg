SPECIFICATION Spec
CONSTANTS
  User = {u1}
  Nobody = Nobody
  Device = {}
  Request = {r1, r2}
  Kinds = {"send"}
  MaxMail = 2
  MaxAttempts = 0
  MaxKeys = 0
CHECK_DEADLOCK FALSE
INVARIANT OnlyNewestWorks
