SPECIFICATION Spec
CONSTANTS
  User = {u1}
  Nobody = Nobody
  Invite = {i1}
  Request = {r1}
  Kinds = {"verify", "redeem"}
  MaxAttempts = 1
CHECK_DEADLOCK FALSE
PROPERTIES
  LinkSkipsReview
