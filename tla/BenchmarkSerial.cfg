SPECIFICATION FairSpec
CONSTANTS
  Case = {c1, c2}
  Request = {r1}
  Worker = {w1, w2}
  Roles = {"staff", "community"}
  Origins = {"upload"}
  Kinds = {"add", "finalize", "rescore", "approved", "rejected", "withdraw"}
  MaxRun = 2
  MaxVersion = 1
  MaxRounds = 2
  MaxNotes = 0
  MaxCrashes = 1
  MaxLost = 1
CHECK_DEADLOCK FALSE
INVARIANTS
  TypeOK
  ScoringHasWork
  NothingQueuedOnceSettled
  DecisionMailedOnce
  ScoredMailOncePerRound
PROPERTIES
  ReviewedFollowLifecycle
  SentIsSettled
