SPECIFICATION Spec
CONSTANTS
  Case = {c1}
  Request = {r1, r2}
  Worker = {w1}
  Roles = {"community"}
  Origins = {"upload", "cli"}
  Kinds = {"add", "finalize"}
  MaxRun = 2
  MaxVersion = 1
  MaxRounds = 1
  MaxNotes = 0
  MaxCrashes = 0
  MaxLost = 0
CHECK_DEADLOCK FALSE
INVARIANTS
  EveryRunIsQueuedForScoring
