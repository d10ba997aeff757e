SPECIFICATION Spec
CONSTANTS
  Case = {c1}
  Request = {r1}
  Worker = {w1}
  Roles = {"staff"}
  Origins = {"upload"}
  Kinds = {"add", "finalize", "rescore"}
  MaxRun = 1
  MaxVersion = 1
  MaxRounds = 2
  MaxNotes = 0
  MaxCrashes = 0
  MaxLost = 0
CHECK_DEADLOCK FALSE
PROPERTIES
  DecidedIsLeftAlone
