SPECIFICATION Spec
CONSTANTS
  Case = {c1}
  Request = {r1}
  Worker = {w1}
  Roles = {"community"}
  Origins = {"upload", "cli"}
  Kinds = {"add", "finalize", "rescore", "approved", "rejected", "withdraw"}
  MaxRun = 2
  MaxVersion = 1
  MaxRounds = 2
  MaxNotes = 0
  MaxCrashes = 0
  MaxLost = 0
CHECK_DEADLOCK FALSE
PROPERTIES
  PublishedResultIsFixed
