SPECIFICATION Spec
CONSTANTS
  Case = {c1}
  Request = {r1, r2}
  Worker = {w1, w2}
  Roles = {"community"}
  Origins = {"upload", "cli"}
  Kinds = {"add", "finalize", "rescore", "approved", "rejected", "withdraw", "note"}
  MaxRun = 2
  MaxVersion = 2
  MaxRounds = 2
  MaxNotes = 1
  MaxCrashes = 0
  MaxLost = 0
SYMMETRY Symmetry
CHECK_DEADLOCK FALSE
INVARIANTS
  VerifiedWasReproduced
  UnreviewedNeverPublished
PROPERTIES
  SubmitterReportStands
