SPECIFICATION Spec
CONSTANTS
  Case = {c1}
  Request = {r1}
  Worker = {w1}
  Roles = {"community"}
  Origins = {"upload", "cli"}
  Kinds = {"add", "finalize", "note"}
  MaxRun = 1
  MaxVersion = 1
  MaxRounds = 1
  MaxNotes = 1
  MaxCrashes = 0
  MaxLost = 0
CHECK_DEADLOCK FALSE
PROPERTIES
  NoteIsTheOneFieldWritten
