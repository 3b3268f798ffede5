CONSTANTS
  p1 = p1
  p2 = p2
  Absent = Absent
  Proc <- TwoProcs
  Retentions <- DaysForever
  MayIgnore = FALSE
  Links = {TRUE, FALSE}
  DiskFails = TRUE
  MaxVersion = 2
SPECIFICATION Spec
CHECK_DEADLOCK FALSE
SYMMETRY Symmetry
INVARIANTS
  LockHeld
  SavedSurvives
PROPERTIES
  NoLostUpdate
