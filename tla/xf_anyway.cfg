CONSTANTS
  p1 = p1
  p2 = p2
  Absent = Absent
  Proc <- TwoProcs
  Retentions <- AnyRetention
  MayIgnore = TRUE
  Links = {TRUE}
  DiskFails = TRUE
  MaxVersion = 1
SPECIFICATION Spec
CHECK_DEADLOCK FALSE
SYMMETRY Symmetry
INVARIANTS
  NeverTorn
