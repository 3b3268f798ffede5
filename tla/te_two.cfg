SPECIFICATION Spec
CONSTANTS
  t1 = t1
  t2 = t2
  s1 = s1
  s2 = s2
  s3 = s3
  a1 = a1
  Imbalance = Imbalance
  Orphan = Orphan
  NoTrans = NoTrans
  NoAcc = NoAcc
  NoCopy = NoCopy
  Trans <- TwoTrans
  Split <- TwoSplits
  Account <- OneAccount
  Values <- JustOne
  Descrs = {0}
  Flags = {"n"}
  MaxLevel = 2
  HasBackend = TRUE
  BackendRejects = TRUE
  SplitRejects = FALSE
  RemoteDeletes = TRUE
  Calls = {"destroy", "account", "split", "base_value"}
SYMMETRY Symmetry
INVARIANTS
  ClosedIsConsistent
PROPERTIES
  AtomicEdits
