SPECIFICATION Spec
CONSTANTS
  t1 = t1
  t2 = t2
  s1 = s1
  s2 = s2
  s3 = s3
  a1 = a1
  Imbalance = Imbalance
  Orphan = Orphan
  NoTrans = NoTrans
  NoAcc = NoAcc
  NoCopy = NoCopy
  Trans <- OneTrans
  Split <- ThreeSplits
  Account <- OneAccount
  Values <- JustOne
  Descrs = {0}
  Flags = {"n"}
  MaxLevel = 1
  HasBackend = TRUE
  BackendRejects = TRUE
  SplitRejects = FALSE
  RemoteDeletes = FALSE
  Calls = {"rollback", "destroy", "account", "split"}
SYMMETRY SplitSymmetry
INVARIANTS
  TypeOK
  AccountListsAgree
  FrontIsOriginal
  NoSplitOutlivesTrans
