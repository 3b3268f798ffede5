SPECIFICATION Spec
CONSTANTS
  t1 = t1
  t2 = t2
  s1 = s1
  s2 = s2
  s3 = s3
  a1 = a1
  Imbalance = Imbalance
  Orphan = Orphan
  NoTrans = NoTrans
  NoAcc = NoAcc
  NoCopy = NoCopy
  Trans <- OneTrans
  Split <- TwoSplits
  Account <- OneAccount
  Values <- JustOne
  Descrs = {0, 1}
  Flags = {"n", "y"}
  MaxLevel = 1
  HasBackend = FALSE
  BackendRejects = FALSE
  SplitRejects = FALSE
  RemoteDeletes = FALSE
  Calls = {"rollback", "account", "split", "descr", "read_only", "amount", "reconcile"}
SYMMETRY SplitSymmetry
VIEW FieldsOnly
PROPERTIES
  RollbackRestores
