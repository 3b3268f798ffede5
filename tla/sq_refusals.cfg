CONSTANTS
  t1 = t1
  s1 = s1
  s2 = s2
  s3 = s3
  None = None
  Trans <- OneTrans
  Split <- ThreeSplits
  HomeOf <- Homes1
  MaxVer = 2
  MayRefuse = TRUE
  MayCrash = FALSE
  MaySave = FALSE
SPECIFICATION Spec
CHECK_DEADLOCK FALSE
SYMMETRY Symmetry
INVARIANTS
  InfantHasNoRow
  NoOrphanSplitRow
  DestroyedLeavesNothing
