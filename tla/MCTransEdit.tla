----------------------------- MODULE MCTransEdit -----------------------------
(* Values TLC gives the constants of TransEdit that a .cfg cannot spell.   *)
EXTENDS TransEdit, TLC
CONSTANTS t1, t2, s1, s2, s3, a1
OneTrans == {t1}
TwoTrans == {t1, t2}
TwoSplits == {s1, s2}
ThreeSplits == {s1, s2, s3}
OneAccount == {a1, Imbalance, Orphan}
SplitSymmetry == Permutations(Split)
Symmetry == Permutations(Split) \cup Permutations(Trans)
JustOne == {1}
(* A view for runs whose properties and calls never look at an account.    *)
FieldsOnly == <<trans, orig, split>>
=============================================================================
