------------------------------ MODULE MCSqlStore ------------------------------
(* Values TLC gives the constants of SqlStore that a .cfg cannot spell.    *)
EXTENDS SqlStore, TLC
CONSTANTS t1, s1, s2, s3
OneTrans == {t1}
ThreeSplits == {s1, s2, s3}
Homes1 == [s \in Split |-> t1]
Symmetry == Permutations(Split)
=============================================================================
