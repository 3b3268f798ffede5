------------------------------ MODULE MCXmlFile ------------------------------
(* Values TLC gives the constants of XmlFile that a .cfg cannot spell.     *)
EXTENDS XmlFile, TLC
CONSTANTS p1, p2
OneProc == {p1}
TwoProcs == {p1, p2}
Symmetry == Permutations(Proc)
OnlyNever == {"never"}
DaysForever == {"days", "forever"}
AnyRetention == {"never", "days", "forever"}
=============================================================================
