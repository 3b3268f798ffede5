---------------------------- MODULE MCGuiRefresh ----------------------------
(* Values TLC gives the constants of GuiRefresh that a .cfg cannot spell.  *)
EXTENDS GuiRefresh

OneSplit == [e \in {"rent"} |-> "Split"]
BothHandlers == {<<TRUE, TRUE>>}
SomeMasks == {{}, {"MODIFY"}}
=============================================================================
