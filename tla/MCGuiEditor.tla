----------------------------- MODULE MCGuiEditor ----------------------------
(***************************************************************************)
(* A small instance of GuiEditor: two sizes, one of them below the       *)
(* minimum, and two scales.                                                *)
(***************************************************************************)
EXTENDS GuiEditor

MCSizes == {1, 4}
MCScales == {0, 2}
MCNoSizes == {}
MCKinds == {"resize", "map"}
MCMapOnly == {"map"}
=============================================================================
