--------------------------- MODULE MCGuiParamQueue --------------------------
(***************************************************************************)
(* Three values, so that two edits and a host event can all differ, and    *)
(* enough items for a gesture with two values and a second gesture's begin.*)
(***************************************************************************)
EXTENDS GuiParamQueue

CONSTANT none

MCValues == {0, 1, 2}
=============================================================================
