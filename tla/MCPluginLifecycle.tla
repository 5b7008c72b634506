-------------------------- MODULE MCPluginLifecycle -------------------------
(***************************************************************************)
(* A small instance of PluginLifecycle for TLC: a flavor with two layouts, *)
(* frame counts that include the unusable 0, and steady times that let a   *)
(* block follow, touch or overlap the one before.                          *)
(***************************************************************************)
EXTENDS PluginLifecycle

CONSTANTS stereo, multiOut, none

MCLayouts == {stereo, multiOut}
MCFrames == {0, 2}
MCTimes == {-1, 0, 1, 2}
=============================================================================
