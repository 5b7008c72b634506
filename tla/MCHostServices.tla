--------------------------- MODULE MCHostServices ---------------------------
(***************************************************************************)
(* One host process and one other that scans for presets, one sample file, *)
(* an early log of two lines, three threads.                               *)
(***************************************************************************)
EXTENDS HostServices
=============================================================================
