-------------------------- MODULE MCProcessThreads --------------------------
(***************************************************************************)
(* The main thread and three audio threads: enough for two concurrent      *)
(* blocks and a start, stop or reset next to them.                         *)
(***************************************************************************)
EXTENDS ProcessThreads

CONSTANTS audio1, audio2, audio3

MCThreads == {audio1, audio2, audio3}
=============================================================================
