------------------------ MODULE MCViolationRegistry ------------------------
(***************************************************************************)
(* Two threads over two codes; the throttle is scaled down so that a code  *)
(* passes from full lines to skipped ones and to a repeat note.            *)
(***************************************************************************)
EXTENDS ViolationRegistry, TLC

CONSTANTS main, audio

MCThreads == {main, audio}
MCSymmetry == Permutations(MCThreads)
=============================================================================
