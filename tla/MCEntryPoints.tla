---------------------------- MODULE MCEntryPoints ---------------------------
(***************************************************************************)
(* Three threads: two entry calls and another symbol at once, or two other *)
(* symbols and an entry call.                                              *)
(***************************************************************************)
EXTENDS EntryPoints, TLC

CONSTANTS t1, t2, t3

MCThreads == {t1, t2, t3}
Symmetry == Permutations(MCThreads)
=============================================================================
