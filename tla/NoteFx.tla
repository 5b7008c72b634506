-------------------------------- MODULE NoteFx ------------------------------
(***************************************************************************)
(* What src/plugins/notefx/notefx.cpp does to a note event: the key is     *)
(* shifted by the transpose of the moment and clamped to the keyboard, and *)
(* a wildcard stays one.  The value is an integer here; the code truncates *)
(* the parameter's double.                                                 *)
(***************************************************************************)
EXTENDS Integers

CONSTANT MaxKey         \* the highest key, 127 in the code

ASSUME KeyAssumption == MaxKey \in Nat

AnyKey == -1

ClampKey(k) == IF k < 0 THEN 0 ELSE IF k > MaxKey THEN MaxKey ELSE k

\* Mutant: a wildcard is shifted as a key is.
TransposedAny(e, t) == [e EXCEPT !.key = ClampKey(@ + t)]

\* transformEvent() for notes; MIDI keys are never a wildcard.
Transposed(e, t) ==
  [e EXCEPT !.key = IF @ = AnyKey THEN AnyKey ELSE ClampKey(@ + t)]
=============================================================================
