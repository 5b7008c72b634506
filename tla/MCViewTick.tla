----------------------------- MODULE MCViewTick -----------------------------
(***************************************************************************)
(* One slider with two values, a record of two words, a log of one line:   *)
(* each feed can move twice, so that an update falls before, into and      *)
(* after a tick that already shows another.                                *)
(***************************************************************************)
EXTENDS ViewTick

CONSTANTS tempo, flags, playing, slider, nothing

MCWords == {tempo, flags}
MCTransports == {playing}
MCSliders == {slider}
MCValues == 0..1
=============================================================================
