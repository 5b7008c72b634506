------------------------------ MODULE NoteLives -----------------------------
(***************************************************************************)
(* What a synth with a fixed number of voices promises the host about the  *)
(* notes it is sent, whatever their times, keys and ids: a note sounds     *)
(* from its note-on; it ends by itself or by a choke and is announced by   *)
(* the end of that block, once; or the oldest note is stolen for a new one *)
(* when every voice sounds.  A NOTE_END is lost at most to a note that     *)
(* begins before the block ends.  SLEEP is returned when nothing sounds.   *)
(***************************************************************************)
EXTENDS Integers, FiniteSets

CONSTANTS
  Polyphony,      \* how many notes can sound
  Notes           \* the notes, numbered as they begin

VARIABLES
  life,           \* what has become of each note
  rendering,      \* a block is being rendered
  status          \* what the last block returned

livesVars == <<life, rendering, status>>

Is(what) == {n \in Notes : life[n] = what}

LivesInit ==
  /\ life = [n \in Notes |-> "unborn"]
  /\ rendering = FALSE /\ status = "none"

BlockBegins ==
  /\ ~rendering /\ rendering' = TRUE
  /\ UNCHANGED <<life, status>>

\* Up to the next event some notes end, and so do those it chokes.
NotesEnd(ends) ==
  /\ rendering
  /\ life' = [n \in Notes |-> IF n \in ends THEN "ended" ELSE life[n]]
  /\ UNCHANGED <<rendering, status>>

\* Note n begins, after some notes have ended; one of them, or another that
\* has ended in this block, may lose its voice before it is announced.
NoteBegins(n, ends, gone) ==
  /\ rendering
  /\ \A m \in Is("unborn") : n <= m
  /\ Cardinality(Is("sounding") \ ends) < Polyphony
  /\ life' = [m \in Notes |-> IF m = n THEN "sounding"
                              ELSE IF m \in gone THEN "lost"
                              ELSE IF m \in ends THEN "ended"
                              ELSE life[m]]
  /\ UNCHANGED <<rendering, status>>

\* Every voice sounds: the oldest note makes room.
NoteSteals(n, ends, oldest) ==
  /\ rendering
  /\ \A m \in Is("unborn") : n <= m
  /\ Cardinality(Is("sounding") \ ends) = Polyphony
  /\ \A m \in Is("sounding") \ ends : oldest <= m
  /\ life' = [m \in Notes |-> IF m = n THEN "sounding"
                              ELSE IF m = oldest THEN "stolen"
                              ELSE IF m \in ends THEN "ended"
                              ELSE life[m]]
  /\ UNCHANGED <<rendering, status>>

\* The block ends: what has ended in it is announced.
BlockEnds(ends) ==
  /\ rendering /\ rendering' = FALSE
  /\ life' = [n \in Notes |-> IF n \in ends \union Is("ended")
                              THEN "announced" ELSE life[n]]
  /\ status' = IF Is("sounding") \subseteq ends THEN "sleep" ELSE "continue"

Restart ==
  /\ ~rendering
  /\ life' = [n \in Notes |-> "unborn"] /\ status' = "none"
  /\ UNCHANGED rendering

LivesNext ==
  \/ BlockBegins
  \/ \E ends \in SUBSET Is("sounding") :
       \/ NotesEnd(ends)
       \/ \E n \in Is("unborn") :
            \/ NoteBegins(n, ends, {})
            \/ \E m \in Is("ended") \union ends : NoteBegins(n, ends, {m})
            \/ \E m \in Is("sounding") \ ends : NoteSteals(n, ends, m)
       \/ BlockEnds(ends)
  \/ Restart

LivesSpec == LivesInit /\ [][LivesNext]_livesVars
=============================================================================
