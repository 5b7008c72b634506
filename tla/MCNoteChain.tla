----------------------------- MODULE MCNoteChain ----------------------------
(***************************************************************************)
(* A small instance of NoteChain: two keys, one note id, one note of the   *)
(* MIDI dialect, and a transpose that clamps.                              *)
(***************************************************************************)
EXTENDS NoteChain

MCOffered ==
  {[kind |-> "on",     key |-> 0,  id |-> 1],
   [kind |-> "midiOn", key |-> 1,  id |-> -1],
   [kind |-> "off",    key |-> 0,  id |-> -1],
   [kind |-> "choke",  key |-> -1, id |-> 1]}
MCTransposes == {0, 1}
MCFrameCounts == {0, 2}
MCTimes == {1, 2}
=============================================================================
