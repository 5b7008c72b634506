------------------------------ MODULE SineEngine ----------------------------
(***************************************************************************)
(* The voice table of src/plugins/common/sine_engine.cpp, which the synth  *)
(* flavors share: notes take a free voice or the oldest one, a note-off    *)
(* starts a release, a choke ends at once, rendering runs a release out,   *)
(* and emitNoteEnds() announces the voices that have ended.                *)
(*                                                                         *)
(* Pure operators over a table of voices; NoteChain holds the state.  What *)
(* is heard (phase, velocity, levels, modulation) and the channel, an      *)
(* address component that behaves as the key does, are left out.  The      *)
(* release gain counts the frames left until it is used up.                *)
(***************************************************************************)
EXTENDS Integers

CONSTANTS
  MaxVoices,      \* SineEngine::kMaxVoices
  ReleaseLen      \* frames a release lasts: kReleaseSeconds at the sample rate

ASSUME EngineAssumption ==
  /\ MaxVoices \in Nat \ {0}
  /\ ReleaseLen \in Nat \ {0}

Voices == 1..MaxVoices

Wildcard == -1

\* A default constructed SineEngine::Voice.
NoVoice ==
  [active |-> FALSE, releasing |-> FALSE, justEnded |-> FALSE,
   key |-> 0, noteId |-> Wildcard, age |-> 0, left |-> 0]

NoVoices == [v \in Voices |-> NoVoice]

AnyVoiceActive(vs) == \E v \in Voices : vs[v].active

\* The voice noteOn() takes: the first free one, else the oldest.
Target(vs) ==
  IF \E v \in Voices : ~vs[v].active
  THEN CHOOSE v \in Voices :
         ~vs[v].active /\ \A w \in 1..(v - 1) : vs[w].active
  ELSE CHOOSE v \in Voices : \A w \in Voices : vs[v].age <= vs[w].age

NoteOn(vs, e, clock) ==
  [vs EXCEPT ![Target(vs)] =
     [active |-> TRUE, releasing |-> FALSE, justEnded |-> FALSE,
      key |-> e.key, noteId |-> e.id, age |-> clock, left |-> ReleaseLen]]

\* Each address component of a note event may be a wildcard.
Addressed(vs, v, e) ==
  /\ vs[v].active
  /\ e.key # Wildcard => vs[v].key = e.key
  /\ e.id # Wildcard => vs[v].noteId = e.id

NoteOff(vs, e) ==
  [v \in Voices |->
     IF Addressed(vs, v, e) THEN [vs[v] EXCEPT !.releasing = TRUE] ELSE vs[v]]

Choke(vs, e) ==
  [v \in Voices |->
     IF Addressed(vs, v, e)
     THEN [vs[v] EXCEPT !.active = FALSE, !.justEnded = TRUE] ELSE vs[v]]

\* handleEvent(): CLAP notes and MIDI notes; MIDI carries no note id.
Starts(e) == e.kind \in {"on", "midiOn"}

HandleEvent(vs, e, clock) ==
  IF Starts(e) THEN NoteOn(vs, e, clock)
  ELSE IF e.kind = "choke" THEN Choke(vs, e)
  ELSE NoteOff(vs, e)

\* Mutant: a release is never over.
RenderForever(vs, n) ==
  [v \in Voices |->
     IF vs[v].active /\ vs[v].releasing /\ vs[v].left > n
     THEN [vs[v] EXCEPT !.left = @ - n] ELSE vs[v]]

\* render() over n frames: a releasing voice whose gain is used up has ended.
Render(vs, n) ==
  [v \in Voices |->
     IF ~vs[v].active \/ ~vs[v].releasing THEN vs[v]
     ELSE IF vs[v].left > n THEN [vs[v] EXCEPT !.left = @ - n]
     ELSE [vs[v] EXCEPT !.left = 0, !.active = FALSE, !.justEnded = TRUE]]

\* emitNoteEnds(): the voices announced, and the table it leaves.
Announced(vs) == {v \in Voices : vs[v].justEnded}

\* Mutant: the mark stays.
EmitNoteEndsAgain(vs) == vs

\* An announced voice is free; what it still holds is read by no one.
EmitNoteEnds(vs) ==
  [v \in Voices |-> IF vs[v].justEnded THEN NoVoice ELSE vs[v]]
=============================================================================
