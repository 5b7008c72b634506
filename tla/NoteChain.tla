------------------------------ MODULE NoteChain -----------------------------
(***************************************************************************)
(* Validator NoteFX feeding Validator Synth, as a host chains a note       *)
(* effect and an instrument: for each block the host gives NoteFX a list   *)
(* of events, what NoteFX puts out is the synth's event list, and the      *)
(* synth renders the block in chunks between those events.                 *)
(*                                                                         *)
(* src/plugins/notefx/notefx.cpp, src/plugins/synth/synth.cpp and the      *)
(* event checks every process() makes first (src/wrapper/plugin.cpp).      *)
(* The host keeps no rule: events may be unsorted or lie beyond the block, *)
(* a block may have no frames, and the transpose may change at any time.   *)
(***************************************************************************)
EXTENDS SineEngine, NoteFx, Sequences, FiniteSets

CONSTANTS
  Offered,        \* the note events a host sends, without their times
  Transposes,     \* values of NoteFX's parameter
  FrameCounts,    \* the lengths of the host's blocks, in frames
  Times,          \* the event times
  MaxEvents,      \* bound: notes of one block
  MaxNotes        \* bound: note-ons between two resets

ASSUME ChainAssumption ==
  /\ FrameCounts \subseteq Nat /\ 0 \in FrameCounts /\ Times \subseteq Nat
  /\ MaxEvents \in Nat /\ MaxNotes \in Nat \ {0}
  /\ Transposes \subseteq Int /\ 0 \in Transposes
  /\ \A e \in Offered :
       /\ DOMAIN e = {"kind", "key", "id"}
       /\ e.kind \in {"on", "midiOn", "off", "midiOff", "choke"}
       /\ e.key \in -1..MaxKey
       /\ e.id \in Int
       /\ Starts(e) => e.key # Wildcard

VARIABLES
  transpose,      \* NoteFxPlugin::_transpose
  voices, clock,  \* SineEngine::_voices, _clock
  phase,          \* "idle", or the plugin whose process() runs: "fx", "synth"
  frames,         \* frames_count of the block
  wire,           \* the events between the two plugins
  pos, cursor,    \* the synth's loop: events handled, frames rendered up to
  reported,       \* the codes the synth's checks report for this block
  status,         \* what the synth's last process() returned
  fate,           \* history: what became of each note since the reset
  held,           \* history: the notes the host has not taken back, until moved
  moved           \* history: the transpose changed while a note was held

engine == <<voices, clock>>
block  == <<phase, frames, wire, pos, cursor, reported, status>>
ledger == <<fate, held, moved>>
vars   == <<transpose, engine, block, ledger>>

Notes  == 0..(MaxNotes - 1)
Fates  == {"unborn", "sounding", "ended", "announced", "stolen", "lost", "wrong"}
Event  == [kind : {"on", "midiOn", "off", "midiOff", "choke"},
           key : -1..MaxKey, id : {e.id : e \in Offered}, time : Times]
Timed  == {[kind |-> e.kind, key |-> e.key, id |-> e.id, time |-> t] :
             e \in Offered, t \in Times}
Voice  == [active : BOOLEAN, releasing : BOOLEAN, justEnded : BOOLEAN,
           key : 0..MaxKey, noteId : {Wildcard} \union {e.id : e \in Offered},
           age : Notes, left : 0..ReleaseLen]
Held   == [note : Notes, key : 0..MaxKey, id : {e.id : e \in Offered}]

Init ==
  /\ transpose = 0
  /\ voices = NoVoices /\ clock = 0
  /\ phase = "idle" /\ frames = 0 /\ wire = <<>> /\ pos = 0 /\ cursor = 0
  /\ reported = {} /\ status = "none"
  /\ fate = [n \in Notes |-> "unborn"]
  /\ held = {} /\ moved = FALSE
-----------------------------------------------------------------------------
(* History.  A note is known by its age, the number its voice is given.    *)

Sounding(vs, n) == \E v \in Voices : vs[v].active /\ vs[v].age = n
Pending(vs, n)  == \E v \in Voices : vs[v].justEnded /\ vs[v].age = n

\* What the step from one table to the next has done to a note.
FateAfter(f, vs, n) ==
  IF Sounding(vs, n) THEN "sounding"
  ELSE IF Pending(vs, n) THEN IF f = "announced" THEN f ELSE "ended"
  ELSE IF f = "sounding" THEN "stolen"
  ELSE IF f = "ended" THEN "lost"
  ELSE f

\* NOTE_END is right once, for a note that has ended.
FateAnnounced(f) == IF f = "ended" THEN "announced" ELSE "wrong"

\* The note-ons sent since the reset, those still on the wire included.
Sent == clock + Cardinality({i \in (pos + 1)..Len(wire) : Starts(wire[i])})

HeldAfter(e) ==
  IF moved THEN {}
  ELSE IF Starts(e) THEN held \union {[note |-> Sent, key |-> e.key, id |-> e.id]}
  ELSE {h \in held : (e.key # Wildcard /\ h.key # e.key)
                     \/ (e.id # Wildcard /\ h.id # e.id)}
-----------------------------------------------------------------------------
(* NoteFX.                                                                 *)

\* The host calls process() of the first plugin of the chain.
BlockStart(f) ==
  /\ phase = "idle"
  /\ phase' = "fx" /\ frames' = f
  /\ UNCHANGED <<transpose, engine, wire, pos, cursor, reported, status,
                 ledger>>

\* A note event is sent on, transposed.
FxNote(e) ==
  /\ phase = "fx"
  /\ Len(wire) < MaxEvents
  /\ Starts(e) => Sent < MaxNotes
  /\ wire' = Append(wire, Transposed(e, transpose))
  /\ held' = HeldAfter(e)
  /\ UNCHANGED <<transpose, engine, phase, frames, pos, cursor, reported,
                 status, fate, moved>>

SetTranspose(t) ==
  /\ transpose' = t
  /\ IF held # {} /\ t # transpose THEN moved' = TRUE /\ held' = {}
     ELSE UNCHANGED <<moved, held>>
  /\ UNCHANGED <<engine, block, fate>>

\* A parameter event is consumed.
FxParam(t) == phase = "fx" /\ SetTranspose(t)

\* stateLoad() on the main thread, at any time; one that fails changes nothing.
StateLoad(t) == SetTranspose(t)

\* paramsFlush(), while no block runs.
ParamsFlush(t) == phase = "idle" /\ SetTranspose(t)
-----------------------------------------------------------------------------
(* The synth.                                                              *)

\* The event checks.  An event is out of order (P03) if it lies before the
\* latest time seen so far, which is that of some event before it.
EventReports ==
  {"P03" : i \in {j \in DOMAIN wire :
                    \E k \in 1..(j - 1) : wire[j].time < wire[k].time}}
  \union {"P04" : i \in {j \in DOMAIN wire : wire[j].time >= frames}}

\* NoteFX returns, and the host hands its events to the synth.
SynthStart ==
  /\ phase = "fx"
  /\ phase' = "synth"
  /\ reported' = EventReports
  /\ UNCHANGED <<transpose, engine, frames, wire, pos, cursor, status, ledger>>

\* Mutant: an event beyond the block is rendered up to.
ChunkBeforeBeyond(e) == IF e.time > cursor THEN e.time - cursor ELSE 0

\* The frames rendered before an event: none if it lies behind or beyond.
ChunkBefore(e) ==
  IF e.time > cursor /\ e.time <= frames THEN e.time - cursor ELSE 0

SynthEvent ==
  /\ phase = "synth" /\ pos < Len(wire)
  /\ LET e == wire[pos + 1]
         n == ChunkBefore(e)
         rest == Render(voices, n)
         next == HandleEvent(rest, e, clock)
     IN  /\ voices' = next
         /\ clock' = IF Starts(e) THEN clock + 1 ELSE clock
         /\ cursor' = cursor + n
         /\ fate' = [m \in Notes |->
                       FateAfter(FateAfter(fate[m], rest, m), next, m)]
  /\ pos' = pos + 1
  /\ UNCHANGED <<transpose, phase, frames, wire, reported, status, held, moved>>

\* The rest of the block, the note ends, and the status.
SynthEnd ==
  /\ phase = "synth" /\ pos = Len(wire)
  /\ LET n == frames - cursor
         rest == Render(voices, n)
     IN  /\ voices' = EmitNoteEnds(rest)
         /\ status' = IF AnyVoiceActive(rest) THEN "continue" ELSE "sleep"
         /\ fate' = [m \in Notes |->
              LET f == FateAfter(fate[m], rest, m)
              IN  IF \E v \in Announced(rest) : rest[v].age = m
                  THEN FateAnnounced(f) ELSE f]
  /\ phase' = "idle"
  /\ frames' = 0 /\ wire' = <<>> /\ pos' = 0 /\ cursor' = 0 /\ reported' = {}
  /\ UNCHANGED <<transpose, clock, held, moved>>

\* activate() and reset() of the synth both reset the engine.
EngineReset ==
  /\ phase = "idle"
  /\ voices' = NoVoices /\ clock' = 0
  /\ status' = "none"
  /\ fate' = [n \in Notes |-> "unborn"] /\ held' = {} /\ moved' = FALSE
  /\ UNCHANGED <<transpose, phase, frames, wire, pos, cursor, reported>>

Next ==
  \/ \E f \in FrameCounts : BlockStart(f)
  \/ \E e \in Timed : FxNote(e)
  \/ \E t \in Transposes : FxParam(t)
  \/ \E t \in Transposes : StateLoad(t)
  \/ \E t \in Transposes : ParamsFlush(t)
  \/ SynthStart
  \/ SynthEvent
  \/ SynthEnd
  \/ EngineReset

Spec == Init /\ [][Next]_vars

\* A block once begun is finished, and the host goes on processing blocks
\* that have frames, as a status of CONTINUE asks it to.
Fairness ==
  /\ WF_vars(SynthStart) /\ WF_vars(SynthEvent) /\ WF_vars(SynthEnd)
  /\ SF_vars(\E f \in FrameCounts \ {0} : BlockStart(f))

FairSpec == Spec /\ Fairness
-----------------------------------------------------------------------------
\* The ranges of the variables.
TypeOK ==
  /\ transpose \in Transposes
  /\ voices \in [Voices -> Voice] /\ clock \in 0..MaxNotes
  /\ phase \in {"idle", "fx", "synth"} /\ frames \in FrameCounts
  /\ wire \in Seq(Event)
  /\ Len(wire) <= MaxEvents
  /\ pos \in 0..Len(wire) /\ cursor \in Nat
  /\ reported \subseteq {"P03", "P04"}
  /\ status \in {"none", "continue", "sleep"}
  /\ fate \in [Notes -> Fates]
  /\ held \subseteq Held /\ moved \in BOOLEAN

\* NOTE_END is sent once for each voice that has finished (choked or run
\* out), at the latest at the end of the block it finished in, and for no
\* other, unless a later note of the same block has taken the voice
\* (SineEngine::emitNoteEnds).
NoteEndOnce ==
  \A n \in Notes : fate[n] # "wrong" /\ (phase = "idle" => fate[n] # "ended")

\* Seen from the host the synth does with its notes what NoteLives says, all
\* voices, events and blocks considered (SineEngine, SynthPlugin::processTyped).
Lives == INSTANCE NoteLives WITH
           Polyphony <- MaxVoices, life <- fate, rendering <- phase = "synth"
NotesLive == Lives!LivesSpec

\* A note is stolen only when every voice sounds, and then it is the oldest
\* (SineEngine::noteOn, "oldest-voice stealing").
StealsOldest ==
  [][\A n \in Notes :
       fate[n] = "sounding" /\ fate'[n] = "stolen" =>
         /\ \A v \in Voices : voices'[v].active
         /\ \A m \in 0..(n - 1) : fate'[m] # "sounding"]_vars

\* The synth returns SLEEP exactly when no note sounds, and then none is left
\* to be announced: a host that stops calling misses nothing
\* (SynthPlugin::processTyped).
SleepIsSilent ==
  phase = "idle" /\ status # "none" =>
    (status = "sleep" <=> \A n \in Notes : fate[n] \notin {"sounding", "ended"})

\* The synth never renders past the block, whatever the event times; and of
\* a list the checks find nothing wrong with, each event takes effect at its
\* own frame (SynthPlugin::processTyped, Plugin::checkProcessContracts).
SampleAccurate ==
  phase = "synth" =>
    /\ cursor <= frames
    /\ pos > 0 /\ reported = {} => cursor = wire[pos].time

\* While the transpose stays as it is, no note goes on sounding that the host
\* has taken back: its off goes to the key its on went to, clamped keys, note
\* ids and wildcards included (NoteFxPlugin::transformEvent, SineEngine::noteOff).
NoHangingVoice ==
  phase = "idle" /\ ~moved =>
    \A v \in Voices :
      voices[v].active /\ ~voices[v].releasing =>
        \E h \in held : h.note = voices[v].age

\* Once every note that sounds is released the synth falls asleep, unless
\* another note begins or it is reset, if the host goes on processing
\* (SineEngine::renderImpl, SynthPlugin::processTyped).
FadingOut == \A v \in Voices : voices[v].active => voices[v].releasing

FallsAsleep ==
  FadingOut /\ status = "continue" ~> ~FadingOut \/ status # "continue"
=============================================================================
