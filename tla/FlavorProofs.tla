---------------------------- MODULE FlavorProofs ----------------------------
(***************************************************************************)
(* Theorems about the flavors, in two parts.                               *)
(*                                                                         *)
(* I.  NoteChain, for any number of voices, any keys, ids, times, blocks   *)
(* and bounds: note ends are announced once and for finished voices only,  *)
(* the synth keeps to its block and to its events' times, the oldest note  *)
(* is stolen, and SLEEP means silence; and what a host sees of the notes   *)
(* is what NoteLives allows.                                               *)
(*                                                                         *)
(* II. FlavorStreams, for every flavor of the suite, any values and any    *)
(* bounds: events are judged and applied alike, layouts and latencies are  *)
(* what the host was told, a load that returns true has restored what was  *)
(* saved, and one that returns false has left things alone.                *)
(***************************************************************************)
EXTENDS NoteChain, FlavorStreams, TLAPS, FiniteSetTheorems, SequenceTheorems,
        WellFoundedInduction

-----------------------------------------------------------------------------
(* I.  The note chain                                                      *)

Live(vs, v) == vs[v].active \/ vs[v].justEnded

VoiceRecord ==
  [active : BOOLEAN, releasing : BOOLEAN, justEnded : BOOLEAN,
   key : Int, noteId : Int, age : Nat, left : Int]

\* A table in order: a voice sounds or waits to be announced, not both, and
\* no two of them were given the same number.
Table(vs, c) ==
  /\ vs \in [Voices -> VoiceRecord]
  /\ \A v \in Voices : ~(vs[v].active /\ vs[v].justEnded)
  /\ \A v \in Voices : Live(vs, v) => vs[v].age < c
  /\ \A v, w \in Voices :
       Live(vs, v) /\ Live(vs, w) /\ vs[v].age = vs[w].age => v = w

\* What a step that announces nothing does to a table: a voice that waits to
\* be announced afterwards was live before, with the same number.
Follows(vs, ws) ==
  \A v \in Voices : ws[v].justEnded => Live(vs, v) /\ ws[v].age = vs[v].age

\* A step that starts no note: every voice keeps its number and its life.
Keeps(vs, ws) ==
  \A v \in Voices : ws[v].age = vs[v].age /\ (Live(ws, v) <=> Live(vs, v))

\* The history of the notes agrees with the table.
Agrees(f, vs) ==
  /\ f \in [Notes -> Fates]
  /\ \A n \in Notes :
       /\ f[n] # "wrong"
       /\ f[n] = "sounding" <=> Sounding(vs, n)
       /\ f[n] = "ended" <=> Pending(vs, n)

-----------------------------------------------------------------------------
(* The operations keep the table in order.                                 *)

\* Rendering keeps every live voice live, with its number.
LEMMA RenderTable ==
  ASSUME NEW vs, NEW c \in Nat, NEW n \in Int, Table(vs, c)
  PROVE  /\ Table(Render(vs, n), c) /\ Follows(vs, Render(vs, n))
         /\ Keeps(vs, Render(vs, n))
<1> DEFINE ws == Render(vs, n)
<1>1. ws \in [Voices -> VoiceRecord]
  <2>1. ASSUME NEW v \in Voices  PROVE  ws[v] \in VoiceRecord
    <3>1. vs[v] \in VoiceRecord
      BY DEF Table
    <3>2. CASE ~vs[v].active \/ ~vs[v].releasing
      BY <3>1, <3>2 DEF Render
    <3>3. CASE vs[v].active /\ vs[v].releasing /\ vs[v].left > n
      <4>1. ws[v] = [vs[v] EXCEPT !.left = @ - n]
        BY <3>3 DEF Render
      <4> QED BY <3>1, <4>1 DEF VoiceRecord
    <3>4. CASE vs[v].active /\ vs[v].releasing /\ ~(vs[v].left > n)
      <4>1. ws[v] = [vs[v] EXCEPT !.left = 0, !.active = FALSE, !.justEnded = TRUE]
        BY <3>4 DEF Render
      <4>2. [vs[v] EXCEPT !.left = 0] \in VoiceRecord
        BY <3>1 DEF VoiceRecord
      <4>3. \A r \in VoiceRecord :
              [r EXCEPT !.active = FALSE, !.justEnded = TRUE] \in VoiceRecord
        BY DEF VoiceRecord
      <4> QED BY <4>1, <4>2, <4>3
    <3> QED BY <3>2, <3>3, <3>4
  <2> QED BY <2>1 DEF Render
<1>2. ASSUME NEW v \in Voices
      PROVE  /\ ws[v].age = vs[v].age
             /\ Live(ws, v) <=> Live(vs, v)
             /\ ~(ws[v].active /\ ws[v].justEnded)
  BY DEF Table, Render, VoiceRecord, Live
<1> HIDE DEF ws
<1>3. Table(ws, c)
  BY <1>1, <1>2 DEF Table
<1>4. Follows(vs, ws)
  BY <1>2 DEF Follows, Live
<1>5. Keeps(vs, ws)
  BY <1>2 DEF Keeps
<1> QED BY <1>3, <1>4, <1>5 DEF ws

\* A release or a choke keeps every live voice live, with its number.
LEMMA OffTable ==
  ASSUME NEW vs, NEW c \in Nat, NEW e, Table(vs, c)
  PROVE  /\ Table(NoteOff(vs, e), c) /\ Follows(vs, NoteOff(vs, e))
         /\ Table(Choke(vs, e), c) /\ Follows(vs, Choke(vs, e))
         /\ Keeps(vs, NoteOff(vs, e)) /\ Keeps(vs, Choke(vs, e))
<1> DEFINE offs == NoteOff(vs, e)
           chokes == Choke(vs, e)
<1>1. offs \in [Voices -> VoiceRecord] /\ chokes \in [Voices -> VoiceRecord]
  BY DEF Table, NoteOff, Choke, VoiceRecord
<1>2. ASSUME NEW v \in Voices
      PROVE  /\ offs[v].age = vs[v].age /\ chokes[v].age = vs[v].age
             /\ Live(offs, v) <=> Live(vs, v)
             /\ Live(chokes, v) <=> Live(vs, v)
             /\ ~(offs[v].active /\ offs[v].justEnded)
             /\ ~(chokes[v].active /\ chokes[v].justEnded)
  BY DEF Table, NoteOff, Choke, Addressed, VoiceRecord, Live
<1> HIDE DEF offs, chokes
<1>3. Table(offs, c) /\ Follows(vs, offs)
  BY <1>1, <1>2 DEF Table, Follows, Live
<1>4. Table(chokes, c) /\ Follows(vs, chokes)
  BY <1>1, <1>2 DEF Table, Follows, Live
<1>5. Keeps(vs, offs) /\ Keeps(vs, chokes)
  BY <1>2 DEF Keeps
<1> QED BY <1>3, <1>4, <1>5 DEF offs, chokes

\* A new note gets a number of its own, whichever voice it takes.
LEMMA OnTable ==
  ASSUME NEW vs, NEW c \in Nat, NEW e, e.key \in Int, e.id \in Int, Table(vs, c)
  PROVE  Table(NoteOn(vs, e, c), c + 1) /\ Follows(vs, NoteOn(vs, e, c))
<1> DEFINE t == Target(vs)
           new == [active |-> TRUE, releasing |-> FALSE, justEnded |-> FALSE,
                   key |-> e.key, noteId |-> e.id, age |-> c,
                   left |-> ReleaseLen]
           ws == NoteOn(vs, e, c)
<1>1. new \in VoiceRecord
  BY EngineAssumption DEF VoiceRecord
<1>2. ws = [vs EXCEPT ![t] = new]
  BY DEF NoteOn
<1>3. /\ new.active /\ ~new.justEnded /\ new.age = c
  OBVIOUS
<1> HIDE DEF t, new, ws
<1>4. ws \in [Voices -> VoiceRecord]
  BY <1>1, <1>2 DEF Table
<1>5. ASSUME NEW v \in Voices
      PROVE  ws[v] = IF v = t THEN new ELSE vs[v]
  BY <1>2 DEF Table
<1>6. \A v \in Voices : vs[v].age \in Nat
  BY DEF Table, VoiceRecord
<1>7. Table(ws, c + 1)
  <2>1. \A v \in Voices : ~(ws[v].active /\ ws[v].justEnded)
    BY <1>5, <1>3 DEF Table
  <2>2. \A v \in Voices : Live(ws, v) => ws[v].age < c + 1
    BY <1>5, <1>3, <1>6 DEF Table, Live
  <2>3. ASSUME NEW v \in Voices, NEW w \in Voices,
               Live(ws, v), Live(ws, w), ws[v].age = ws[w].age
        PROVE  v = w
    <3>1. CASE v = t /\ w = t
      BY <3>1
    <3>2. CASE v # t /\ w # t
      BY <3>2, <2>3, <1>5 DEF Table, Live
    <3>3. CASE v = t /\ w # t
      BY <3>3, <2>3, <1>3, <1>5, <1>6 DEF Table, Live
    <3>4. CASE v # t /\ w = t
      BY <3>4, <2>3, <1>3, <1>5, <1>6 DEF Table, Live
    <3> QED BY <3>1, <3>2, <3>3, <3>4
  <2> QED BY <1>4, <2>1, <2>2, <2>3 DEF Table
<1>8. Follows(vs, ws)
  BY <1>3, <1>5 DEF Follows, Live
<1> QED BY <1>7, <1>8 DEF ws

\* The announced voices leave; nothing is left to be announced.
LEMMA EmitTable ==
  ASSUME NEW vs, NEW c \in Nat, Table(vs, c)
  PROVE  /\ Table(EmitNoteEnds(vs), c)
         /\ \A n : ~Pending(EmitNoteEnds(vs), n)
         /\ \A n : Sounding(EmitNoteEnds(vs), n) <=> Sounding(vs, n)
<1> DEFINE ws == EmitNoteEnds(vs)
<1>1. ws \in [Voices -> VoiceRecord]
  BY DEF Table, EmitNoteEnds, NoVoice, Wildcard, VoiceRecord
<1>2. ASSUME NEW v \in Voices
      PROVE  /\ ~ws[v].justEnded
             /\ ws[v].active <=> vs[v].active
             /\ ws[v].active => ws[v].age = vs[v].age
  BY DEF Table, EmitNoteEnds, NoVoice, VoiceRecord
<1> HIDE DEF ws
<1>3. Table(ws, c)
  BY <1>1, <1>2 DEF Table, Live
<1>4. \A n : ~Pending(ws, n)
  BY <1>2 DEF Pending
<1>5. \A n : Sounding(ws, n) <=> Sounding(vs, n)
  BY <1>2 DEF Sounding
<1> QED BY <1>3, <1>4, <1>5 DEF ws

\* A table without voices is in order, and a history without notes agrees.
LEMMA EmptyTable ==
  /\ Table(NoVoices, 0)
  /\ Agrees([n \in Notes |-> "unborn"], NoVoices)
  BY DEF Table, NoVoices, NoVoice, VoiceRecord, Wildcard, Live,
         Agrees, Fates, Sounding, Pending

-----------------------------------------------------------------------------
(* The history keeps agreeing.                                             *)

LEMMA FatesAgree ==
  ASSUME NEW f, NEW vs, NEW ws, NEW c \in Nat, NEW d \in Nat,
         Agrees(f, vs), Table(vs, c), Table(ws, d), Follows(vs, ws)
  PROVE  Agrees([n \in Notes |-> FateAfter(f[n], ws, n)], ws)
<1> DEFINE g == [n \in Notes |-> FateAfter(f[n], ws, n)]
<1>1. ASSUME NEW n \in Notes
      PROVE  /\ g[n] \in Fates /\ g[n] # "wrong"
             /\ g[n] = "sounding" <=> Sounding(ws, n)
             /\ g[n] = "ended" <=> Pending(ws, n)
  <2>1. f[n] \in Fates /\ f[n] # "wrong"
    BY DEF Agrees
  <2>2. ~(Sounding(ws, n) /\ Pending(ws, n))
    BY DEF Table, Live, Sounding, Pending
  <2>3. Pending(ws, n) => f[n] \in {"sounding", "ended"}
    BY DEF Follows, Live, Sounding, Pending, Agrees
  <2>4. g[n] = FateAfter(f[n], ws, n)
    OBVIOUS
  <2>5. CASE Sounding(ws, n)
    BY <2>2, <2>4, <2>5 DEF FateAfter, Fates
  <2>6. CASE ~Sounding(ws, n) /\ Pending(ws, n)
    <3>1. g[n] = "ended"
      BY <2>3, <2>4, <2>6 DEF FateAfter
    <3> QED BY <2>6, <3>1 DEF Fates
  <2>7. CASE ~Sounding(ws, n) /\ ~Pending(ws, n)
    <3>1. g[n] = IF f[n] = "sounding" THEN "stolen"
                 ELSE IF f[n] = "ended" THEN "lost" ELSE f[n]
      BY <2>4, <2>7 DEF FateAfter
    <3> QED BY <2>1, <2>7, <3>1 DEF Fates
  <2> QED BY <2>5, <2>6, <2>7
<1> HIDE DEF g
<1>2. g \in [Notes -> Fates]
  BY <1>1 DEF g
<1>3. Agrees(g, ws)
  BY <1>1, <1>2 DEF Agrees
<1> QED BY <1>3 DEF g

-----------------------------------------------------------------------------
(* The inductive invariant.                                                *)

ListOK ==
  /\ wire \in Seq(Event) /\ pos \in 0..Len(wire)
  /\ frames \in Nat /\ cursor \in Nat
  /\ transpose \in Int

\* Where the loop of the block stands.
LoopOK ==
  /\ cursor <= frames
  /\ phase = "synth" => reported = EventReports
  /\ pos = 0 => cursor = 0
  /\ pos > 0 /\ reported = {} => cursor = wire[pos].time
  /\ phase # "synth" => pos = 0

NotesOK ==
  /\ clock \in Nat
  /\ Table(voices, clock)
  /\ Agrees(fate, voices)
  /\ phase # "synth" => \A n \in Notes : fate[n] # "ended"

ChainInv == ListOK /\ LoopOK /\ NotesOK

LEMMA EventFacts ==
  ASSUME NEW e \in Event
  PROVE  e.key \in Int /\ e.id \in Int /\ e.time \in Nat
<1>1. {o.id : o \in Offered} \subseteq Int
  BY ChainAssumption
<1>2. -1..MaxKey \subseteq Int
  BY KeyAssumption
<1> QED BY <1>1, <1>2, ChainAssumption DEF Event

\* NoteFX puts out events the synth can take.
LEMMA TransposedEvent ==
  ASSUME NEW e \in Timed, NEW t \in Int
  PROVE  Transposed(e, t) \in Event
<1>1. e \in Event
  <2>1. PICK o \in Offered, u \in Times :
          e = [kind |-> o.kind, key |-> o.key, id |-> o.id, time |-> u]
    BY DEF Timed
  <2> QED BY <2>1, ChainAssumption DEF Event
<1>2. e.key \in -1..MaxKey
  BY <1>1 DEF Event
<1>3. ASSUME NEW k \in Int  PROVE ClampKey(k) \in -1..MaxKey
  BY KeyAssumption DEF ClampKey
<1>4. e.key + t \in Int
  BY <1>2, KeyAssumption
<1>5. (IF e.key = AnyKey THEN AnyKey ELSE ClampKey(e.key + t)) \in -1..MaxKey
  BY <1>3, <1>4, KeyAssumption DEF AnyKey
<1> QED BY <1>1, <1>5 DEF Transposed, Event

LEMMA ChainInit == Init => ChainInv
<1> SUFFICES ASSUME Init PROVE ChainInv
  OBVIOUS
<1>1. ListOK
  BY DEF Init, ListOK
<1>2. LoopOK
  BY DEF Init, LoopOK
<1>3. NotesOK
  BY EmptyTable DEF Init, NotesOK
<1> QED BY <1>1, <1>2, <1>3 DEF ChainInv

LEMMA BlockStartStep ==
  ASSUME ChainInv, NEW f \in FrameCounts, BlockStart(f)
  PROVE  ChainInv'
<1> USE DEF BlockStart, engine, ledger
<1>1. ListOK'
  BY ChainAssumption DEF ChainInv, ListOK
<1>2. LoopOK'
  BY <1>1, ChainAssumption DEF ChainInv, ListOK, LoopOK
<1>3. NotesOK'
  BY DEF ChainInv, NotesOK
<1> QED BY <1>1, <1>2, <1>3 DEF ChainInv

LEMMA FxNoteStep ==
  ASSUME ChainInv, NEW e \in Timed, FxNote(e)
  PROVE  ChainInv'
<1> USE DEF FxNote, engine
<1>1. Transposed(e, transpose) \in Event
  BY TransposedEvent DEF ChainInv, ListOK
<1>2. pos = 0 /\ cursor = 0
  BY DEF ChainInv, LoopOK
<1>3. wire' \in Seq(Event) /\ Len(wire') \in Nat
  BY <1>1 DEF ChainInv, ListOK
<1>4. ListOK'
  BY <1>2, <1>3 DEF ChainInv, ListOK
<1>5. LoopOK'
  BY <1>2 DEF ChainInv, LoopOK
<1>6. NotesOK'
  BY DEF ChainInv, NotesOK
<1> QED BY <1>4, <1>5, <1>6 DEF ChainInv

LEMMA SetTransposeStep ==
  ASSUME ChainInv, NEW t \in Transposes, SetTranspose(t)
  PROVE  ChainInv'
<1> USE DEF SetTranspose, engine, block
<1>1. ListOK'
  BY ChainAssumption DEF ChainInv, ListOK
<1>2. LoopOK'
  BY DEF ChainInv, LoopOK, EventReports
<1>3. NotesOK'
  BY DEF ChainInv, NotesOK
<1> QED BY <1>1, <1>2, <1>3 DEF ChainInv

LEMMA SynthStartStep ==
  ASSUME ChainInv, SynthStart
  PROVE  ChainInv'
<1> USE DEF SynthStart, engine, ledger
<1>1. ListOK'
  BY DEF ChainInv, ListOK
<1>2. LoopOK'
  <2>1. reported' = EventReports'
    BY DEF EventReports
  <2>2. pos = 0 /\ cursor <= frames /\ (pos = 0 => cursor = 0)
    BY DEF ChainInv, LoopOK
  <2> QED BY <2>1, <2>2 DEF LoopOK
<1>3. NotesOK'
  BY DEF ChainInv, NotesOK
<1> QED BY <1>1, <1>2, <1>3 DEF ChainInv

\* Handling an event keeps the table in order.
LEMMA HandleTable ==
  ASSUME NEW vs, NEW c \in Nat, NEW e \in Event, Table(vs, c)
  PROVE  /\ Table(HandleEvent(vs, e, c), IF Starts(e) THEN c + 1 ELSE c)
         /\ Follows(vs, HandleEvent(vs, e, c))
<1>1. CASE Starts(e)
  BY <1>1, EventFacts, OnTable DEF HandleEvent
<1>2. CASE ~Starts(e)
  BY <1>2, OffTable DEF HandleEvent
<1> QED BY <1>1, <1>2

LEMMA SynthEventStep ==
  ASSUME ChainInv, SynthEvent
  PROVE  ChainInv'
<1> DEFINE e == wire[pos + 1]
           n == ChunkBefore(e)
           rest == Render(voices, n)
           next == HandleEvent(rest, e, clock)
           mid == [m \in Notes |-> FateAfter(fate[m], rest, m)]
<1>1. pos \in Nat /\ pos + 1 \in DOMAIN wire /\ Len(wire) \in Nat
  BY DEF SynthEvent, ChainInv, ListOK
<1>2. e \in Event
  BY <1>1 DEF ChainInv, ListOK
<1>3. e.time \in Nat
  BY <1>2, EventFacts
<1>4. /\ n \in Nat /\ cursor + n <= frames
      /\ n = IF e.time > cursor /\ e.time <= frames THEN e.time - cursor ELSE 0
  BY <1>3 DEF ChunkBefore, ChainInv, ListOK, LoopOK
<1>5. /\ voices' = next /\ cursor' = cursor + n /\ pos' = pos + 1
      /\ clock' = IF Starts(e) THEN clock + 1 ELSE clock
      /\ fate' = [m \in Notes |-> FateAfter(mid[m], next, m)]
      /\ UNCHANGED <<transpose, phase, frames, wire, reported>>
      /\ phase = "synth"
  BY DEF SynthEvent
<1> HIDE DEF n, rest, next, mid
<1>6. ListOK'
  BY <1>1, <1>4, <1>5 DEF SynthEvent, ChainInv, ListOK
<1>7. LoopOK'
  <2>1. ASSUME reported = {}  PROVE cursor' = e.time
    <3>1. /\ \A j \in DOMAIN wire : \A k \in 1..(j - 1) :
               ~(wire[j].time < wire[k].time)
          /\ \A j \in DOMAIN wire : ~(wire[j].time >= frames)
      BY <2>1, <1>5 DEF ChainInv, LoopOK, EventReports
    <3>2. e.time < frames
      BY <3>1, <1>1, <1>3 DEF ChainInv, ListOK
    <3>3. CASE pos = 0
      BY <3>2, <3>3, <1>3, <1>4, <1>5 DEF ChainInv, ListOK, LoopOK
    <3>4. CASE pos > 0
      <4>1. pos \in DOMAIN wire /\ wire[pos] \in Event
        BY <3>4, <1>1 DEF ChainInv, ListOK
      <4>2. wire[pos].time \in Nat /\ cursor = wire[pos].time
        BY <4>1, <3>4, <2>1, EventFacts DEF ChainInv, LoopOK
      <4>3. pos \in 1..((pos + 1) - 1)
        BY <1>1, <3>4
      <4>4. ~(wire[pos + 1].time < wire[pos].time)
        BY <4>3, <3>1, <1>1
      <4> QED BY <4>2, <4>4, <3>2, <1>3, <1>4, <1>5 DEF ChainInv, ListOK
    <3> QED BY <3>3, <3>4, <1>1
  <2>2. wire'[pos'] = e /\ pos' > 0
    BY <1>1, <1>5
  <2>3. reported' = EventReports'
    BY <1>5 DEF ChainInv, LoopOK, EventReports
  <2> QED BY <2>1, <2>2, <2>3, <1>4, <1>5 DEF LoopOK
<1>8. NotesOK'
  <2>1. Table(voices, clock) /\ Agrees(fate, voices) /\ clock \in Nat
    BY DEF ChainInv, NotesOK
  <2>2. Table(rest, clock) /\ Follows(voices, rest)
    BY <2>1, <1>4, RenderTable DEF rest
  <2>3. Agrees(mid, rest)
    BY <2>1, <2>2, FatesAgree DEF mid
  <2>4. Table(next, clock') /\ Follows(rest, next) /\ clock' \in Nat
    BY <2>1, <2>2, <1>2, <1>5, HandleTable DEF next
  <2>5. Agrees(fate', next)
    BY <2>1, <2>2, <2>3, <2>4, <1>5, FatesAgree
  <2> QED BY <2>4, <2>5, <1>5 DEF NotesOK
<1> QED BY <1>6, <1>7, <1>8 DEF ChainInv

LEMMA SynthEndStep ==
  ASSUME ChainInv, SynthEnd
  PROVE  ChainInv' /\ \A m \in Notes : fate'[m] # "ended"
<1> DEFINE n == frames - cursor
           rest == Render(voices, n)
           mid == [m \in Notes |-> FateAfter(fate[m], rest, m)]
<1>1. /\ voices' = EmitNoteEnds(rest)
      /\ fate' = [m \in Notes |->
                    IF \E v \in Announced(rest) : rest[v].age = m
                    THEN FateAnnounced(mid[m]) ELSE mid[m]]
      /\ phase' = "idle" /\ frames' = 0 /\ wire' = <<>> /\ pos' = 0
      /\ cursor' = 0 /\ UNCHANGED <<transpose, clock>>
  BY DEF SynthEnd
<1>2. n \in Int
  BY DEF ChainInv, ListOK
<1> HIDE DEF n, rest, mid
<1>3. ListOK'
  BY <1>1 DEF ChainInv, ListOK
<1>4. LoopOK'
  BY <1>1 DEF LoopOK
<1>5. Table(voices, clock) /\ Agrees(fate, voices) /\ clock \in Nat
  BY DEF ChainInv, NotesOK
<1>6. Table(rest, clock) /\ Follows(voices, rest)
  BY <1>5, <1>2, RenderTable DEF rest
<1>7. Agrees(mid, rest)
  BY <1>5, <1>6, FatesAgree DEF mid
<1>8. /\ Table(voices', clock)
      /\ \A m : ~Pending(voices', m)
      /\ \A m : Sounding(voices', m) <=> Sounding(rest, m)
  BY <1>1, <1>5, <1>6, EmitTable
<1>9. ASSUME NEW m \in Notes
      PROVE  /\ fate'[m] \in Fates /\ fate'[m] # "wrong" /\ fate'[m] # "ended"
             /\ fate'[m] = "sounding" <=> Sounding(voices', m)
  <2>1. /\ mid[m] \in Fates /\ mid[m] # "wrong"
        /\ mid[m] = "sounding" <=> Sounding(rest, m)
        /\ mid[m] = "ended" <=> Pending(rest, m)
    BY <1>7 DEF Agrees
  <2>2. Pending(rest, m) <=> \E v \in Announced(rest) : rest[v].age = m
    BY DEF Pending, Announced
  <2>3. fate'[m] = IF Pending(rest, m) THEN FateAnnounced(mid[m]) ELSE mid[m]
    BY <1>1, <2>2
  <2>4. CASE Pending(rest, m)
    <3>1. fate'[m] = "announced"
      BY <2>1, <2>3, <2>4 DEF FateAnnounced
    <3>2. ~Sounding(rest, m)
      BY <2>1, <2>4
    <3> QED BY <3>1, <3>2, <1>8 DEF Fates
  <2>5. CASE ~Pending(rest, m)
    <3>1. fate'[m] = mid[m]
      BY <2>3, <2>5
    <3> QED BY <3>1, <2>1, <2>5, <1>8
  <2> QED BY <2>4, <2>5
<1>10. fate' \in [Notes -> Fates]
  <2> DEFINE g == [m \in Notes |->
                     IF \E v \in Announced(rest) : rest[v].age = m
                     THEN FateAnnounced(mid[m]) ELSE mid[m]]
  <2>1. fate' = g
    BY <1>1
  <2>2. \A m \in Notes : g[m] \in Fates
    BY <1>9, <2>1
  <2> QED BY <2>1, <2>2
<1>11. Agrees(fate', voices')
  BY <1>8, <1>9, <1>10 DEF Agrees
<1>12. NotesOK'
  BY <1>1, <1>5, <1>8, <1>9, <1>11 DEF NotesOK
<1> QED BY <1>3, <1>4, <1>9, <1>12 DEF ChainInv

LEMMA EngineResetStep ==
  ASSUME ChainInv, EngineReset
  PROVE  ChainInv'
<1> USE DEF EngineReset
<1>1. ListOK'
  BY DEF ChainInv, ListOK
<1>2. LoopOK'
  BY DEF ChainInv, LoopOK, EventReports
<1>3. NotesOK'
  BY EmptyTable DEF NotesOK
<1> QED BY <1>1, <1>2, <1>3 DEF ChainInv

LEMMA StutterStep ==
  ASSUME ChainInv, UNCHANGED vars
  PROVE  ChainInv'
<1> USE DEF vars, engine, block, ledger
<1>1. ListOK'
  BY DEF ChainInv, ListOK
<1>2. LoopOK'
  BY DEF ChainInv, LoopOK, EventReports
<1>3. NotesOK'
  BY DEF ChainInv, NotesOK
<1> QED BY <1>1, <1>2, <1>3 DEF ChainInv

LEMMA ChainStep == ChainInv /\ [Next]_vars => ChainInv'
<1> SUFFICES ASSUME ChainInv, [Next]_vars PROVE ChainInv'
  OBVIOUS
<1>1. ASSUME NEW f \in FrameCounts, BlockStart(f)  PROVE ChainInv'
  BY <1>1, BlockStartStep
<1>2. ASSUME NEW e \in Timed, FxNote(e)  PROVE ChainInv'
  BY <1>2, FxNoteStep
<1>3. ASSUME NEW t \in Transposes, FxParam(t)  PROVE ChainInv'
  BY <1>3, SetTransposeStep DEF FxParam
<1>4. ASSUME NEW t \in Transposes, StateLoad(t)  PROVE ChainInv'
  BY <1>4, SetTransposeStep DEF StateLoad
<1>5. ASSUME NEW t \in Transposes, ParamsFlush(t)  PROVE ChainInv'
  BY <1>5, SetTransposeStep DEF ParamsFlush
<1>6. CASE SynthStart
  BY <1>6, SynthStartStep
<1>7. CASE SynthEvent
  BY <1>7, SynthEventStep
<1>8. CASE SynthEnd
  BY <1>8, SynthEndStep
<1>9. CASE EngineReset
  BY <1>9, EngineResetStep
<1>10. CASE UNCHANGED vars
  BY <1>10, StutterStep
<1> QED
  BY <1>1, <1>2, <1>3, <1>4, <1>5, <1>6, <1>7, <1>8, <1>9, <1>10 DEF Next

-----------------------------------------------------------------------------
\* The invariant holds of every reachable state: the voice table is in order,
\* the history agrees with it, and the loop stands where its events put it.
THEOREM ChainCorrect == Spec => []ChainInv
<1> QED BY ChainInit, ChainStep, PTL DEF Spec

\* Each finished voice is announced once, by the end of its block, and no
\* other note is, unless its voice was taken; for any number of voices.
THEOREM NoteEndsRight == Spec => []NoteEndOnce
<1>1. ChainInv => NoteEndOnce
  BY DEF ChainInv, NotesOK, Agrees, NoteEndOnce
<1> QED BY <1>1, ChainCorrect, PTL

\* The synth keeps to its block, and to the times of a list without reports,
\* for any lists and blocks.
THEOREM EventsOnTime == Spec => []SampleAccurate
<1>1. ChainInv => SampleAccurate
  BY DEF ChainInv, LoopOK, SampleAccurate
<1> QED BY <1>1, ChainCorrect, PTL
-----------------------------------------------------------------------------
(* Which voice a note takes.                                               *)

Less == {p \in Nat \X Nat : p[1] < p[2]}

LEMMA LeastNat ==
  ASSUME NEW T, T \subseteq Nat, T # {}
  PROVE  \E x \in T : \A y \in T : x <= y
<1>1. IsWellFoundedOn(Less, Nat)
  <2>1. IsWellFoundedOn(OpToRel(<, Nat), Nat)
    BY NatLessThanWellFounded
  <2>2. OpToRel(<, Nat) = Less
    BY DEF OpToRel, Less
  <2> QED BY <2>1, <2>2
<1>2. PICK x \in T : \A y \in T : ~(<<y, x>> \in Less)
  BY <1>1, WFMin
<1>3. ASSUME NEW y \in T  PROVE x <= y
  <2>1. x \in Nat /\ y \in Nat
    BY <1>2, <1>3
  <2>2. ~(<<y, x>> \in Less)
    BY <1>2, <1>3
  <2> QED BY <2>1, <2>2 DEF Less
<1> QED BY <1>2, <1>3

\* A note takes a voice in use only if all are, and then none is older.
LEMMA TargetRight ==
  ASSUME NEW vs \in [Voices -> VoiceRecord]
  PROVE  /\ Target(vs) \in Voices
         /\ vs[Target(vs)].active =>
              \A v \in Voices :
                vs[v].active /\ vs[Target(vs)].age <= vs[v].age
<1>1. CASE \E v \in Voices : ~vs[v].active
  <2> DEFINE Free == {v \in Voices : ~vs[v].active}
             First(v) == ~vs[v].active /\ \A w \in 1..(v - 1) : vs[w].active
  <2>1. Free \subseteq Nat /\ Free # {}
    BY <1>1, EngineAssumption DEF Voices
  <2>2. PICK x \in Free : \A y \in Free : x <= y
    BY <2>1, LeastNat
  <2>3. ASSUME NEW w \in 1..(x - 1)  PROVE vs[w].active
    <3>1. w \in Voices /\ ~(x <= w)
      BY <2>3, EngineAssumption DEF Voices
    <3> QED BY <3>1, <2>2
  <2>4. x \in Voices /\ First(x)
    BY <2>2, <2>3
  <2>5. Target(vs) = CHOOSE v \in Voices : First(v)
    BY <1>1 DEF Target
  <2>6. Target(vs) \in Voices /\ First(Target(vs))
    BY <2>4, <2>5
  <2> QED BY <2>6
<1>2. CASE \A v \in Voices : vs[v].active
  <2> DEFINE Ages == {vs[v].age : v \in Voices}
             Oldest(v) == \A w \in Voices : vs[v].age <= vs[w].age
  <2>1. Ages \subseteq Nat /\ Ages # {}
    <3>1. 1 \in Voices
      BY EngineAssumption DEF Voices
    <3> QED BY <3>1 DEF VoiceRecord
  <2>2. PICK a \in Ages : \A b \in Ages : a <= b
    BY <2>1, LeastNat
  <2>3. PICK x \in Voices : vs[x].age = a
    BY <2>2
  <2>4. Oldest(x)
    BY <2>2, <2>3
  <2>5. Target(vs) = CHOOSE v \in Voices : Oldest(v)
    BY <1>2 DEF Target
  <2>6. Target(vs) \in Voices /\ Oldest(Target(vs))
    BY <2>3, <2>4, <2>5
  <2> QED BY <1>2, <2>6
<1> QED BY <1>1, <1>2

\* A note that was sounding and neither sounds nor waits to be announced
\* after an event has lost its voice to a new note, all others being in use
\* and sounding notes that are younger.
LEMMA StolenByHandle ==
  ASSUME NEW vs, NEW c \in Nat, NEW e \in Event, Table(vs, c),
         NEW n \in Nat, Sounding(vs, n),
         ~Sounding(HandleEvent(vs, e, c), n), ~Pending(HandleEvent(vs, e, c), n)
  PROVE  /\ \A v \in Voices : HandleEvent(vs, e, c)[v].active
         /\ \A m \in 0..(n - 1) : ~Sounding(HandleEvent(vs, e, c), m)
<1> DEFINE ws == HandleEvent(vs, e, c)
           t == Target(vs)
<1>1. PICK x \in Voices : vs[x].active /\ vs[x].age = n
  BY DEF Sounding
<1>2. Starts(e)
  <2> SUFFICES ASSUME ~Starts(e) PROVE FALSE
    OBVIOUS
  <2>1. ws = NoteOff(vs, e) \/ ws = Choke(vs, e)
    BY DEF HandleEvent
  <2>2. Keeps(vs, ws)
    BY <2>1, OffTable
  <2>3. Live(ws, x) /\ ws[x].age = n
    BY <2>2, <1>1 DEF Keeps, Live
  <2> QED BY <2>3 DEF Live, Sounding, Pending
<1>3. ws = NoteOn(vs, e, c)
  BY <1>2 DEF HandleEvent
<1>4. vs \in [Voices -> VoiceRecord]
  BY DEF Table
<1>5. ASSUME NEW v \in Voices
      PROVE  IF v = t THEN ws[v].active /\ ws[v].age = c ELSE ws[v] = vs[v]
  BY <1>3, <1>4 DEF NoteOn
<1> HIDE DEF ws
<1>6. x = t
  <2> SUFFICES ASSUME x # t PROVE FALSE
    OBVIOUS
  <2>1. ws[x] = vs[x]
    BY <1>5
  <2> QED BY <2>1, <1>1 DEF ws, Sounding
<1>7. \A v \in Voices : vs[v].active /\ n <= vs[v].age
  BY <1>1, <1>4, <1>6, TargetRight
<1>8. \A v \in Voices : ws[v].active
  BY <1>5, <1>7
<1>9. n < c
  BY <1>1 DEF Table, Live
<1>10. ASSUME NEW m \in 0..(n - 1), NEW v \in Voices  PROVE ws[v].age # m
  <2>1. CASE v = t
    BY <2>1, <1>5, <1>9
  <2>2. CASE v # t
    <3>1. ws[v].age = vs[v].age /\ vs[v].age \in Nat
      BY <2>2, <1>4, <1>5 DEF VoiceRecord
    <3> QED BY <3>1, <1>7
  <2> QED BY <2>1, <2>2
<1>11. \A m \in 0..(n - 1) : ~Sounding(ws, m)
  BY <1>10 DEF Sounding
<1> QED BY <1>8, <1>11 DEF ws

\* Rendering steals nothing.
LEMMA RenderStealsNone ==
  ASSUME NEW vs, NEW c \in Nat, NEW k \in Int, Table(vs, c), NEW n,
         Sounding(vs, n)
  PROVE  Sounding(Render(vs, k), n) \/ Pending(Render(vs, k), n)
<1>1. PICK x \in Voices : vs[x].active /\ vs[x].age = n
  BY DEF Sounding
<1>2. Keeps(vs, Render(vs, k))
  BY RenderTable
<1> QED BY <1>1, <1>2 DEF Keeps, Live, Sounding, Pending

Stealing(n) ==
  fate[n] = "sounding" /\ fate'[n] = "stolen" =>
    /\ \A v \in Voices : voices'[v].active
    /\ \A m \in 0..(n - 1) : fate'[m] # "sounding"

LEMMA StealStep ==
  ASSUME ChainInv, [Next]_vars, NEW n \in Notes
  PROVE  Stealing(n)
<1> SUFFICES ASSUME fate[n] = "sounding", fate'[n] = "stolen"
             PROVE  /\ \A v \in Voices : voices'[v].active
                    /\ \A m \in 0..(n - 1) : fate'[m] # "sounding"
  BY DEF Stealing
<1>1. /\ Table(voices, clock) /\ Agrees(fate, voices) /\ clock \in Nat
      /\ n \in Nat /\ 0..(n - 1) \subseteq Notes
      /\ Sounding(voices, n)
  BY ChainAssumption DEF ChainInv, NotesOK, Agrees, Notes
<1>2. ChainInv'
  BY ChainStep
<1>3. CASE UNCHANGED fate
  BY <1>3
<1>4. CASE EngineReset
  BY <1>4 DEF EngineReset
<1>5. CASE SynthEnd
  <2> DEFINE rest == Render(voices, frames - cursor)
             f == FateAfter(fate[n], rest, n)
  <2>1. fate'[n] = IF \E v \in Announced(rest) : rest[v].age = n
                   THEN FateAnnounced(f) ELSE f
    BY <1>5 DEF SynthEnd
  <2>2. Sounding(rest, n) \/ Pending(rest, n)
    BY <1>1, RenderStealsNone DEF ChainInv, ListOK
  <2>3. f \in {"sounding", "ended"}
    BY <2>2 DEF FateAfter
  <2>4. FateAnnounced(f) \in {"announced", "wrong"}
    BY DEF FateAnnounced
  <2> HIDE DEF f
  <2> QED BY <2>1, <2>3, <2>4
<1>6. CASE SynthEvent
  <2> DEFINE e == wire[pos + 1]
             k == ChunkBefore(e)
             rest == Render(voices, k)
             next == HandleEvent(rest, e, clock)
             mid == [m \in Notes |-> FateAfter(fate[m], rest, m)]
  <2>1. e \in Event
    BY <1>6 DEF SynthEvent, ChainInv, ListOK
  <2>2. k \in Int
    <3>1. e.time \in Nat
      BY <2>1, EventFacts
    <3> QED BY <3>1 DEF ChunkBefore, ChainInv, ListOK
  <2>3. voices' = next /\ fate'[n] = FateAfter(mid[n], next, n)
    BY <1>6 DEF SynthEvent
  <2> HIDE DEF e, k, rest, next, mid
  <2>4. Table(rest, clock) /\ (Sounding(rest, n) \/ Pending(rest, n))
    BY <1>1, <2>2, RenderTable, RenderStealsNone DEF rest
  <2>5. mid[n] \in {"sounding", "ended"}
        /\ (mid[n] = "sounding" <=> Sounding(rest, n))
    BY <2>4 DEF mid, FateAfter
  <2>6. ~Sounding(next, n) /\ ~Pending(next, n) /\ mid[n] = "sounding"
    BY <2>3, <2>5 DEF FateAfter
  <2>7. Sounding(rest, n)
    BY <2>5, <2>6
  <2>8. /\ \A v \in Voices : next[v].active
        /\ \A m \in 0..(n - 1) : ~Sounding(next, m)
    BY <1>1, <2>1, <2>4, <2>6, <2>7, StolenByHandle DEF next
  <2>9. \A m \in Notes : fate'[m] = "sounding" <=> Sounding(voices', m)
    BY <1>2 DEF ChainInv, NotesOK, Agrees
  <2> QED BY <1>1, <2>3, <2>8, <2>9
<1>7. Next => UNCHANGED fate \/ EngineReset \/ SynthEnd \/ SynthEvent
  BY DEF Next, BlockStart, FxNote, FxParam, StateLoad, ParamsFlush,
         SetTranspose, SynthStart, ledger
<1>8. UNCHANGED vars => UNCHANGED fate
  BY DEF vars, ledger
<1> QED BY <1>3, <1>4, <1>5, <1>6, <1>7, <1>8

\* Stealing takes the oldest note, and only when every voice sounds, for any
\* number of voices.
THEOREM OldestIsStolen == Spec => StealsOldest
<1>1. ChainInv /\ [Next]_vars => \A n \in Notes : Stealing(n)
  BY StealStep
<1>2. Spec => [][\A n \in Notes : Stealing(n)]_vars
  BY <1>1, ChainCorrect, PTL DEF Spec
<1> QED BY <1>2 DEF StealsOldest, Stealing
-----------------------------------------------------------------------------
(* The numbers of the notes stay below MaxNotes, and the status agrees     *)
(* with the table.                                                         *)

\* The note-ons of the block that are still to be handled.
OnWire == {i \in (pos + 1)..Len(wire) : Starts(wire[i])}

StatusOK ==
  phase # "synth" /\ status # "none" =>
    (status = "sleep" <=> ~AnyVoiceActive(voices))

RoomInv == StatusOK /\ Sent <= MaxNotes

LEMMA OnWireFinite ==
  ASSUME ChainInv
  PROVE  /\ IsFiniteSet(OnWire) /\ Cardinality(OnWire) \in Nat
         /\ Sent = clock + Cardinality(OnWire)
         /\ Sent \in Nat /\ clock <= Sent
<1>1. IsFiniteSet((pos + 1)..Len(wire))
  BY FS_Interval DEF ChainInv, ListOK
<1>2. OnWire \in SUBSET ((pos + 1)..Len(wire))
  BY DEF OnWire
<1>3. IsFiniteSet(OnWire) /\ Cardinality(OnWire) \in Nat
  BY <1>1, <1>2, FS_Subset, FS_CardinalityType
<1>4. Sent = clock + Cardinality(OnWire)
  BY DEF Sent, OnWire
<1> QED BY <1>3, <1>4 DEF ChainInv, NotesOK

LEMMA RoomInit == Init => RoomInv
<1> SUFFICES ASSUME Init PROVE RoomInv
  OBVIOUS
<1>1. OnWire = {} /\ Sent = 0 + Cardinality(OnWire)
  BY DEF Init, OnWire, Sent
<1>2. Sent = 0
  BY <1>1, FS_EmptySet
<1> QED BY <1>2, ChainAssumption DEF Init, RoomInv, StatusOK

LEMMA FxNoteRoom ==
  ASSUME ChainInv, RoomInv, NEW e \in Timed, FxNote(e)
  PROVE  RoomInv'
<1>1. /\ wire' = Append(wire, Transposed(e, transpose))
      /\ UNCHANGED <<voices, clock, phase, pos, status>>
      /\ Starts(e) => Sent < MaxNotes
      /\ pos = 0
  BY DEF FxNote, engine, ChainInv, LoopOK
<1>2. Starts(Transposed(e, transpose)) <=> Starts(e)
  <2>1. e \in [kind : {"on", "midiOn", "off", "midiOff", "choke"},
               key : -1..MaxKey, id : Int, time : Nat]
    BY ChainAssumption DEF Timed
  <2>2. Transposed(e, transpose).kind = e.kind
    BY <2>1 DEF Transposed
  <2> QED BY <2>2 DEF Starts
<1>3. /\ wire \in Seq(Event) /\ Len(wire) \in Nat
      /\ Len(wire') = Len(wire) + 1
      /\ wire'[Len(wire) + 1] = Transposed(e, transpose)
      /\ \A i \in 1..Len(wire) : wire'[i] = wire[i]
  BY <1>1, TransposedEvent DEF ChainInv, ListOK
<1>4. OnWire' = IF Starts(e) THEN OnWire \cup {Len(wire) + 1} ELSE OnWire
  BY <1>1, <1>2, <1>3 DEF OnWire
<1>5. Len(wire) + 1 \notin OnWire
  BY <1>3 DEF OnWire
<1>6. Sent' = clock + Cardinality(OnWire')
  BY <1>1 DEF Sent, OnWire
<1>7. /\ IsFiniteSet(OnWire) /\ Cardinality(OnWire) \in Nat
      /\ Sent = clock + Cardinality(OnWire)
  BY OnWireFinite
<1>8. CASE Starts(e)
  <2>1. Cardinality(OnWire') = Cardinality(OnWire) + 1
    BY <1>4, <1>5, <1>7, <1>8, FS_AddElement
  <2>2. Sent' <= MaxNotes
    BY <2>1, <1>1, <1>6, <1>7, <1>8, ChainAssumption DEF ChainInv, NotesOK
  <2> QED BY <2>2, <1>1 DEF RoomInv, StatusOK, AnyVoiceActive
<1>9. CASE ~Starts(e)
  BY <1>1, <1>4, <1>6, <1>7, <1>9 DEF RoomInv, StatusOK, AnyVoiceActive
<1> QED BY <1>8, <1>9

LEMMA SynthEventRoom ==
  ASSUME ChainInv, RoomInv, SynthEvent
  PROVE  RoomInv'
<1> DEFINE e == wire[pos + 1]
<1>1. /\ phase = "synth" /\ pos < Len(wire) /\ pos' = pos + 1
      /\ UNCHANGED <<phase, wire, status>>
      /\ clock' = IF Starts(e) THEN clock + 1 ELSE clock
  BY DEF SynthEvent
<1>2. pos \in Nat /\ Len(wire) \in Nat /\ clock \in Nat
  BY DEF ChainInv, ListOK, NotesOK
<1>3. OnWire' = OnWire \ {pos + 1} /\ (Starts(e) <=> pos + 1 \in OnWire)
  BY <1>1, <1>2 DEF OnWire
<1>4. Sent' = clock' + Cardinality(OnWire')
  BY DEF Sent, OnWire
<1>5. /\ IsFiniteSet(OnWire) /\ Cardinality(OnWire) \in Nat
      /\ Sent = clock + Cardinality(OnWire)
  BY OnWireFinite
<1>6. Cardinality(OnWire') =
        IF Starts(e) THEN Cardinality(OnWire) - 1 ELSE Cardinality(OnWire)
  BY <1>3, <1>5, FS_RemoveElement
<1>7. Sent' = Sent
  BY <1>1, <1>2, <1>4, <1>5, <1>6
<1> QED BY <1>1, <1>7 DEF RoomInv, StatusOK

LEMMA SynthEndRoom ==
  ASSUME ChainInv, RoomInv, SynthEnd
  PROVE  RoomInv'
<1> DEFINE rest == Render(voices, frames - cursor)
<1>1. /\ voices' = EmitNoteEnds(rest)
      /\ status' = IF AnyVoiceActive(rest) THEN "continue" ELSE "sleep"
      /\ wire' = <<>> /\ pos' = 0 /\ clock' = clock
  BY DEF SynthEnd
<1>2. Table(rest, clock)
  BY RenderTable DEF ChainInv, ListOK, NotesOK
<1> HIDE DEF rest
<1>3. AnyVoiceActive(voices') <=> AnyVoiceActive(rest)
  <2>1. ASSUME NEW v \in Voices
        PROVE  EmitNoteEnds(rest)[v].active <=> rest[v].active
    BY <1>2 DEF Table, EmitNoteEnds, NoVoice, VoiceRecord
  <2> QED BY <1>1, <2>1 DEF AnyVoiceActive
<1>4. OnWire' = {} /\ Sent' = clock + Cardinality(OnWire')
  BY <1>1 DEF OnWire, Sent
<1>5. Sent' <= MaxNotes
  BY <1>4, FS_EmptySet, OnWireFinite, ChainAssumption
     DEF RoomInv, ChainInv, NotesOK
<1> QED BY <1>1, <1>3, <1>5 DEF RoomInv, StatusOK

LEMMA EngineResetRoom ==
  ASSUME ChainInv, RoomInv, EngineReset
  PROVE  RoomInv'
<1>1. clock' = 0 /\ status' = "none" /\ UNCHANGED <<wire, pos>>
  BY DEF EngineReset
<1>2. OnWire' = OnWire /\ Sent' = 0 + Cardinality(OnWire')
  BY <1>1 DEF OnWire, Sent
<1>3. Sent' <= Sent
  BY <1>2, OnWireFinite DEF ChainInv, NotesOK
<1>4. Sent' \in Nat
  BY <1>2, OnWireFinite
<1> QED BY <1>1, <1>3, <1>4, OnWireFinite, ChainAssumption
        DEF RoomInv, StatusOK

\* The other steps leave table, status and wire as they are.
LEMMA OtherRoom ==
  ASSUME RoomInv, UNCHANGED <<voices, clock, wire, pos, status>>,
         phase = "synth" => phase' = "synth"
  PROVE  RoomInv'
<1>1. Sent' = Sent
  BY DEF Sent
<1>2. AnyVoiceActive(voices)' <=> AnyVoiceActive(voices)
  BY DEF AnyVoiceActive
<1> QED BY <1>1, <1>2 DEF RoomInv, StatusOK

LEMMA RoomStep == ChainInv /\ RoomInv /\ [Next]_vars => RoomInv'
<1> SUFFICES ASSUME ChainInv, RoomInv, [Next]_vars PROVE RoomInv'
  OBVIOUS
<1>1. ASSUME NEW e \in Timed, FxNote(e)  PROVE RoomInv'
  BY <1>1, FxNoteRoom
<1>2. CASE SynthEvent
  BY <1>2, SynthEventRoom
<1>3. CASE SynthEnd
  BY <1>3, SynthEndRoom
<1>4. CASE EngineReset
  BY <1>4, EngineResetRoom
<1>5. ASSUME NEW f \in FrameCounts, BlockStart(f)  PROVE RoomInv'
  BY <1>5, OtherRoom DEF BlockStart, engine
<1>6. ASSUME NEW t \in Transposes, SetTranspose(t)  PROVE RoomInv'
  BY <1>6, OtherRoom DEF SetTranspose, engine, block
<1>7. CASE SynthStart
  BY <1>7, OtherRoom DEF SynthStart, engine
<1>8. CASE UNCHANGED vars
  BY <1>8, OtherRoom DEF vars, engine, block
<1> QED
  BY <1>1, <1>2, <1>3, <1>4, <1>5, <1>6, <1>7, <1>8
     DEF Next, FxParam, StateLoad, ParamsFlush

\* SLEEP is returned exactly when nothing sounds and nothing is left to be
\* announced, for any number of voices and notes.
THEOREM SleepIsRight == Spec => []SleepIsSilent
<1>1. ChainInv /\ RoomInv => SleepIsSilent
  <2> SUFFICES ASSUME ChainInv, RoomInv, phase = "idle", status # "none"
               PROVE  status = "sleep" <=>
                        \A n \in Notes : fate[n] \notin {"sounding", "ended"}
    BY DEF SleepIsSilent
  <2>1. \A n \in Notes :
          fate[n] # "ended" /\ (fate[n] = "sounding" <=> Sounding(voices, n))
    BY DEF ChainInv, NotesOK, Agrees
  <2>2. ASSUME NEW v \in Voices, voices[v].active
        PROVE  voices[v].age \in Notes
    <3>1. voices[v].age \in Nat /\ voices[v].age < clock
      BY <2>2 DEF ChainInv, NotesOK, Table, Live, VoiceRecord
    <3>2. clock <= MaxNotes
      BY OnWireFinite, ChainAssumption DEF RoomInv, ChainInv, NotesOK
    <3> QED BY <3>1, <3>2, ChainAssumption DEF Notes, ChainInv, NotesOK
  <2>3. AnyVoiceActive(voices) <=> \E n \in Notes : Sounding(voices, n)
    BY <2>2 DEF AnyVoiceActive, Sounding
  <2>4. status = "sleep" <=> ~AnyVoiceActive(voices)
    BY DEF RoomInv, StatusOK
  <2> QED BY <2>1, <2>3, <2>4
<1> QED BY <1>1, ChainCorrect, RoomInit, RoomStep, PTL DEF Spec
-----------------------------------------------------------------------------
(* The ranges of the variables.                                            *)

\* A note that starts has a key, however it was transposed.
StartsKeyed == \A i \in DOMAIN wire : Starts(wire[i]) => wire[i].key \in 0..MaxKey

TypeInv == TypeOK /\ StartsKeyed

\* The operations on the table keep to the records of Voice.
LEMMA RenderType ==
  ASSUME NEW vs \in [Voices -> Voice], NEW n \in Nat
  PROVE  Render(vs, n) \in [Voices -> Voice]
<1> DEFINE ws == Render(vs, n)
<1>1. ASSUME NEW v \in Voices  PROVE ws[v] \in Voice
  <2>1. vs[v] \in Voice
    OBVIOUS
  <2>2. CASE ~vs[v].active \/ ~vs[v].releasing
    BY <2>1, <2>2 DEF Render
  <2>3. CASE vs[v].active /\ vs[v].releasing /\ vs[v].left > n
    <3>1. ws[v] = [vs[v] EXCEPT !.left = @ - n]
      BY <2>3 DEF Render
    <3>2. vs[v].left - n \in 0..ReleaseLen
      BY <2>1, <2>3, EngineAssumption DEF Voice
    <3> QED BY <2>1, <3>1, <3>2 DEF Voice
  <2>4. CASE vs[v].active /\ vs[v].releasing /\ ~(vs[v].left > n)
    <3>1. ws[v] = [vs[v] EXCEPT !.left = 0, !.active = FALSE, !.justEnded = TRUE]
      BY <2>4 DEF Render
    <3>2. [vs[v] EXCEPT !.left = 0] \in Voice
      BY <2>1, EngineAssumption DEF Voice
    <3>3. \A r \in Voice :
            [r EXCEPT !.active = FALSE, !.justEnded = TRUE] \in Voice
      BY DEF Voice
    <3> QED BY <2>1, <3>1, <3>2, <3>3
  <2> QED BY <2>2, <2>3, <2>4
<1> QED BY <1>1 DEF Render

LEMMA HandleType ==
  ASSUME NEW vs \in [Voices -> Voice], NEW c \in Notes, NEW e \in Event,
         Starts(e) => e.key \in 0..MaxKey
  PROVE  HandleEvent(vs, e, c) \in [Voices -> Voice]
<1> DEFINE new == [active |-> TRUE, releasing |-> FALSE, justEnded |-> FALSE,
                   key |-> e.key, noteId |-> e.id, age |-> c,
                   left |-> ReleaseLen]
<1>1. CASE Starts(e)
  <2>1. ReleaseLen \in 0..ReleaseLen /\ e.id \in {o.id : o \in Offered}
    BY EngineAssumption DEF Event
  <2>2. new \in Voice
    BY <1>1, <2>1 DEF Voice
  <2>3. HandleEvent(vs, e, c) = [vs EXCEPT ![Target(vs)] = new]
    BY <1>1 DEF HandleEvent, NoteOn
  <2> HIDE DEF new
  <2> QED BY <2>2, <2>3
<1>2. CASE ~Starts(e)
  <2>1. NoteOff(vs, e) \in [Voices -> Voice]
    BY DEF NoteOff, Voice
  <2>2. Choke(vs, e) \in [Voices -> Voice]
    BY DEF Choke, Voice
  <2> QED BY <1>2, <2>1, <2>2 DEF HandleEvent
<1> QED BY <1>1, <1>2

LEMMA NoVoiceType == NoVoice \in Voice
  BY EngineAssumption, KeyAssumption, ChainAssumption
     DEF NoVoice, Voice, Notes, Wildcard

LEMMA EmitType ==
  ASSUME NEW vs \in [Voices -> Voice]
  PROVE  EmitNoteEnds(vs) \in [Voices -> Voice]
  BY NoVoiceType DEF EmitNoteEnds

LEMMA TypeInit == Init => TypeInv
<1> SUFFICES ASSUME Init PROVE TypeInv
  OBVIOUS
<1>1. voices \in [Voices -> Voice]
  BY NoVoiceType DEF Init, NoVoices
<1>2. fate \in [Notes -> Fates] /\ held \subseteq Held
  BY DEF Init, Fates
<1>3. moved \in BOOLEAN
  BY DEF Init
<1>4. wire \in Seq(Event) /\ Len(wire) = 0 /\ clock \in 0..MaxNotes
  BY ChainAssumption DEF Init
<1>5. TypeOK
  BY <1>1, <1>2, <1>3, <1>4, ChainAssumption DEF Init, TypeOK
<1> QED BY <1>5 DEF Init, TypeInv, StartsKeyed

\* What the host holds is made of numbers, keys and ids.
LEMMA HeldType ==
  ASSUME ChainInv, TypeOK, NEW e \in Timed,
         Starts(e) => Sent < MaxNotes
  PROVE  HeldAfter(e) \subseteq Held
<1>1. PICK o \in Offered, u \in Times :
        e = [kind |-> o.kind, key |-> o.key, id |-> o.id, time |-> u]
  BY DEF Timed
<1>2. CASE Starts(e)
  <2>1. e.key \in 0..MaxKey /\ e.id \in {x.id : x \in Offered}
    BY <1>1, <1>2, ChainAssumption, KeyAssumption DEF Starts, Wildcard
  <2>2. Sent \in Notes
    BY <1>2, OnWireFinite, ChainAssumption DEF Notes
  <2>3. [note |-> Sent, key |-> e.key, id |-> e.id] \in Held
    BY <2>1, <2>2 DEF Held
  <2> QED BY <1>2, <2>3 DEF HeldAfter, TypeOK
<1>3. CASE ~Starts(e)
  BY <1>3 DEF HeldAfter, TypeOK
<1> QED BY <1>2, <1>3

LEMMA FxNoteType ==
  ASSUME ChainInv, TypeInv, NEW e \in Timed, FxNote(e)
  PROVE  TypeInv'
<1> DEFINE x == Transposed(e, transpose)
<1>1. /\ wire' = Append(wire, x) /\ Len(wire) < MaxEvents
      /\ held' = HeldAfter(e)
      /\ Starts(e) => Sent < MaxNotes
      /\ UNCHANGED <<transpose, voices, clock, phase, frames, pos, cursor,
                     reported, status, fate, moved>>
  BY DEF FxNote, engine
<1>2. x \in Event /\ transpose \in Int
  BY TransposedEvent DEF ChainInv, ListOK
<1>3. Starts(x) => x.key \in 0..MaxKey
  <2>1. PICK o \in Offered, u \in Times :
          e = [kind |-> o.kind, key |-> o.key, id |-> o.id, time |-> u]
    BY DEF Timed
  <2>2. x.kind = e.kind
        /\ x.key = IF e.key = AnyKey THEN AnyKey ELSE ClampKey(e.key + transpose)
    BY <2>1 DEF Transposed
  <2>3. Starts(e) => e.key # AnyKey /\ e.key \in Int
    BY <2>1, ChainAssumption, KeyAssumption DEF Starts, Wildcard, AnyKey
  <2>4. \A k \in Int : ClampKey(k) \in 0..MaxKey
    BY KeyAssumption DEF ClampKey
  <2> QED BY <2>2, <2>3, <2>4, <1>2 DEF Starts
<1> HIDE DEF x
<1>4. /\ wire' \in Seq(Event) /\ Len(wire) \in Nat
      /\ Len(wire') = Len(wire) + 1
      /\ wire'[Len(wire) + 1] = x
      /\ \A i \in 1..Len(wire) : wire'[i] = wire[i]
  BY <1>1, <1>2 DEF TypeInv, TypeOK
<1>5. StartsKeyed'
  <2> SUFFICES ASSUME NEW i \in 1..(Len(wire) + 1), Starts(wire'[i])
               PROVE  wire'[i].key \in 0..MaxKey
    BY <1>4 DEF StartsKeyed
  <2>1. CASE i = Len(wire) + 1
    BY <2>1, <1>3, <1>4
  <2>2. CASE i # Len(wire) + 1
    <3>1. i \in DOMAIN wire /\ wire'[i] = wire[i]
      BY <2>2, <1>4 DEF TypeInv, TypeOK
    <3> QED BY <3>1 DEF TypeInv, StartsKeyed
  <2> QED BY <2>1, <2>2
<1>6. held' \subseteq Held
  BY <1>1, HeldType DEF TypeInv
<1>7. Len(wire') <= MaxEvents /\ pos' \in 0..Len(wire')
  BY <1>1, <1>4, ChainAssumption DEF TypeInv, TypeOK
<1>8. TypeOK'
  BY <1>1, <1>4, <1>6, <1>7 DEF TypeInv, TypeOK
<1> QED BY <1>5, <1>8 DEF TypeInv

LEMMA SynthEventType ==
  ASSUME ChainInv, ChainInv', RoomInv, TypeInv, SynthEvent
  PROVE  TypeInv'
<1> DEFINE e == wire[pos + 1]
           n == ChunkBefore(e)
           rest == Render(voices, n)
<1>1. /\ voices' = HandleEvent(rest, e, clock)
      /\ clock' = IF Starts(e) THEN clock + 1 ELSE clock
      /\ pos' = pos + 1 /\ pos < Len(wire)
      /\ UNCHANGED <<transpose, phase, frames, wire, reported, status, held,
                     moved>>
  BY DEF SynthEvent
<1>2. /\ pos \in Nat /\ Len(wire) \in Nat /\ clock \in Nat
      /\ pos + 1 \in DOMAIN wire /\ e \in Event
  BY <1>1 DEF ChainInv, ListOK, NotesOK
<1>3. n \in Nat
  BY <1>2, EventFacts DEF ChunkBefore, ChainInv, ListOK
<1>4. rest \in [Voices -> Voice]
  BY <1>3, RenderType DEF TypeInv, TypeOK
<1>5. Starts(e) => e.key \in 0..MaxKey
  BY <1>2 DEF TypeInv, StartsKeyed
<1> HIDE DEF n, rest
<1>6. Starts(e) => clock < MaxNotes
  <2> SUFFICES ASSUME Starts(e) PROVE clock < MaxNotes
    OBVIOUS
  <2>1. pos + 1 \in OnWire
    BY <1>1, <1>2 DEF OnWire
  <2>2. Cardinality(OnWire) # 0
    BY <2>1, OnWireFinite, FS_EmptySet
  <2> QED BY <2>2, <1>2, OnWireFinite, ChainAssumption DEF RoomInv
<1>7. clock' \in 0..MaxNotes
  BY <1>1, <1>2, <1>6, ChainAssumption DEF TypeInv, TypeOK
<1>8. voices' \in [Voices -> Voice]
  <2>1. CASE Starts(e)
    <3>1. clock \in Notes
      BY <2>1, <1>2, <1>6, ChainAssumption DEF Notes
    <3> QED BY <3>1, <1>1, <1>2, <1>4, <1>5, HandleType
  <2>2. CASE ~Starts(e)
    <3>1. HandleEvent(rest, e, clock) = HandleEvent(rest, e, 0)
      BY <2>2 DEF HandleEvent
    <3>2. 0 \in Notes
      BY ChainAssumption DEF Notes
    <3> QED BY <3>1, <3>2, <1>1, <1>2, <1>4, <1>5, HandleType
  <2> QED BY <2>1, <2>2
<1>9. pos' \in 0..Len(wire) /\ cursor' \in Nat /\ fate' \in [Notes -> Fates]
  BY <1>1, <1>2 DEF ChainInv, ListOK, NotesOK, Agrees
<1>10. TypeOK'
  BY <1>1, <1>7, <1>8, <1>9 DEF TypeInv, TypeOK
<1>11. StartsKeyed'
  BY <1>1 DEF TypeInv, StartsKeyed
<1> QED BY <1>10, <1>11 DEF TypeInv

LEMMA SynthEndType ==
  ASSUME ChainInv, ChainInv', TypeInv, SynthEnd
  PROVE  TypeInv'
<1> DEFINE rest == Render(voices, frames - cursor)
<1>1. /\ voices' = EmitNoteEnds(rest)
      /\ status' \in {"continue", "sleep"}
      /\ phase' = "idle" /\ frames' = 0 /\ wire' = <<>> /\ pos' = 0
      /\ cursor' = 0 /\ reported' = {}
      /\ UNCHANGED <<transpose, clock, held, moved>>
  BY DEF SynthEnd
<1>2. frames - cursor \in Nat
  BY DEF ChainInv, ListOK, LoopOK
<1>3. rest \in [Voices -> Voice]
  BY <1>2, RenderType DEF TypeInv, TypeOK
<1> HIDE DEF rest
<1>4. voices' \in [Voices -> Voice] /\ fate' \in [Notes -> Fates]
  BY <1>1, <1>3, EmitType DEF ChainInv, NotesOK, Agrees
<1>5. TypeOK'
  BY <1>1, <1>4, ChainAssumption DEF TypeInv, TypeOK
<1>6. StartsKeyed'
  BY <1>1 DEF StartsKeyed
<1> QED BY <1>5, <1>6 DEF TypeInv

LEMMA EngineResetType ==
  ASSUME TypeInv, EngineReset
  PROVE  TypeInv'
<1>1. voices' \in [Voices -> Voice] /\ fate' \in [Notes -> Fates]
  BY NoVoiceType DEF EngineReset, NoVoices, Fates
<1>2. moved' \in BOOLEAN
  BY DEF EngineReset
<1>3. clock' \in 0..MaxNotes
  BY ChainAssumption DEF EngineReset
<1>4. TypeOK'
  BY <1>1, <1>2, <1>3 DEF EngineReset, TypeInv, TypeOK
<1>5. StartsKeyed'
  BY DEF EngineReset, TypeInv, StartsKeyed
<1> QED BY <1>4, <1>5 DEF TypeInv

LEMMA TypeStep ==
  ChainInv /\ ChainInv' /\ RoomInv /\ TypeInv /\ [Next]_vars => TypeInv'
<1> SUFFICES ASSUME ChainInv, ChainInv', RoomInv, TypeInv, [Next]_vars
             PROVE  TypeInv'
  OBVIOUS
<1>1. ASSUME NEW e \in Timed, FxNote(e)  PROVE TypeInv'
  BY <1>1, FxNoteType
<1>2. CASE SynthEvent
  BY <1>2, SynthEventType
<1>3. CASE SynthEnd
  BY <1>3, SynthEndType
<1>4. CASE EngineReset
  BY <1>4, EngineResetType
<1>5. ASSUME NEW f \in FrameCounts, BlockStart(f)  PROVE TypeInv'
  BY <1>5 DEF BlockStart, engine, ledger, TypeInv, TypeOK, StartsKeyed
<1>6. ASSUME NEW t \in Transposes, SetTranspose(t)  PROVE TypeInv'
  BY <1>6 DEF SetTranspose, engine, block, TypeInv, TypeOK, StartsKeyed
<1>7. CASE SynthStart
  BY <1>7 DEF SynthStart, engine, ledger, EventReports, TypeInv, TypeOK,
              StartsKeyed
<1>8. CASE UNCHANGED vars
  BY <1>8 DEF vars, engine, block, ledger, TypeInv, TypeOK, StartsKeyed
<1> QED
  BY <1>1, <1>2, <1>3, <1>4, <1>5, <1>6, <1>7, <1>8
     DEF Next, FxParam, StateLoad, ParamsFlush

\* Type correctness, for any voices, keys, notes, times and bounds.
THEOREM TypeCorrect == Spec => []TypeOK
<1>1. TypeInv => TypeOK
  BY DEF TypeInv
<1> QED
  BY <1>1, ChainInit, ChainStep, RoomInit, RoomStep, TypeInit, TypeStep, PTL
     DEF Spec
-----------------------------------------------------------------------------
(* No note hangs.                                                          *)

\* The event, on its way to the synth, takes back a note of this key and id.
TakesBack(e, key, id) ==
  /\ ~Starts(e)
  /\ e.key # Wildcard => key = e.key
  /\ e.id # Wildcard => id = e.id

\* Of the notes the host holds, one of this number sounds at this key.
HeldFor(notes, t, n, key, id) ==
  \E h \in notes : h.note = n /\ key = ClampKey(h.key + t) /\ id = h.id

\* The note-ons between two positions of the list.
Ons(list, from, to) == {j \in from..to : Starts(list[j])}

\* The number the note-on at position i will be given.
Number(i) == clock + Cardinality(Ons(wire, pos + 1, i - 1))

\* A note that sounds is held, or its end is on the wire.
VoicesMeet ==
  \A v \in Voices :
    voices[v].active /\ ~voices[v].releasing =>
      \/ HeldFor(held, transpose, voices[v].age, voices[v].key, voices[v].noteId)
      \/ \E i \in (pos + 1)..Len(wire) :
           TakesBack(wire[i], voices[v].key, voices[v].noteId)

\* So is a note on the wire, or its end follows it there.
OnsMeet ==
  \A i \in (pos + 1)..Len(wire) :
    Starts(wire[i]) =>
      \/ HeldFor(held, transpose, Number(i), wire[i].key, wire[i].id)
      \/ \E j \in (i + 1)..Len(wire) :
           TakesBack(wire[j], wire[i].key, wire[i].id)

HangInv ==
  /\ phase = "idle" => wire = <<>>
  /\ ~moved => VoicesMeet /\ OnsMeet

\* Transposing leaves an event what it does, and keeps wildcards.
LEMMA TransposedFacts ==
  ASSUME NEW e \in Timed, NEW t \in Int
  PROVE  LET x == Transposed(e, t)
         IN  /\ x.id = e.id /\ (Starts(x) <=> Starts(e))
             /\ e.key = Wildcard => x.key = Wildcard
             /\ e.key # Wildcard => x.key = ClampKey(e.key + t)
             /\ Starts(e) => e.key # Wildcard
<1>1. PICK o \in Offered, u \in Times :
        e = [kind |-> o.kind, key |-> o.key, id |-> o.id, time |-> u]
  BY DEF Timed
<1>2. Starts(e) => e.key # Wildcard
  BY <1>1, ChainAssumption DEF Starts
<1> QED BY <1>1, <1>2 DEF Transposed, Starts, AnyKey, Wildcard

LEMMA HangInit == Init => HangInv
<1> SUFFICES ASSUME Init PROVE HangInv
  OBVIOUS
<1>1. VoicesMeet
  BY DEF Init, VoicesMeet, NoVoices, NoVoice
<1>2. wire = <<>> /\ pos = 0 /\ (pos + 1)..Len(wire) = {}
  BY DEF Init
<1>3. OnsMeet
  BY <1>2 DEF OnsMeet
<1> QED BY <1>1, <1>2, <1>3 DEF HangInv

\* What the host takes back it takes back on the wire.
LEMMA FxNoteTakesBack ==
  ASSUME ChainInv, NEW e \in Timed, FxNote(e), ~moved,
         NEW n, NEW key, NEW id, HeldFor(held, transpose, n, key, id)
  PROVE  \/ HeldFor(held', transpose, n, key, id)
         \/ TakesBack(Transposed(e, transpose), key, id)
<1>1. held' = HeldAfter(e) /\ transpose \in Int
  BY DEF FxNote, ChainInv, ListOK
<1>2. PICK h \in held : /\ h.note = n /\ h.id = id
                        /\ key = ClampKey(h.key + transpose)
  BY DEF HeldFor
<1>3. CASE h \in held'
  BY <1>2, <1>3 DEF HeldFor
<1>4. CASE h \notin held'
  <2>1. /\ ~Starts(e)
        /\ ~(e.key # Wildcard /\ h.key # e.key)
        /\ ~(e.id # Wildcard /\ h.id # e.id)
    BY <1>1, <1>2, <1>4 DEF HeldAfter
  <2>2. TakesBack(Transposed(e, transpose), key, id)
    BY <1>1, <1>2, <2>1, TransposedFacts DEF TakesBack
  <2> QED BY <2>2
<1> QED BY <1>3, <1>4

\* A note put on the wire is held, with the number it will be given.
LEMMA FxNoteHolds ==
  ASSUME ChainInv, NEW e \in Timed, FxNote(e), ~moved, Starts(e)
  PROVE  HeldFor(held', transpose, Sent, Transposed(e, transpose).key,
                 Transposed(e, transpose).id)
<1> DEFINE h == [note |-> Sent, key |-> e.key, id |-> e.id]
<1>1. held' = HeldAfter(e) /\ transpose \in Int
  BY DEF FxNote, ChainInv, ListOK
<1>2. h \in held'
  BY <1>1 DEF HeldAfter
<1>3. /\ Transposed(e, transpose).key = ClampKey(e.key + transpose)
      /\ Transposed(e, transpose).id = e.id
  BY <1>1, TransposedFacts
<1>4. h.note = Sent /\ h.key = e.key /\ h.id = e.id
  OBVIOUS
<1> HIDE DEF h
<1> QED BY <1>2, <1>3, <1>4 DEF HeldFor

LEMMA FxNoteHang ==
  ASSUME ChainInv, HangInv, NEW e \in Timed, FxNote(e)
  PROVE  HangInv'
<1> DEFINE x == Transposed(e, transpose)
           L == Len(wire)
<1>1. /\ wire' = Append(wire, x)
      /\ UNCHANGED <<transpose, voices, clock, phase, pos, moved>>
      /\ phase = "fx" /\ pos = 0
  BY DEF FxNote, engine, ChainInv, LoopOK
<1>2. /\ L \in Nat /\ Len(wire') = L + 1 /\ wire'[L + 1] = x
      /\ \A i \in 1..L : wire'[i] = wire[i]
  BY <1>1, TransposedEvent DEF ChainInv, ListOK
<1>3. Starts(x) <=> Starts(e)
  BY TransposedFacts DEF ChainInv, ListOK
<1> HIDE DEF x, L
<1> SUFFICES ASSUME ~moved  PROVE VoicesMeet' /\ OnsMeet'
  BY <1>1 DEF HangInv
<1>4. ASSUME NEW n, NEW key, NEW id, HeldFor(held, transpose, n, key, id)
      PROVE  HeldFor(held', transpose', n, key, id) \/ TakesBack(x, key, id)
  BY <1>1, <1>4, FxNoteTakesBack DEF x
<1>5. VoicesMeet'
  <2> SUFFICES ASSUME NEW v \in Voices, voices[v].active, ~voices[v].releasing
               PROVE  \/ HeldFor(held', transpose', voices[v].age,
                                 voices[v].key, voices[v].noteId)
                      \/ \E i \in 1..(L + 1) :
                           TakesBack(wire'[i], voices[v].key, voices[v].noteId)
    BY <1>1, <1>2 DEF VoicesMeet
  <2>1. CASE HeldFor(held, transpose, voices[v].age, voices[v].key,
                     voices[v].noteId)
    BY <2>1, <1>2, <1>4
  <2>2. CASE \E i \in 1..L : TakesBack(wire[i], voices[v].key, voices[v].noteId)
    BY <2>2, <1>2
  <2> QED BY <2>1, <2>2, <1>1 DEF HangInv, VoicesMeet, L
<1>6. ASSUME NEW i \in 1..(L + 1)  PROVE Ons(wire', 1, i - 1) = Ons(wire, 1, i - 1)
  BY <1>2 DEF Ons
<1>7. OnsMeet'
  <2> SUFFICES ASSUME NEW i \in 1..(L + 1), Starts(wire'[i])
               PROVE  \/ HeldFor(held', transpose',
                                 clock + Cardinality(Ons(wire, 1, i - 1)),
                                 wire'[i].key, wire'[i].id)
                      \/ \E j \in (i + 1)..(L + 1) :
                           TakesBack(wire'[j], wire'[i].key, wire'[i].id)
    BY <1>1, <1>2, <1>6 DEF OnsMeet, Number
  <2>1. CASE i = L + 1
    <3>1. clock + Cardinality(Ons(wire, 1, i - 1)) = Sent
      BY <2>1, <1>1, <1>2 DEF Sent, Ons, L
    <3>2. wire'[i] = x /\ Starts(e)
      BY <2>1, <1>2, <1>3
    <3> QED BY <3>1, <3>2, <1>1, FxNoteHolds DEF x
  <2>2. CASE i # L + 1
    <3>1. i \in 1..L /\ wire'[i] = wire[i] /\ L + 1 \in (i + 1)..(L + 1)
      BY <2>2, <1>2
    <3>2. \/ HeldFor(held, transpose, clock + Cardinality(Ons(wire, 1, i - 1)),
                     wire[i].key, wire[i].id)
          \/ \E j \in (i + 1)..L : TakesBack(wire[j], wire[i].key, wire[i].id)
      BY <3>1, <1>1 DEF HangInv, OnsMeet, Number, L
    <3> QED BY <3>1, <3>2, <1>2, <1>4
  <2> QED BY <2>1, <2>2
<1> QED BY <1>5, <1>7

LEMMA SetTransposeHang ==
  ASSUME ChainInv, HangInv, NEW t \in Transposes, SetTranspose(t)
  PROVE  HangInv'
<1>1. UNCHANGED <<voices, clock, phase, wire, pos>>
  BY DEF SetTranspose, engine, block
<1>2. CASE moved'
  BY <1>1, <1>2 DEF HangInv
<1>3. CASE ~moved'
  <2>1. ~moved /\ held' = held /\ (held = {} \/ transpose' = transpose)
    BY <1>3 DEF SetTranspose
  <2>2. \A n, key, id : HeldFor(held', transpose', n, key, id)
                        <=> HeldFor(held, transpose, n, key, id)
    BY <2>1 DEF HeldFor
  <2>3. VoicesMeet' /\ OnsMeet'
    BY <1>1, <2>1, <2>2 DEF HangInv, VoicesMeet, OnsMeet, Number
  <2> QED BY <1>1, <2>3 DEF HangInv
<1> QED BY <1>2, <1>3

\* A voice that sounds after the event sounded before it and is not taken
\* back by it, or is the note of the event.
LEMMA HandleMeets ==
  ASSUME NEW c \in Nat, Table(voices, c), NEW n \in Int, NEW e, NEW v \in Voices
  PROVE  LET next == HandleEvent(Render(voices, n), e, c)
         IN  next[v].active /\ ~next[v].releasing =>
               \/ /\ Starts(e)
                  /\ next[v].age = c /\ next[v].key = e.key
                  /\ next[v].noteId = e.id
               \/ /\ voices[v].active /\ ~voices[v].releasing
                  /\ next[v].age = voices[v].age /\ next[v].key = voices[v].key
                  /\ next[v].noteId = voices[v].noteId
                  /\ ~TakesBack(e, voices[v].key, voices[v].noteId)
<1> DEFINE rest == Render(voices, n)
           next == HandleEvent(rest, e, c)
<1>1. rest \in [Voices -> VoiceRecord]
  BY RenderTable DEF Table
<1>2. rest[v].active /\ ~rest[v].releasing => rest[v] = voices[v]
  BY DEF Render, Table, VoiceRecord
<1> HIDE DEF rest
<1> SUFFICES ASSUME next[v].active, ~next[v].releasing
             PROVE  \/ /\ Starts(e)
                       /\ next[v].age = c /\ next[v].key = e.key
                       /\ next[v].noteId = e.id
                    \/ /\ rest[v].active /\ ~rest[v].releasing
                       /\ next[v] = rest[v]
                       /\ ~TakesBack(e, rest[v].key, rest[v].noteId)
  BY <1>2 DEF rest
<1>3. CASE Starts(e)
  <2>1. next = NoteOn(rest, e, c)
    BY <1>3 DEF HandleEvent
  <2>2. CASE v = Target(rest)
    BY <2>1, <2>2, <1>1, <1>3 DEF NoteOn
  <2>3. CASE v # Target(rest)
    <3>1. next[v] = rest[v]
      BY <2>1, <2>3, <1>1 DEF NoteOn
    <3> QED BY <3>1, <1>3 DEF TakesBack
  <2> QED BY <2>2, <2>3
<1>4. CASE ~Starts(e)
  <2>1. next = Choke(rest, e) \/ next = NoteOff(rest, e)
    BY <1>4 DEF HandleEvent
  <2>2. rest[v] \in VoiceRecord
    BY <1>1
  <2>3. ~Addressed(rest, v, e)
    BY <2>1, <2>2 DEF Choke, NoteOff, VoiceRecord
  <2>4. next[v] = rest[v]
    BY <2>1, <2>3 DEF Choke, NoteOff
  <2> QED BY <2>3, <2>4 DEF Addressed, TakesBack
<1> QED BY <1>3, <1>4

\* The notes ahead keep their numbers when the first event is handled.
LEMMA NumberKept ==
  ASSUME ChainInv, SynthEvent, NEW i \in (pos + 2)..Len(wire)
  PROVE  Number(i)' = Number(i)
<1> DEFINE e == wire[pos + 1]
           A == Ons(wire, pos + 1, i - 1)
<1>1. /\ pos \in Nat /\ Len(wire) \in Nat /\ clock \in Nat
      /\ pos' = pos + 1 /\ wire' = wire
      /\ clock' = IF Starts(e) THEN clock + 1 ELSE clock
  BY DEF SynthEvent, ChainInv, ListOK, NotesOK
<1>2. Ons(wire, pos + 2, i - 1) = A \ {pos + 1} /\ (Starts(e) <=> pos + 1 \in A)
  BY <1>1 DEF Ons
<1>3. IsFiniteSet(A)
  <2>1. IsFiniteSet((pos + 1)..(i - 1))
    BY <1>1, FS_Interval
  <2> QED BY <2>1, FS_Subset DEF Ons
<1>4. Number(i)' = clock' + Cardinality(A \ {pos + 1})
  <2>1. (pos + 1) + 1 = pos + 2
    BY <1>1
  <2> QED BY <2>1, <1>1, <1>2 DEF Number
<1>5. Number(i) = clock + Cardinality(A) /\ Cardinality(A) \in Nat
  BY <1>3, FS_CardinalityType DEF Number
<1>6. Cardinality(A \ {pos + 1}) =
        IF Starts(e) THEN Cardinality(A) - 1 ELSE Cardinality(A)
  BY <1>2, <1>3, FS_RemoveElement
<1> HIDE DEF A
<1> QED BY <1>1, <1>4, <1>5, <1>6

LEMMA SynthEventHang ==
  ASSUME ChainInv, HangInv, SynthEvent
  PROVE  HangInv'
<1> DEFINE e == wire[pos + 1]
           n == ChunkBefore(e)
           next == HandleEvent(Render(voices, n), e, clock)
<1>1. /\ pos \in Nat /\ Len(wire) \in Nat /\ clock \in Nat
      /\ pos < Len(wire) /\ pos' = pos + 1
      /\ voices' = next
      /\ UNCHANGED <<transpose, phase, wire, held, moved>>
      /\ phase = "synth"
  BY DEF SynthEvent, ChainInv, ListOK, NotesOK
<1>2. pos + 1 \in DOMAIN wire /\ e \in Event
  BY <1>1 DEF ChainInv, ListOK
<1>3. n \in Int /\ Table(voices, clock)
  BY <1>2, EventFacts DEF ChunkBefore, ChainInv, ListOK, NotesOK
<1> SUFFICES ASSUME ~moved  PROVE VoicesMeet' /\ OnsMeet'
  BY <1>1 DEF HangInv
<1>4. VoicesMeet /\ OnsMeet
  BY DEF HangInv
<1> HIDE DEF n
<1>5. VoicesMeet'
  <2> SUFFICES ASSUME NEW v \in Voices, next[v].active, ~next[v].releasing
               PROVE  \/ HeldFor(held, transpose, next[v].age, next[v].key,
                                 next[v].noteId)
                      \/ \E i \in (pos + 2)..Len(wire) :
                           TakesBack(wire[i], next[v].key, next[v].noteId)
    <3>1. (pos + 1) + 1 = pos + 2
      BY <1>1
    <3> QED BY <3>1, <1>1 DEF VoicesMeet
  <2>1. CASE /\ Starts(e)
             /\ next[v].age = clock /\ next[v].key = e.key
             /\ next[v].noteId = e.id
    <3>1. Number(pos + 1) = clock
      <4>1. (pos + 1)..((pos + 1) - 1) = {}
        BY <1>1
      <4>2. Ons(wire, pos + 1, (pos + 1) - 1) = {}
        BY <4>1 DEF Ons
      <4>3. Number(pos + 1) = clock + Cardinality({})
        BY <4>2 DEF Number
      <4> QED BY <4>3, <1>1, FS_EmptySet
    <3>2. pos + 1 \in (pos + 1)..Len(wire) /\ (pos + 1) + 1 = pos + 2
      BY <1>1
    <3> QED BY <3>1, <3>2, <2>1, <1>4 DEF OnsMeet
  <2>2. CASE /\ voices[v].active /\ ~voices[v].releasing
             /\ next[v].age = voices[v].age /\ next[v].key = voices[v].key
             /\ next[v].noteId = voices[v].noteId
             /\ ~TakesBack(e, voices[v].key, voices[v].noteId)
    <3>1. \A i \in (pos + 1)..Len(wire) : i = pos + 1 \/ i \in (pos + 2)..Len(wire)
      BY <1>1
    <3> QED BY <3>1, <2>2, <1>4 DEF VoicesMeet
  <2> HIDE DEF next
  <2>3. \/ /\ Starts(e)
           /\ next[v].age = clock /\ next[v].key = e.key
           /\ next[v].noteId = e.id
        \/ /\ voices[v].active /\ ~voices[v].releasing
           /\ next[v].age = voices[v].age /\ next[v].key = voices[v].key
           /\ next[v].noteId = voices[v].noteId
           /\ ~TakesBack(e, voices[v].key, voices[v].noteId)
    BY <1>1, <1>3, HandleMeets DEF next
  <2> QED BY <2>1, <2>2, <2>3
<1>6. OnsMeet'
  <2>1. (pos + 1) + 1 = pos + 2
    BY <1>1
  <2> SUFFICES ASSUME NEW i \in (pos + 2)..Len(wire), Starts(wire[i])
               PROVE  \/ HeldFor(held, transpose, Number(i)', wire[i].key, wire[i].id)
                      \/ \E j \in (i + 1)..Len(wire) :
                           TakesBack(wire[j], wire[i].key, wire[i].id)
    BY <2>1, <1>1 DEF OnsMeet
  <2>2. Number(i)' = Number(i)
    BY NumberKept
  <2>3. i \in (pos + 1)..Len(wire)
    BY <1>1
  <2> QED BY <2>2, <2>3, <1>4 DEF OnsMeet
<1> QED BY <1>5, <1>6

LEMMA SynthEndHang ==
  ASSUME ChainInv, HangInv, SynthEnd
  PROVE  HangInv'
<1> DEFINE rest == Render(voices, frames - cursor)
<1>1. /\ voices' = EmitNoteEnds(rest) /\ pos = Len(wire)
      /\ wire' = <<>> /\ pos' = 0
      /\ UNCHANGED <<transpose, held, moved>>
  BY DEF SynthEnd
<1>2. Table(voices, clock) /\ frames - cursor \in Int
      /\ clock \in Nat /\ pos \in Nat
  BY DEF ChainInv, ListOK, NotesOK
<1>3. Table(rest, clock)
  BY <1>2, RenderTable
<1>4. ASSUME NEW v \in Voices, voices'[v].active, ~voices'[v].releasing
      PROVE  /\ voices[v].active /\ ~voices[v].releasing
             /\ voices'[v] = voices[v]
  <2>1. voices'[v] = rest[v]
    BY <1>1, <1>4 DEF EmitNoteEnds, NoVoice
  <2>2. rest[v].active /\ ~rest[v].releasing => rest[v] = voices[v]
    BY <1>2 DEF Render, Table, VoiceRecord
  <2> QED BY <2>1, <2>2, <1>4
<1>5. (pos + 1)..Len(wire) = {}
  BY <1>1, <1>2
<1>6. ~moved => VoicesMeet'
  BY <1>1, <1>4, <1>5 DEF HangInv, VoicesMeet
<1>7. Len(wire') = 0 /\ (pos' + 1)..Len(wire') = {}
  BY <1>1
<1>8. OnsMeet'
  BY <1>7 DEF OnsMeet
<1> QED BY <1>1, <1>6, <1>8 DEF HangInv

LEMMA EngineResetHang ==
  ASSUME ChainInv, HangInv, EngineReset
  PROVE  HangInv'
<1>1. /\ voices' = NoVoices /\ phase = "idle" /\ UNCHANGED <<phase, wire, pos>>
      /\ wire = <<>> /\ pos = 0
  BY DEF EngineReset, HangInv, ChainInv, LoopOK
<1>2. VoicesMeet'
  BY <1>1 DEF VoicesMeet, NoVoices, NoVoice
<1>3. Len(wire') = 0 /\ (pos' + 1)..Len(wire') = {}
  BY <1>1
<1>4. OnsMeet'
  BY <1>3 DEF OnsMeet
<1> QED BY <1>1, <1>2, <1>4 DEF HangInv

\* The other steps leave the notes, the wire and what is held as they are.
LEMMA OtherHang ==
  ASSUME HangInv, UNCHANGED <<transpose, voices, clock, wire, pos, held, moved>>,
         phase' = "idle" => phase = "idle"
  PROVE  HangInv'
  BY DEF HangInv, VoicesMeet, OnsMeet, Number

LEMMA HangStep == ChainInv /\ HangInv /\ [Next]_vars => HangInv'
<1> SUFFICES ASSUME ChainInv, HangInv, [Next]_vars PROVE HangInv'
  OBVIOUS
<1>1. ASSUME NEW e \in Timed, FxNote(e)  PROVE HangInv'
  BY <1>1, FxNoteHang
<1>2. CASE SynthEvent
  BY <1>2, SynthEventHang
<1>3. CASE SynthEnd
  BY <1>3, SynthEndHang
<1>4. CASE EngineReset
  BY <1>4, EngineResetHang
<1>5. ASSUME NEW f \in FrameCounts, BlockStart(f)  PROVE HangInv'
  BY <1>5, OtherHang DEF BlockStart, engine, ledger
<1>6. ASSUME NEW t \in Transposes, SetTranspose(t)  PROVE HangInv'
  BY <1>6, SetTransposeHang
<1>7. CASE SynthStart
  BY <1>7, OtherHang DEF SynthStart, engine, ledger
<1>8. CASE UNCHANGED vars
  BY <1>8, OtherHang DEF vars, engine, block, ledger
<1> QED
  BY <1>1, <1>2, <1>3, <1>4, <1>5, <1>6, <1>7, <1>8
     DEF Next, FxParam, StateLoad, ParamsFlush

\* While the transpose stays as it is a note the host has taken back sounds no
\* more, for any keys, ids, wildcards and number of voices and events.
THEOREM NoNoteHangs == Spec => []NoHangingVoice
<1>1. ChainInv /\ HangInv => NoHangingVoice
  <2> SUFFICES ASSUME ChainInv, HangInv, phase = "idle", ~moved,
                      NEW v \in Voices, voices[v].active, ~voices[v].releasing
               PROVE  \E h \in held : h.note = voices[v].age
    BY DEF NoHangingVoice
  <2>1. pos = 0 /\ Len(wire) = 0 /\ (pos + 1)..Len(wire) = {}
    BY DEF ChainInv, LoopOK, HangInv
  <2> QED BY <2>1 DEF HangInv, VoicesMeet, HeldFor
<1> QED BY <1>1, ChainInit, ChainStep, HangInit, HangStep, PTL DEF Spec

-----------------------------------------------------------------------------
(* What the host sees of the notes: NoteChain implements NoteLives.        *)

\* The notes begun so far have the numbers below the clock.
BornInv == \A n \in Notes : fate[n] = "unborn" <=> clock <= n

\* No voice begins to sound that did not.
Calms(vs, ws) == \A v \in Voices : ws[v].active => vs[v].active

LEMMA CalmOperations ==
  ASSUME NEW vs, NEW e, NEW k
  PROVE  /\ Calms(vs, Render(vs, k)) /\ Calms(vs, NoteOff(vs, e))
         /\ Calms(vs, Choke(vs, e))
<1>1. ASSUME NEW v \in Voices, Render(vs, k)[v].active PROVE vs[v].active
  <2>1. CASE ~vs[v].active \/ ~vs[v].releasing
    BY <1>1, <2>1 DEF Render
  <2>2. CASE ~(~vs[v].active \/ ~vs[v].releasing)
    BY <2>2
  <2> QED BY <2>1, <2>2
<1>2. ASSUME NEW v \in Voices, NoteOff(vs, e)[v].active PROVE vs[v].active
  <2>1. CASE Addressed(vs, v, e)
    BY <2>1 DEF Addressed
  <2>2. CASE ~Addressed(vs, v, e)
    BY <1>2, <2>2 DEF NoteOff
  <2> QED BY <2>1, <2>2
<1>3. ASSUME NEW v \in Voices, Choke(vs, e)[v].active PROVE vs[v].active
  <2>1. CASE Addressed(vs, v, e)
    BY <2>1 DEF Addressed
  <2>2. CASE ~Addressed(vs, v, e)
    BY <1>3, <2>2 DEF Choke
  <2> QED BY <2>1, <2>2
<1> QED BY <1>1, <1>2, <1>3 DEF Calms

\* The notes that end in such a step are those that sounded and wait to be
\* announced; nothing happens to the others.
Ends(f, ws) == {n \in Notes : f[n] = "sounding" /\ Pending(ws, n)}

LEMMA CalmFates ==
  ASSUME NEW f, NEW vs, NEW ws, NEW c \in Nat, Agrees(f, vs), Table(vs, c),
         Table(ws, c), Keeps(vs, ws), Calms(vs, ws)
  PROVE  \A n \in Notes :
           FateAfter(f[n], ws, n) = IF n \in Ends(f, ws) THEN "ended" ELSE f[n]
<1> SUFFICES ASSUME NEW n \in Notes
             PROVE  FateAfter(f[n], ws, n)
                      = IF n \in Ends(f, ws) THEN "ended" ELSE f[n]
  OBVIOUS
<1>1. /\ f[n] = "sounding" <=> Sounding(vs, n)
      /\ f[n] = "ended" <=> Pending(vs, n)
  BY DEF Agrees
<1>2. ~(Sounding(ws, n) /\ Pending(ws, n))
  BY DEF Table, Live, Sounding, Pending
<1>3. Sounding(ws, n) \/ Pending(ws, n) <=> Sounding(vs, n) \/ Pending(vs, n)
  BY DEF Keeps, Live, Sounding, Pending
<1>4. Sounding(ws, n) => Sounding(vs, n)
  BY DEF Calms, Keeps, Sounding
<1>5. ~(Sounding(vs, n) /\ Pending(vs, n))
  BY DEF Table, Live, Sounding, Pending
<1>6. n \in Ends(f, ws) <=> Sounding(vs, n) /\ Pending(ws, n)
  BY <1>1 DEF Ends
<1>7. CASE Sounding(ws, n)
  BY <1>1, <1>2, <1>4, <1>6, <1>7 DEF FateAfter
<1>8. CASE Pending(ws, n)
  <2>1. FateAfter(f[n], ws, n) = IF f[n] = "announced" THEN f[n] ELSE "ended"
    BY <1>2, <1>8 DEF FateAfter
  <2> QED BY <1>1, <1>3, <1>5, <1>6, <1>8, <2>1
<1>9. CASE ~Sounding(ws, n) /\ ~Pending(ws, n)
  <2>1. f[n] # "sounding" /\ f[n] # "ended" /\ n \notin Ends(f, ws)
    BY <1>1, <1>3, <1>6, <1>9
  <2> QED BY <1>9, <2>1 DEF FateAfter
<1> QED BY <1>7, <1>8, <1>9

\* As many notes sound as voices do.
LEMMA SoundingCount ==
  ASSUME NEW vs, NEW c \in Nat, c <= MaxNotes, Table(vs, c)
  PROVE  /\ (\A v \in Voices : vs[v].active) =>
              Cardinality({n \in Notes : Sounding(vs, n)}) = MaxVoices
         /\ (\E v \in Voices : ~vs[v].active) =>
              Cardinality({n \in Notes : Sounding(vs, n)}) < MaxVoices
<1> DEFINE A == {v \in Voices : vs[v].active}
           S == {n \in Notes : Sounding(vs, n)}
           g == [v \in A |-> vs[v].age]
<1>1. /\ IsFiniteSet(Voices) /\ Cardinality(Voices) = MaxVoices
      /\ MaxVoices \in Nat
  BY FS_Interval, EngineAssumption DEF Voices
<1>2. /\ IsFiniteSet(A) /\ Cardinality(A) \in Nat
      /\ Cardinality(A) <= MaxVoices
      /\ Cardinality(A) = MaxVoices => A = Voices
  <2>1. A \in SUBSET Voices
    OBVIOUS
  <2> QED BY <1>1, <2>1, FS_Subset, FS_CardinalityType
<1>3. \A v \in A : vs[v].age \in S
  <2> SUFFICES ASSUME NEW v \in A PROVE vs[v].age \in S
    OBVIOUS
  <2>1. vs[v].age \in Nat /\ vs[v].age < c
    BY DEF Table, Live, VoiceRecord
  <2>2. vs[v].age \in Notes
    BY <2>1, ChainAssumption DEF Notes
  <2> QED BY <2>2 DEF Sounding
<1>4. \A v, w \in A : vs[v].age = vs[w].age => v = w
  BY DEF Table, Live
<1>5. \A n \in S : \E v \in A : vs[v].age = n
  BY DEF Sounding
<1>6. g \in Bijection(A, S)
  <2>1. g \in [A -> S]
    BY <1>3
  <2> QED BY <1>4, <1>5, <2>1
          DEF Bijection, Injection, Surjection, IsInjective
<1>7. Cardinality(S) = Cardinality(A)
  BY <1>2, <1>6, FS_Bijection DEF ExistsBijection
<1>8. (\A v \in Voices : vs[v].active) => A = Voices
  OBVIOUS
<1>9. (\E v \in Voices : ~vs[v].active) => A # Voices
  OBVIOUS
<1> HIDE DEF A, S
<1> QED BY <1>1, <1>2, <1>7, <1>8, <1>9 DEF S

\* A new note sounds; who loses its voice to it was the oldest of a full
\* table, or had ended.
LEMMA OnFates ==
  ASSUME NEW f, NEW vs, NEW c \in Nat, NEW e, c < MaxNotes, Agrees(f, vs),
         Table(vs, c)
  PROVE  LET t == Target(vs)
             a == vs[t].age
         IN  /\ \A n \in Notes :
                  FateAfter(f[n], NoteOn(vs, e, c), n)
                    = IF n = c THEN "sounding"
                      ELSE IF n = a /\ vs[t].active THEN "stolen"
                      ELSE IF n = a /\ vs[t].justEnded THEN "lost"
                      ELSE f[n]
             /\ vs[t].active =>
                  /\ a \in Notes /\ f[a] = "sounding"
                  /\ \A n \in Notes : f[n] = "sounding" => a <= n
                  /\ Cardinality({n \in Notes : f[n] = "sounding"}) = MaxVoices
             /\ ~vs[t].active =>
                  Cardinality({n \in Notes : f[n] = "sounding"}) < MaxVoices
             /\ vs[t].justEnded => a \in Notes /\ f[a] = "ended"
<1> DEFINE t == Target(vs)
           a == vs[t].age
           ws == NoteOn(vs, e, c)
<1>1. /\ vs \in [Voices -> VoiceRecord] /\ t \in Voices
      /\ vs[t].active => \A v \in Voices : vs[v].active /\ a <= vs[v].age
  BY TargetRight DEF Table
<1> HIDE DEF t
<1>2. \A v \in Voices :
        /\ v = t => ws[v].active /\ ~ws[v].justEnded /\ ws[v].age = c
        /\ v # t => ws[v] = vs[v]
  BY <1>1 DEF NoteOn, t
<1> HIDE DEF ws
<1>3. \A v \in Voices :
        /\ vs[v].age \in Nat /\ ~(vs[v].active /\ vs[v].justEnded)
        /\ Live(vs, v) => vs[v].age < c /\ vs[v].age \in Notes
        /\ Live(vs, v) /\ Live(vs, t) /\ vs[v].age = a => v = t
  BY <1>1, ChainAssumption DEF Table, VoiceRecord, Notes
<1>4. \A n \in Notes : /\ f[n] = "sounding" <=> Sounding(vs, n)
                       /\ f[n] = "ended" <=> Pending(vs, n)
  BY DEF Agrees
<1>5. ASSUME NEW n \in Notes, n # c
      PROVE  /\ Sounding(ws, n) <=> Sounding(vs, n) /\ ~(vs[t].active /\ n = a)
             /\ Pending(ws, n) <=> Pending(vs, n) /\ ~(vs[t].justEnded /\ n = a)
  <2>1. Sounding(ws, n) <=> \E v \in Voices \ {t} : vs[v].active /\ vs[v].age = n
    BY <1>1, <1>2, <1>5 DEF Sounding
  <2>2. Pending(ws, n) <=>
          \E v \in Voices \ {t} : vs[v].justEnded /\ vs[v].age = n
    BY <1>1, <1>2, <1>5 DEF Pending
  <2>3. Sounding(vs, n) <=> \/ \E v \in Voices \ {t} : vs[v].active /\ vs[v].age = n
                            \/ vs[t].active /\ n = a
    BY <1>1 DEF Sounding
  <2>4. Pending(vs, n) <=>
          \/ \E v \in Voices \ {t} : vs[v].justEnded /\ vs[v].age = n
          \/ vs[t].justEnded /\ n = a
    BY <1>1 DEF Pending
  <2>5. vs[t].active /\ n = a =>
          ~\E v \in Voices \ {t} : vs[v].active /\ vs[v].age = n
    BY <1>3 DEF Live
  <2>6. vs[t].justEnded /\ n = a =>
          ~\E v \in Voices \ {t} : vs[v].justEnded /\ vs[v].age = n
    BY <1>3 DEF Live
  <2> QED BY <2>1, <2>2, <2>3, <2>4, <2>5, <2>6
<1>6. Sounding(ws, c)
  BY <1>1, <1>2 DEF Sounding
<1>7. ASSUME NEW n \in Notes
      PROVE  FateAfter(f[n], ws, n)
               = IF n = c THEN "sounding"
                 ELSE IF n = a /\ vs[t].active THEN "stolen"
                 ELSE IF n = a /\ vs[t].justEnded THEN "lost"
                 ELSE f[n]
  <2>1. CASE n = c
    BY <1>6, <2>1 DEF FateAfter
  <2>2. CASE n # c /\ n = a /\ vs[t].active
    <3>1. Sounding(vs, n) /\ ~Sounding(ws, n)
      BY <1>1, <1>5, <2>2 DEF Sounding
    <3>2. ~Pending(ws, n)
      <4>1. ~Pending(vs, n)
        BY <1>1, <1>3, <2>2 DEF Pending, Live
      <4> QED BY <1>5, <2>2, <4>1
    <3> QED BY <1>4, <2>2, <3>1, <3>2 DEF FateAfter
  <2>3. CASE n # c /\ n = a /\ vs[t].justEnded
    <3>1. Pending(vs, n) /\ ~Pending(ws, n)
      BY <1>1, <1>5, <2>3 DEF Pending
    <3>2. ~Sounding(ws, n)
      <4>1. ~Sounding(vs, n)
        BY <1>1, <1>3, <2>3 DEF Sounding, Live
      <4> QED BY <1>5, <2>3, <4>1
    <3>3. ~vs[t].active
      BY <1>1, <1>3, <2>3
    <3> QED BY <1>4, <2>3, <3>1, <3>2, <3>3 DEF FateAfter
  <2>4. CASE n # c /\ ~(n = a /\ vs[t].active) /\ ~(n = a /\ vs[t].justEnded)
    <3>1. (Sounding(ws, n) <=> Sounding(vs, n))
          /\ (Pending(ws, n) <=> Pending(vs, n))
      BY <1>5, <2>4
    <3> QED BY <1>4, <2>4, <3>1 DEF FateAfter
  <2> QED BY <2>1, <2>2, <2>3, <2>4
<1>8. {n \in Notes : f[n] = "sounding"} = {n \in Notes : Sounding(vs, n)}
  BY <1>4
<1>9. ASSUME vs[t].active
      PROVE  /\ a \in Notes /\ f[a] = "sounding"
             /\ \A n \in Notes : f[n] = "sounding" => a <= n
             /\ Cardinality({n \in Notes : f[n] = "sounding"}) = MaxVoices
  <2>1. a \in Notes /\ Sounding(vs, a)
    BY <1>1, <1>3, <1>9 DEF Live, Sounding
  <2>2. \A n \in Notes : Sounding(vs, n) => a <= n
    BY <1>1, <1>9 DEF Sounding
  <2>3. Cardinality({n \in Notes : Sounding(vs, n)}) = MaxVoices
    <3>1. c <= MaxNotes
      BY ChainAssumption
    <3> QED BY <1>1, <1>9, <3>1, SoundingCount
  <2> QED BY <1>4, <1>8, <2>1, <2>2, <2>3
<1>10. ASSUME ~vs[t].active
       PROVE  Cardinality({n \in Notes : f[n] = "sounding"}) < MaxVoices
  <2>1. c <= MaxNotes
    BY ChainAssumption
  <2> QED BY <1>1, <1>8, <1>10, <2>1, SoundingCount
<1>11. vs[t].justEnded => a \in Notes /\ f[a] = "ended"
  BY <1>1, <1>3, <1>4 DEF Live, Pending
<1> HIDE DEF a
<1>12. /\ \A n \in Notes :
            FateAfter(f[n], ws, n)
              = IF n = c THEN "sounding"
                ELSE IF n = a /\ vs[t].active THEN "stolen"
                ELSE IF n = a /\ vs[t].justEnded THEN "lost"
                ELSE f[n]
       /\ vs[t].active =>
            /\ a \in Notes /\ f[a] = "sounding"
            /\ \A n \in Notes : f[n] = "sounding" => a <= n
            /\ Cardinality({n \in Notes : f[n] = "sounding"}) = MaxVoices
       /\ ~vs[t].active =>
            Cardinality({n \in Notes : f[n] = "sounding"}) < MaxVoices
       /\ vs[t].justEnded => a \in Notes /\ f[a] = "ended"
  BY <1>7, <1>9, <1>10, <1>11
<1> QED BY <1>12 DEF t, a, ws

\* Rendering ends some notes and does nothing to the others.
LEMMA RenderFates ==
  ASSUME ChainInv, NEW k \in Int
  PROVE  LET rest == Render(voices, k)
             mid == [n \in Notes |-> FateAfter(fate[n], rest, n)]
         IN  /\ Table(rest, clock) /\ Agrees(mid, rest)
             /\ \A n \in Notes :
                  mid[n] = IF n \in Ends(fate, rest) THEN "ended" ELSE fate[n]
<1> DEFINE rest == Render(voices, k)
           mid == [n \in Notes |-> FateAfter(fate[n], rest, n)]
<1>1. Table(voices, clock) /\ Agrees(fate, voices) /\ clock \in Nat
  BY DEF ChainInv, NotesOK
<1>2. Table(rest, clock) /\ Follows(voices, rest) /\ Keeps(voices, rest)
  BY <1>1, RenderTable
<1>3. Calms(voices, rest)
  BY CalmOperations
<1> HIDE DEF rest
<1>4. Agrees(mid, rest)
  BY <1>1, <1>2, FatesAgree
<1>5. \A n \in Notes :
        FateAfter(fate[n], rest, n)
          = IF n \in Ends(fate, rest) THEN "ended" ELSE fate[n]
  BY <1>1, <1>2, <1>3, CalmFates
<1> QED BY <1>2, <1>4, <1>5 DEF rest

\* What a step of the synth's loop does to voices and history.
EventStep(k, rest, mid, next) ==
  /\ rest = Render(voices, k)
  /\ mid = [n \in Notes |-> FateAfter(fate[n], rest, n)]
  /\ next = HandleEvent(rest, wire[pos + 1], clock)
  /\ wire[pos + 1] \in Event /\ k \in Int
  /\ phase = "synth" /\ UNCHANGED <<phase, status>>
  /\ fate' = [n \in Notes |-> FateAfter(mid[n], next, n)]
  /\ clock' = IF Starts(wire[pos + 1]) THEN clock + 1 ELSE clock

LEMMA EventStepRight ==
  ASSUME ChainInv, SynthEvent
  PROVE  \E k, rest, mid, next : EventStep(k, rest, mid, next)
<1> DEFINE e == wire[pos + 1]
           k == ChunkBefore(e)
           rest == Render(voices, k)
           next == HandleEvent(rest, e, clock)
           mid == [m \in Notes |-> FateAfter(fate[m], rest, m)]
<1>1. e \in Event
  BY DEF SynthEvent, ChainInv, ListOK
<1>2. k \in Int
  <2>1. e.time \in Nat
    BY <1>1, EventFacts
  <2> QED BY <2>1 DEF ChunkBefore, ChainInv, ListOK
<1>3. /\ phase = "synth" /\ UNCHANGED <<phase, status>>
      /\ fate' = [n \in Notes |-> FateAfter(mid[n], next, n)]
      /\ clock' = IF Starts(e) THEN clock + 1 ELSE clock
  BY DEF SynthEvent
<1>4. EventStep(k, rest, mid, next)
  BY <1>1, <1>2, <1>3 DEF EventStep
<1> QED BY <1>4

\* An event that starts no note ends some.
LEMMA EventEnds ==
  ASSUME ChainInv, BornInv, NEW k, NEW rest, NEW mid, NEW next,
         EventStep(k, rest, mid, next), ~Starts(wire[pos + 1])
  PROVE  Lives!LivesNext /\ BornInv'
<1> DEFINE E == Ends(fate, rest)
           F == Ends(mid, next)
           e == wire[pos + 1]
<1>1. /\ Table(rest, clock) /\ Agrees(mid, rest) /\ clock \in Nat
      /\ \A n \in Notes : mid[n] = IF n \in E THEN "ended" ELSE fate[n]
  BY RenderFates DEF EventStep, ChainInv, NotesOK
<1>2. next = NoteOff(rest, e) \/ next = Choke(rest, e)
  BY DEF EventStep, HandleEvent
<1>3. Table(next, clock) /\ Keeps(rest, next) /\ Calms(rest, next)
  BY <1>1, <1>2, OffTable, CalmOperations
<1>4. \A n \in Notes : FateAfter(mid[n], next, n)
                         = IF n \in F THEN "ended" ELSE mid[n]
  BY <1>1, <1>3, CalmFates
<1>5. E \cup F \in SUBSET Lives!Is("sounding")
  BY <1>1 DEF Ends, Lives!Is
<1> HIDE DEF E, F
<1>6. fate' = [n \in Notes |-> IF n \in E \cup F THEN "ended" ELSE fate[n]]
  BY <1>1, <1>4 DEF EventStep
<1>7. Lives!NotesEnd(E \cup F)
  BY <1>6 DEF Lives!NotesEnd, EventStep
<1>8. Lives!LivesNext
  BY <1>5, <1>7 DEF Lives!LivesNext
<1>9. clock' = clock
  BY DEF EventStep
<1>10. \A n \in Notes : n \in E \cup F => fate[n] # "unborn"
  BY <1>5 DEF Lives!Is
<1>11. \A n \in Notes : fate'[n] = "unborn" <=> fate[n] = "unborn"
  BY <1>6, <1>10
<1>12. BornInv'
  BY <1>9, <1>11 DEF BornInv
<1> QED BY <1>8, <1>12

\* NoteLives counts as this module does.
LEMMA LivesCount == \A S : Lives!Cardinality(S) = Cardinality(S)
  BY DEF Lives!Cardinality, Cardinality

\* A note-on begins the next note, which another may have to make room for.
LEMMA EventBegins ==
  ASSUME ChainInv, RoomInv, BornInv, NEW k, NEW rest, NEW mid, NEW next,
         EventStep(k, rest, mid, next), Starts(wire[pos + 1]), clock < MaxNotes
  PROVE  Lives!LivesNext /\ BornInv'
<1> DEFINE E == Ends(fate, rest)
           t == Target(rest)
           a == rest[t].age
<1>1. /\ Table(rest, clock) /\ Agrees(mid, rest) /\ clock \in Nat
      /\ \A n \in Notes : mid[n] = IF n \in E THEN "ended" ELSE fate[n]
  BY RenderFates DEF EventStep, ChainInv, NotesOK
<1>2. /\ clock \in Notes /\ clock \in Lives!Is("unborn")
      /\ \A m \in Lives!Is("unborn") : clock <= m
  BY <1>1, ChainAssumption DEF BornInv, Lives!Is, Notes
<1>3. E \in SUBSET Lives!Is("sounding")
  BY DEF Ends, Lives!Is
<1>4. next = NoteOn(rest, wire[pos + 1], clock)
  BY DEF EventStep, HandleEvent
<1>5. /\ \A n \in Notes :
           FateAfter(mid[n], next, n)
             = IF n = clock THEN "sounding"
               ELSE IF n = a /\ rest[t].active THEN "stolen"
               ELSE IF n = a /\ rest[t].justEnded THEN "lost"
               ELSE mid[n]
      /\ rest[t].active =>
           /\ a \in Notes /\ mid[a] = "sounding"
           /\ \A n \in Notes : mid[n] = "sounding" => a <= n
           /\ Cardinality({n \in Notes : mid[n] = "sounding"}) = MaxVoices
      /\ ~rest[t].active =>
           Cardinality({n \in Notes : mid[n] = "sounding"}) < MaxVoices
      /\ rest[t].justEnded => a \in Notes /\ mid[a] = "ended"
  BY <1>1, <1>4, OnFates
<1>6. ~(rest[t].active /\ rest[t].justEnded)
  BY <1>1, TargetRight DEF Table
<1> HIDE DEF E, t, a
<1>7. Lives!Is("sounding") \ E = {n \in Notes : mid[n] = "sounding"}
  BY <1>1 DEF Lives!Is
<1>8. \A n \in Notes :
        fate'[n] = IF n = clock THEN "sounding"
                   ELSE IF n = a /\ rest[t].active THEN "stolen"
                   ELSE IF n = a /\ rest[t].justEnded THEN "lost"
                   ELSE IF n \in E THEN "ended"
                   ELSE fate[n]
  BY <1>1, <1>5 DEF EventStep
<1>9. fate' = [n \in Notes |-> fate'[n]]
  BY DEF EventStep
<1>10. phase = "synth" /\ UNCHANGED <<phase = "synth", status>>
  BY DEF EventStep
<1>11. ASSUME rest[t].active  PROVE Lives!LivesNext
  <2>1. a \in Lives!Is("sounding") \ E
    BY <1>5, <1>7, <1>11
  <2>2. fate' = [n \in Notes |-> IF n = clock THEN "sounding"
                                 ELSE IF n = a THEN "stolen"
                                 ELSE IF n \in E THEN "ended"
                                 ELSE fate[n]]
    BY <1>6, <1>8, <1>9, <1>11
  <2>3. /\ Cardinality(Lives!Is("sounding") \ E) = MaxVoices
        /\ \A m \in Lives!Is("sounding") \ E : a <= m
    BY <1>5, <1>7, <1>11
  <2>4. Lives!NoteSteals(clock, E, a)
    BY <1>2, <1>10, <2>2, <2>3, LivesCount DEF Lives!NoteSteals
  <2>5. \E m \in Lives!Is("sounding") \ E : Lives!NoteSteals(clock, E, m)
    BY <2>1, <2>4
  <2> QED BY <1>2, <1>3, <2>5 DEF Lives!LivesNext
<1>12. ASSUME rest[t].justEnded  PROVE Lives!LivesNext
  <2>1. a \in Lives!Is("ended") \cup E
    BY <1>1, <1>5, <1>12 DEF Lives!Is
  <2>2. fate' = [n \in Notes |-> IF n = clock THEN "sounding"
                                 ELSE IF n \in {a} THEN "lost"
                                 ELSE IF n \in E THEN "ended"
                                 ELSE fate[n]]
    BY <1>6, <1>8, <1>9, <1>12
  <2>3. Cardinality(Lives!Is("sounding") \ E) < MaxVoices
    BY <1>5, <1>6, <1>7, <1>12
  <2>4. Lives!NoteBegins(clock, E, {a})
    BY <1>2, <1>10, <2>2, <2>3, LivesCount DEF Lives!NoteBegins
  <2>5. \E m \in Lives!Is("ended") \cup E : Lives!NoteBegins(clock, E, {m})
    BY <2>1, <2>4
  <2> QED BY <1>2, <1>3, <2>5 DEF Lives!LivesNext
<1>13. ASSUME ~rest[t].active, ~rest[t].justEnded  PROVE Lives!LivesNext
  <2>1. fate' = [n \in Notes |-> IF n = clock THEN "sounding"
                                 ELSE IF n \in {} THEN "lost"
                                 ELSE IF n \in E THEN "ended"
                                 ELSE fate[n]]
    BY <1>8, <1>9, <1>13
  <2>2. Cardinality(Lives!Is("sounding") \ E) < MaxVoices
    BY <1>5, <1>7, <1>13
  <2>3. Lives!NoteBegins(clock, E, {})
    BY <1>2, <1>10, <2>1, <2>2, LivesCount DEF Lives!NoteBegins
  <2> QED BY <1>2, <1>3, <2>3 DEF Lives!LivesNext
<1>14. Lives!LivesNext
  BY <1>11, <1>12, <1>13
<1>15. \A n \in Notes : n \in E => fate[n] # "unborn"
  BY <1>3 DEF Lives!Is
<1>16. /\ rest[t].active => fate[a] # "unborn" /\ a \in Notes
       /\ rest[t].justEnded => fate[a] # "unborn" /\ a \in Notes
  BY <1>1, <1>5, <1>15
<1>17. \A n \in Notes :
         fate'[n] = "unborn" <=> n # clock /\ fate[n] = "unborn"
  BY <1>8, <1>15, <1>16
<1>18. clock' = clock + 1
  BY DEF EventStep
<1>19. BornInv'
  <2>1. \A n \in Notes : n \in Nat
    BY ChainAssumption DEF Notes
  <2>2. \A n \in Notes : clock + 1 <= n <=> n # clock /\ clock <= n
    BY <1>1, <2>1
  <2> QED BY <1>17, <1>18, <2>2 DEF BornInv
<1> QED BY <1>14, <1>19

LEMMA SynthEventLives ==
  ASSUME ChainInv, RoomInv, BornInv, SynthEvent
  PROVE  Lives!LivesNext /\ BornInv'
<1>1. PICK k, rest, mid, next : EventStep(k, rest, mid, next)
  BY EventStepRight
<1>2. ASSUME Starts(wire[pos + 1])  PROVE clock < MaxNotes
  <2>1. pos + 1 \in OnWire
    BY <1>2 DEF SynthEvent, ChainInv, ListOK, OnWire
  <2>2. Cardinality(OnWire) # 0
    BY <2>1, OnWireFinite, FS_EmptySet
  <2> QED BY <2>2, OnWireFinite, ChainAssumption
          DEF RoomInv, ChainInv, NotesOK
<1>3. CASE Starts(wire[pos + 1])
  BY <1>1, <1>2, <1>3, EventBegins
<1>4. CASE ~Starts(wire[pos + 1])
  BY <1>1, <1>4, EventEnds
<1> QED BY <1>3, <1>4

\* The end of a block announces what has ended, and SLEEP says nothing sounds.
LEMMA SynthEndLives ==
  ASSUME ChainInv, RoomInv, BornInv, SynthEnd
  PROVE  Lives!LivesNext /\ BornInv'
<1> DEFINE n == frames - cursor
           rest == Render(voices, n)
           mid == [m \in Notes |-> FateAfter(fate[m], rest, m)]
           E == Ends(fate, rest)
<1>1. /\ fate' = [m \in Notes |->
                    IF \E v \in Announced(rest) : rest[v].age = m
                    THEN FateAnnounced(mid[m]) ELSE mid[m]]
      /\ status' = IF AnyVoiceActive(rest) THEN "continue" ELSE "sleep"
      /\ phase = "synth" /\ phase' = "idle" /\ clock' = clock
  BY DEF SynthEnd
<1>2. n \in Int /\ clock \in Nat /\ clock <= MaxNotes
  BY OnWireFinite, ChainAssumption
     DEF ChainInv, ListOK, NotesOK, RoomInv
<1> HIDE DEF n
<1>3. /\ Table(rest, clock) /\ Agrees(mid, rest)
      /\ \A m \in Notes : mid[m] = IF m \in E THEN "ended" ELSE fate[m]
  BY <1>2, RenderFates
<1>4. E \in SUBSET Lives!Is("sounding")
  BY DEF Ends, Lives!Is
<1> HIDE DEF rest, mid, E
<1>5. ASSUME NEW m \in Notes
      PROVE  fate'[m] = IF m \in E \cup Lives!Is("ended")
                        THEN "announced" ELSE fate[m]
  <2>1. (\E v \in Announced(rest) : rest[v].age = m) <=> mid[m] = "ended"
    BY <1>3 DEF Announced, Agrees, Pending
  <2>2. mid[m] = "ended" <=> m \in E \cup Lives!Is("ended")
    BY <1>3 DEF Lives!Is
  <2>3. CASE mid[m] = "ended"
    BY <1>1, <2>1, <2>2, <2>3 DEF FateAnnounced
  <2>4. CASE mid[m] # "ended"
    BY <1>1, <1>3, <2>1, <2>2, <2>4
  <2> QED BY <2>3, <2>4
<1>6. fate' = [m \in Notes |-> fate'[m]]
  BY <1>1
<1>7. fate' = [m \in Notes |-> IF m \in E \cup Lives!Is("ended")
                               THEN "announced" ELSE fate[m]]
  BY <1>5, <1>6
<1>8. AnyVoiceActive(rest) <=> ~(Lives!Is("sounding") \subseteq E)
  <2>1. ASSUME NEW v \in Voices, rest[v].active
        PROVE  rest[v].age \in Notes
    <3>1. rest[v].age \in Nat /\ rest[v].age < clock
      BY <1>3, <2>1 DEF Table, Live, VoiceRecord
    <3> QED BY <1>2, <3>1, ChainAssumption DEF Notes
  <2>2. AnyVoiceActive(rest) <=> \E m \in Notes : Sounding(rest, m)
    BY <2>1 DEF AnyVoiceActive, Sounding
  <2>3. \A m \in Notes : Sounding(rest, m) <=> mid[m] = "sounding"
    BY <1>3 DEF Agrees
  <2>4. \A m \in Notes :
          mid[m] = "sounding" <=> m \in Lives!Is("sounding") /\ m \notin E
    BY <1>3 DEF Lives!Is
  <2> QED BY <2>2, <2>3, <2>4 DEF Lives!Is
<1>9. Lives!BlockEnds(E)
  BY <1>1, <1>7, <1>8 DEF Lives!BlockEnds
<1>10. Lives!LivesNext
  BY <1>4, <1>9 DEF Lives!LivesNext
<1>11. \A m \in Notes : m \in E \cup Lives!Is("ended") => fate[m] # "unborn"
  BY <1>4 DEF Lives!Is
<1>12. \A m \in Notes : fate'[m] = "unborn" <=> fate[m] = "unborn"
  BY <1>5, <1>11
<1>13. BornInv'
  BY <1>1, <1>12 DEF BornInv
<1> QED BY <1>10, <1>13

\* Every step of the synth is one of NoteLives, or changes nothing there.
LEMMA LivesStep ==
  ASSUME ChainInv, RoomInv, BornInv, [Next]_vars
  PROVE  [Lives!LivesNext]_(Lives!livesVars) /\ BornInv'
<1>1. CASE SynthEvent
  BY <1>1, SynthEventLives
<1>2. CASE SynthEnd
  BY <1>2, SynthEndLives
<1>3. CASE SynthStart
  <2>1. Lives!BlockBegins
    BY <1>3 DEF SynthStart, ledger, Lives!BlockBegins
  <2>2. UNCHANGED <<fate, clock>>
    BY <1>3 DEF SynthStart, ledger, engine
  <2> QED BY <2>1, <2>2 DEF Lives!LivesNext, BornInv
<1>4. CASE EngineReset
  <2>1. /\ fate' = [n \in Notes |-> "unborn"] /\ clock' = 0
        /\ status' = "none" /\ phase = "idle" /\ phase' = "idle"
    BY <1>4 DEF EngineReset
  <2>2. Lives!Restart
    BY <2>1 DEF Lives!Restart
  <2>3. BornInv'
    BY <2>1, ChainAssumption DEF BornInv, Notes
  <2> QED BY <2>2, <2>3 DEF Lives!LivesNext
<1>5. ASSUME UNCHANGED <<fate, status, clock>>,
             (phase = "synth") <=> (phase' = "synth")
      PROVE  [Lives!LivesNext]_(Lives!livesVars) /\ BornInv'
  <2>1. UNCHANGED Lives!livesVars
    BY <1>5 DEF Lives!livesVars
  <2> QED BY <1>5, <2>1 DEF BornInv
<1>6. Next =>
        \/ SynthEvent \/ SynthEnd \/ SynthStart \/ EngineReset
        \/ /\ UNCHANGED <<fate, status, clock>>
           /\ (phase = "synth") <=> (phase' = "synth")
  BY DEF Next, BlockStart, FxNote, FxParam, StateLoad, ParamsFlush,
         SetTranspose, ledger, engine, block
<1>7. UNCHANGED vars => UNCHANGED <<fate, status, clock, phase>>
  BY DEF vars, ledger, engine, block
<1> QED BY <1>1, <1>2, <1>3, <1>4, <1>5, <1>6, <1>7

\* For any number of voices and notes, any events and blocks: the synth does
\* with its notes what NoteLives says, and nothing else.
THEOREM SynthKeepsNoteLives == Spec => NotesLive
<1>1. Init => Lives!LivesInit /\ BornInv
  BY ChainAssumption DEF Init, Lives!LivesInit, BornInv, Notes
<1>2. ChainInv /\ RoomInv /\ BornInv /\ [Next]_vars
        => [Lives!LivesNext]_(Lives!livesVars) /\ BornInv'
  BY LivesStep
<1> QED BY <1>1, <1>2, ChainCorrect, RoomInit, RoomStep, PTL
        DEF Spec, NotesLive, Lives!LivesSpec

-----------------------------------------------------------------------------
(* II.  Parameters, streams, presets and layouts                           *)

(* What the tables promise of every flavor.                                *)
Sound(f) ==
  /\ f.saved \in Seq(Params(f)) /\ f.saved # <<>>
  /\ f.meters \cap ToSet(f.saved) = {}
  /\ f.modulatable \subseteq Params(f)
  /\ f.tagged \in BOOLEAN /\ f.magic # "other" /\ "unknown" \notin Params(f)
  /\ f.restarting # {} => f.restarting = {"latency"} /\ "latency" \in ToSet(f.saved)
  /\ f.name = "preset" => f.saved = <<"gain", "color">> /\ ~f.tagged

(* What ToSet is of a sequence.                                            *)
LEMMA ToSetOf ==
  ASSUME NEW S, NEW s \in Seq(S)
  PROVE  /\ ToSet(s) \subseteq S
         /\ \A i \in 1..Len(s) : s[i] \in ToSet(s)
         /\ \A x \in ToSet(s) : \E i \in 1..Len(s) : s[i] = x
  BY DEF ToSet

(* A flavor without meters and without anything to restart for.            *)
LEMMA PlainFlavor ==
  ASSUME NEW name, NEW flags, NEW stream, NEW ports, NEW ids, NEW S,
         flags.meters = {}, flags.modulatable \subseteq S,
         stream.magic = "CVPS", stream.saved = ids, stream.tagged \in BOOLEAN,
         stream.restarting = {}, ids # <<>>,
         ids \in Seq(S), "unknown" \notin S, ToSet(ids) = S,
         name = "preset" => ids = <<"gain", "color">> /\ ~stream.tagged
  PROVE  Sound(Flavor(name, flags, stream, ports))
<1> DEFINE f == Flavor(name, flags, stream, ports)
<1>1. /\ f.saved = ids /\ f.meters = {} /\ f.modulatable = flags.modulatable
      /\ f.tagged = stream.tagged /\ f.magic = "CVPS" /\ f.restarting = {}
      /\ f.name = name
  BY DEF Flavor
<1> HIDE DEF f
<1>2. Params(f) = S
  BY <1>1 DEF Params
<1> QED BY <1>1, <1>2 DEF Sound, f

(* The sets of short sequences.                                            *)
LEMMA Tuples ==
  ASSUME NEW a, NEW b
  PROVE  /\ <<a>> \in Seq({a}) /\ <<a>> # <<>> /\ ToSet(<<a>>) = {a}
         /\ <<a, b>> \in Seq({a, b}) /\ <<a, b>> # <<>> /\ ToSet(<<a, b>>) = {a, b}
  BY DEF ToSet

LEMMA Triple ==
  ASSUME NEW a, NEW b, NEW c
  PROVE  /\ <<a, b, c>> \in Seq({a, b, c}) /\ <<a, b, c>> # <<>>
         /\ ToSet(<<a, b, c>>) = {a, b, c}
  BY DEF ToSet

(* A flavor that stores every parameter it declares, in order.             *)
LEMMA StoresFlavor ==
  ASSUME NEW name, NEW ids, NEW S, NEW ports, ids # <<>>, ids \in Seq(S),
         "unknown" \notin S, ToSet(ids) = S,
         name = "preset" => ids = <<"gain", "color">>
  PROVE  Sound(Flavor(name, Declares(S), Stores(ids), ports))
<1>1. Declares(S).meters = {} /\ Declares(S).modulatable = {}
  BY DEF Declares
<1>2. /\ Stores(ids).magic = "CVPS" /\ Stores(ids).saved = ids
      /\ Stores(ids).tagged = FALSE /\ Stores(ids).restarting = {}
  BY DEF Stores
<1> QED BY <1>1, <1>2, PlainFlavor

(* The tables keep their promise for each of the twelve flavors.           *)
LEMMA EveryFlavorSound == \A f \in AllFlavors : Sound(f)
<1>1. Sound(Effect)
  <2>1. /\ Effect.saved = <<"gain", "latency", "tail">> /\ Effect.meters = {}
        /\ Effect.modulatable = {} /\ Effect.tagged = TRUE /\ Effect.magic = "CVPS"
        /\ Effect.restarting = {"latency"} /\ Effect.name = "effect"
    <3>1. /\ EffectStream.saved = <<"gain", "latency", "tail">>
          /\ EffectStream.magic = "CVPS"
          /\ EffectStream.tagged = TRUE /\ EffectStream.restarting = {"latency"}
      BY DEF EffectStream, Stores
    <3>2. EffectParams.meters = {} /\ EffectParams.modulatable = {}
      BY DEF EffectParams, Declares
    <3> QED BY <3>1, <3>2 DEF Effect, Flavor
  <2>2. /\ Effect.saved \in Seq({"gain", "latency", "tail"}) /\ Effect.saved # <<>>
        /\ ToSet(Effect.saved) = {"gain", "latency", "tail"}
    BY <2>1, Triple
  <2>3. Params(Effect) = {"gain", "latency", "tail"}
    BY <2>1, <2>2 DEF Params
  <2> QED BY <2>1, <2>2, <2>3 DEF Sound
<1>2. Sound(ParamsZoo)
  <2> DEFINE ids == {"gain", "drive", "bypass", "rotation", "dcOffset",
                     "curve", "secret"}
  <2>1. /\ ParamsZoo.saved = <<"gain", "drive", "bypass", "rotation", "dcOffset",
                               "curve", "secret">>
        /\ ParamsZoo.meters = {"peak"} /\ ParamsZoo.modulatable = {"gain"}
        /\ ParamsZoo.tagged = TRUE /\ ParamsZoo.magic = "CVPP"
        /\ ParamsZoo.restarting = {} /\ ParamsZoo.name = "params_zoo"
    <3>1. /\ ZooStream.saved = <<"gain", "drive", "bypass", "rotation", "dcOffset",
                                  "curve", "secret">>
          /\ ZooStream.magic = "CVPP"
          /\ ZooStream.tagged = TRUE /\ ZooStream.restarting = {}
      BY DEF ZooStream, Stores
    <3>2. ZooParams.meters = {"peak"} /\ ZooParams.modulatable = {"gain"}
      BY DEF ZooParams, Declares
    <3> QED BY <3>1, <3>2 DEF ParamsZoo, Flavor
  <2>2. /\ ParamsZoo.saved \in Seq(ids) /\ ParamsZoo.saved # <<>>
        /\ ToSet(ParamsZoo.saved) = ids
    BY <2>1 DEF ToSet
  <2>3. Params(ParamsZoo) = ids \cup {"peak"}
    BY <2>1, <2>2 DEF Params
  <2>4. ParamsZoo.saved \in Seq(Params(ParamsZoo))
    BY <2>2, <2>3
  <2> QED BY <2>1, <2>2, <2>3, <2>4 DEF Sound
<1>3. Sound(Gui)
  <2> DEFINE ids == {"gain", "mode", "mute"}
  <2>1. /\ GuiStream.saved = <<"gain", "mode", "mute">> /\ GuiStream.magic = "CVPS"
        /\ GuiStream.tagged = TRUE /\ GuiStream.restarting = {}
    BY DEF GuiStream, Stores
  <2>2. GuiParams.meters = {} /\ GuiParams.modulatable = {}
    BY DEF GuiParams, Declares
  <2>3. /\ <<"gain", "mode", "mute">> \in Seq(ids) /\ <<"gain", "mode", "mute">> # <<>>
        /\ ToSet(<<"gain", "mode", "mute">>) = ids
    BY Triple
  <2> QED BY <2>1, <2>2, <2>3, PlainFlavor DEF Gui
<1>4. Sound(Preset)
  <2>1. /\ <<"gain", "color">> \in Seq({"gain", "color"}) /\ <<"gain", "color">> # <<>>
        /\ ToSet(<<"gain", "color">>) = {"gain", "color"}
        /\ "unknown" \notin {"gain", "color"}
    BY Tuples
  <2>2. Sound(Flavor("preset", Declares({"gain", "color"}),
                     Stores(<<"gain", "color">>), FixedPorts))
    BY <2>1, StoresFlavor
  <2> QED BY <2>2 DEF Preset, PresetParams, PresetStream
<1>5. Sound(SidechainSynth)
  <2>1. /\ <<"volume", "amount">> \in Seq({"volume", "amount"})
        /\ <<"volume", "amount">> # <<>>
        /\ ToSet(<<"volume", "amount">>) = {"volume", "amount"}
        /\ "unknown" \notin {"volume", "amount"}
    BY Tuples
  <2>2. Sound(Flavor("sidechain_synth", Declares({"volume", "amount"}),
                     Stores(<<"volume", "amount">>), FixedPorts))
    BY <2>1, StoresFlavor
  <2> QED BY <2>2 DEF SidechainSynth, SidechainParams, SidechainStream
<1>6. Sound(Synth)
  <2>1. SynthParams.meters = {} /\ SynthParams.modulatable = {"volume"}
    BY DEF SynthParams, Declares
  <2>2. /\ SynthStream.saved = <<"volume">> /\ SynthStream.magic = "CVPS"
        /\ SynthStream.tagged = FALSE /\ SynthStream.restarting = {}
    BY DEF SynthStream, Stores
  <2>3. /\ <<"volume">> \in Seq({"volume"}) /\ <<"volume">> # <<>>
        /\ ToSet(<<"volume">>) = {"volume"} /\ "unknown" \notin {"volume"}
    BY Tuples
  <2> QED BY <2>1, <2>2, <2>3, PlainFlavor DEF Synth
<1>7. Sound(NoteFx)
  <2>1. /\ <<"transpose">> \in Seq({"transpose"}) /\ <<"transpose">> # <<>>
        /\ ToSet(<<"transpose">>) = {"transpose"} /\ "unknown" \notin {"transpose"}
    BY Tuples
  <2>2. Sound(Flavor("notefx", Declares({"transpose"}),
                     Stores(<<"transpose">>), FixedPorts))
    BY <2>1, StoresFlavor
  <2> QED BY <2>2 DEF NoteFx, NoteFxParams, NoteFxStream
<1>8. Sound(AudioPortsZero)
  <2>1. /\ <<"dummy">> \in Seq({"dummy"}) /\ <<"dummy">> # <<>>
        /\ ToSet(<<"dummy">>) = {"dummy"} /\ "unknown" \notin {"dummy"}
    BY Tuples
  <2>2. Sound(Flavor("audioports_zero", Declares({"dummy"}),
                     Stores(<<"dummy">>), FixedPorts))
    BY <2>1, StoresFlavor
  <2> QED BY <2>2 DEF AudioPortsZero, ZeroParams, ZeroStream
<1>9. Sound(Slow)
  <2>1. /\ <<"slowness">> \in Seq({"slowness"}) /\ <<"slowness">> # <<>>
        /\ ToSet(<<"slowness">>) = {"slowness"} /\ "unknown" \notin {"slowness"}
    BY Tuples
  <2>2. Sound(Flavor("slow", Declares({"slowness"}),
                     Stores(<<"slowness">>), FixedPorts))
    BY <2>1, StoresFlavor
  <2> QED BY <2>2 DEF Slow, SlowParams, SlowStream
<1>10. Sound(Surround)
  <2>1. /\ <<"gain", "solo">> \in Seq({"gain", "solo"}) /\ <<"gain", "solo">> # <<>>
        /\ ToSet(<<"gain", "solo">>) = {"gain", "solo"}
        /\ "unknown" \notin {"gain", "solo"}
    BY Tuples
  <2>2. Sound(Flavor("surround", Declares({"gain", "solo"}),
                     Stores(<<"gain", "solo">>), SurroundLayouts))
    BY <2>1, StoresFlavor
  <2> QED BY <2>2 DEF Surround, SurroundParams, SurroundStream
<1>11. Sound(MultiOutGen)
  <2>1. /\ <<"level">> \in Seq({"level"}) /\ <<"level">> # <<>>
        /\ ToSet(<<"level">>) = {"level"} /\ "unknown" \notin {"level"}
    BY Tuples
  <2>2. Sound(Flavor("multiout_gen", Declares({"level"}),
                     Stores(<<"level">>), GenConfigs))
    BY <2>1, StoresFlavor
  <2> QED BY <2>2 DEF MultiOutGen, GenParams, GenStream
<1>12. Sound(MultiOutFx)
  <2>1. /\ <<"auxLevel">> \in Seq({"auxLevel"}) /\ <<"auxLevel">> # <<>>
        /\ ToSet(<<"auxLevel">>) = {"auxLevel"} /\ "unknown" \notin {"auxLevel"}
    BY Tuples
  <2>2. Sound(Flavor("multiout_fx", Declares({"auxLevel"}),
                     Stores(<<"auxLevel">>), FxConfigs))
    BY <2>1, StoresFlavor
  <2> QED BY <2>2 DEF MultiOutFx, FxParams, FxStream
<1> QED
  BY <1>1, <1>2, <1>3, <1>4, <1>5, <1>6, <1>7, <1>8, <1>9, <1>10, <1>11, <1>12
     DEF AllFlavors
-----------------------------------------------------------------------------
(* Events, layouts and the latency.                                        *)

(* The flavor stays what it is, and its parameters stay those it declares. *)
TableInv ==
  /\ flavor \in AllFlavors
  /\ stored = [p \in Params(flavor) |-> stored[p]]

LEMMA TableInvInit == StreamsInit => TableInv
  BY StreamsAssumption DEF StreamsInit, TableInv

(* What a step needs to know of the flavor it runs in.                     *)
LEMMA SoundFlavor ==
  ASSUME TableInv
  PROVE  Sound(flavor)
  BY EveryFlavorSound DEF TableInv

(* Nothing stores but an event, the meter and a load.                      *)
Stored(p, v) == stored' = [stored EXCEPT ![p] = v]

(* A store changes the value of a parameter, not which there are.          *)
LEMMA StoringKeepsTable ==
  ASSUME TableInv, flavor' = flavor, stored' = stored \/ \E p, v : Stored(p, v)
  PROVE  TableInv'
  BY DEF TableInv, Stored

(* The two ways a step stores a parameter: a load, and an event.           *)
LEMMA LoadStores ==
  ASSUME NEW words, LoadWords(words)
  PROVE  \/ UNCHANGED <<stored, baseline>>
         \/ \E p, v : Assign(p, v)
  BY DEF LoadWords

LEMMA DeliveryStores ==
  ASSUME NEW e, NEW flushed, NEW playing, Deliver(e, flushed, playing)
  PROVE  \/ UNCHANGED <<stored, restarted>>
         \/ AppliedValue(e, flushed)
  BY DEF Deliver

(* The flavor is chosen once and the table keeps its domain.               *)
LEMMA TableInvStep == TableInv /\ [StreamsNext]_streamsVars => TableInv'
<1> SUFFICES ASSUME TableInv, [StreamsNext]_streamsVars PROVE TableInv'
  OBVIOUS
<1> USE StoringKeepsTable DEF Stored
<1>1. CASE Activate \/ Deactivate \/ SaveBegin \/ Gather \/ Rescan
  BY <1>1 DEF Activate, Deactivate, SaveBegin, Gather, Rescan
<1>2. ASSUME NEW e, NEW flushed, NEW playing, Deliver(e, flushed, playing)
      PROVE  TableInv'
  BY <1>2, DeliveryStores DEF Deliver, AppliedValue
<1>3. ASSUME NEW p, NEW v, MoveMeter(p, v)  PROVE TableInv'
  BY <1>3 DEF MoveMeter
<1>4. CASE StoreNext
  BY <1>4 DEF StoreNext, Assign
<1>5. ASSUME NEW words, SaveWords(words)  PROVE TableInv'
  BY <1>5 DEF SaveWords
<1>6. ASSUME NEW words, LoadWords(words)  PROVE TableInv'
  BY <1>6, LoadStores DEF LoadWords, Assign
<1>7. ASSUME NEW source, LoadBegin(source)  PROVE TableInv'
  BY <1>7 DEF LoadBegin
<1>8. ASSUME NEW location, FromLocation(location)  PROVE TableInv'
  BY <1>8 DEF FromLocation
<1>9. ASSUME NEW requests, ApplyConfiguration(requests)  PROVE TableInv'
  BY <1>9 DEF ApplyConfiguration
<1>10. ASSUME NEW n, Select(n)  PROVE TableInv'
  BY <1>10 DEF Select
<1>11. CASE UNCHANGED streamsVars
  BY <1>11 DEF streamsVars
<1> QED
  BY <1>1, <1>2, <1>3, <1>4, <1>5, <1>6, <1>7, <1>8, <1>9, <1>10, <1>11
     DEF StreamsNext

(* What the base class charges and what the flavor applies.                *)
LEMMA DeliveryJudged ==
  ASSUME TableInv, NEW e \in ParamEvent, NEW flushed \in BOOLEAN,
         NEW playing \in BOOLEAN, Deliver(e, flushed, playing)
  PROVE  EventsJudged'
<1> DEFINE applied == IF e.type = "value" THEN Settable(e.id)
                      ELSE TakesModulation(e, flushed)
<1>1. /\ verdict'.codes = Codes(e, playing) /\ verdict'.applied = applied
      /\ verdict'.quirk = IF flushed /\ e.type = "mod" THEN "flushed"
                          ELSE IF hasParams THEN e.quirk ELSE "no table"
  BY DEF Deliver
<1>2. SUFFICES ASSUME verdict'.quirk \in {"none", "cookie"}
               PROVE  applied <=> Codes(e, playing) \cap {"P08", "P12", "P13"} = {}
  BY <1>1 DEF EventsJudged
<1>3. hasParams /\ e.quirk \in {"none", "cookie"} /\ ~(flushed /\ e.type = "mod")
  BY <1>1, <1>2
<1>4. flavor.modulatable \subseteq Params(flavor) /\ e.type \in {"value", "mod"}
  BY SoundFlavor DEF Sound, ParamEvent
<1>5. CASE e.id \notin Params(flavor)
  <2>1. e.id \notin flavor.meters
    BY <1>5 DEF Params
  <2>2. Codes(e, playing) = {"P08"}
    BY <1>3, <1>5, <2>1 DEF Codes
  <2> QED BY <1>4, <1>5, <2>2 DEF Settable, TakesModulation
<1>6. CASE e.id \in Params(flavor) /\ e.type = "value" /\ e.id \in flavor.meters
  <2>1. "P12" \in Codes(e, playing)
    BY <1>3, <1>6 DEF Codes
  <2> QED BY <1>6, <2>1 DEF Settable
<1>7. CASE e.id \in Params(flavor) /\ e.type = "value" /\ e.id \notin flavor.meters
  <2>1. Codes(e, playing) \subseteq {"P11", "P14"}
    BY <1>3, <1>7 DEF Codes, If
  <2> QED BY <1>7, <2>1 DEF Settable
<1>8. CASE e.id \in Params(flavor) /\ e.type = "mod"
  <2>1. Codes(e, playing) = If(e.quirk = "cookie", "P11")
                              \cup If(BadModulation(e), "P13")
    BY <1>3, <1>8 DEF Codes, If
  <2>2. BadModulation(e) <=> e.id \notin flavor.modulatable
    BY <1>3 DEF BadModulation
  <2>3. Codes(e, playing) \cap {"P08", "P12", "P13"} = {} <=>
            e.id \in flavor.modulatable
    BY <2>1, <2>2 DEF If
  <2> QED BY <1>3, <1>8, <2>3 DEF TakesModulation
<1> QED BY <1>4, <1>5, <1>6, <1>7, <1>8

(* A step that delivers no event clears the verdict.                       *)
LEMMA NoEventJudged ==
  ASSUME verdict' = NoVerdict
  PROVE  EventsJudged'
  BY DEF EventsJudged, NoVerdict

(* Every step leaves a verdict of an event just delivered, or none.        *)
LEMMA EventsJudgedStep ==
  TableInv /\ EventsJudged /\ [StreamsNext]_streamsVars => EventsJudged'
<1> SUFFICES ASSUME TableInv, EventsJudged, [StreamsNext]_streamsVars
             PROVE  EventsJudged'
  OBVIOUS
<1> USE NoEventJudged
<1>1. CASE Activate \/ Deactivate \/ SaveBegin \/ Gather \/ Rescan \/ StoreNext
  BY <1>1 DEF Activate, Deactivate, SaveBegin, Gather, Rescan, StoreNext, BeginJob
<1>2. ASSUME NEW p, NEW v, MoveMeter(p, v)  PROVE EventsJudged'
  BY <1>2 DEF MoveMeter
<1>3. ASSUME NEW words, SaveWords(words) \/ LoadWords(words)  PROVE EventsJudged'
  BY <1>3 DEF SaveWords, LoadWords
<1>4. ASSUME NEW source, LoadBegin(source)  PROVE EventsJudged'
  BY <1>4 DEF LoadBegin, BeginJob
<1>5. ASSUME NEW location, FromLocation(location)  PROVE EventsJudged'
  BY <1>5 DEF FromLocation, BeginJob
<1>6. ASSUME NEW requests, ApplyConfiguration(requests)  PROVE EventsJudged'
  BY <1>6 DEF ApplyConfiguration
<1>7. ASSUME NEW n, Select(n)  PROVE EventsJudged'
  BY <1>7 DEF Select
<1>8. CASE UNCHANGED streamsVars
  BY <1>8 DEF streamsVars, EventsJudged
<1> QED
  BY <1>1, <1>2, <1>3, <1>4, <1>5, <1>6, <1>7, <1>8, DeliveryJudged DEF StreamsNext

(* Of every flavor: an event that is charged as unknown, read-only or not  *)
(* modulatable has no effect, and an event without such a charge has.      *)
THEOREM EventsAreJudged == StreamsSpec => []EventsJudged
<1>1. StreamsInit => EventsJudged
  <2>1. StreamsInit => verdict = NoVerdict
    BY DEF StreamsInit
  <2>2. NoVerdict.quirk = "no event"
    BY DEF NoVerdict
  <2> QED BY <2>1, <2>2 DEF EventsJudged
<1> QED
  BY <1>1, TableInvInit, TableInvStep, EventsJudgedStep, PTL DEF StreamsSpec

(* A layout changes only while inactive, to one all requests ask for.      *)
LEMMA LayoutStep == LayoutHonest /\ [StreamsNext]_streamsVars => LayoutHonest'
<1> SUFFICES ASSUME LayoutHonest, [StreamsNext]_streamsVars PROVE LayoutHonest'
  OBVIOUS
<1> USE DEF LayoutHonest, portVars
<1>1. CASE UNCHANGED <<active, portVars>>
  BY <1>1
<1>2. CASE Activate \/ Deactivate
  BY <1>2 DEF Activate, Deactivate
<1>3. ASSUME NEW requests, ApplyConfiguration(requests)  PROVE LayoutHonest'
  <2>1. PICK n \in LayoutsFor(requests) : layout' = n
    BY <1>3 DEF ApplyConfiguration
  <2>2. \A i \in DOMAIN requests : requests[i].channels = n
    BY <2>1 DEF LayoutsFor
  <2>3. ~active' /\ chosen' = {requests[i].channels : i \in DOMAIN requests}
    BY <1>3 DEF ApplyConfiguration
  <2> QED BY <2>1, <2>2, <2>3
<1>4. ASSUME NEW n, Select(n)  PROVE LayoutHonest'
  BY <1>4 DEF Select
<1>5. CASE SaveBegin \/ Gather \/ Rescan \/ StoreNext
  BY <1>1, <1>5 DEF SaveBegin, Gather, Rescan, StoreNext
<1>6. ASSUME NEW words, SaveWords(words) \/ LoadWords(words)  PROVE LayoutHonest'
  BY <1>1, <1>6 DEF SaveWords, LoadWords
<1>7. ASSUME NEW source, LoadBegin(source)  PROVE LayoutHonest'
  BY <1>1, <1>7 DEF LoadBegin
<1>8. ASSUME NEW location, FromLocation(location)  PROVE LayoutHonest'
  BY <1>1, <1>8 DEF FromLocation
<1>9. ASSUME NEW e, NEW flushed, NEW playing, Deliver(e, flushed, playing)
      PROVE  LayoutHonest'
  BY <1>1, <1>9 DEF Deliver
<1>10. ASSUME NEW p, NEW v, MoveMeter(p, v)  PROVE LayoutHonest'
  BY <1>1, <1>10 DEF MoveMeter
<1>11. CASE UNCHANGED streamsVars
  BY <1>1, <1>11 DEF streamsVars
<1> QED
  BY <1>2, <1>3, <1>4, <1>5, <1>6, <1>7, <1>8, <1>9, <1>10, <1>11 DEF StreamsNext

(* Whatever the host asks of a layout, all requests it was granted hold,   *)
(* and an active plug-in keeps the layout it was activated with.           *)
THEOREM LayoutStaysHonest == StreamsSpec => []LayoutHonest
<1>1. StreamsInit => LayoutHonest
  BY DEF StreamsInit, LayoutHonest
<1> QED BY <1>1, LayoutStep, PTL DEF StreamsSpec

(* A latency that an event changes while active asks for a restart; one    *)
(* that is loaded becomes the one later events are held against.           *)
LEMMA LatencyStep ==
  TableInv /\ LatencyNoticed /\ [StreamsNext]_streamsVars => LatencyNoticed'
<1> SUFFICES ASSUME TableInv, LatencyNoticed, [StreamsNext]_streamsVars
             PROVE  LatencyNoticed'
  OBVIOUS
<1> USE DEF latencyVars, Settable
<1>1. CASE UNCHANGED <<flavor, stored, active, latencyVars>>
  BY <1>1 DEF LatencyNoticed
<1>2. ASSUME NEW p, NEW v, Stored(p, v), UNCHANGED <<flavor, active, baseline>>,
             restarted => restarted',
             p = "latency" /\ stored[p] # v => (Restarts(p) => restarted')
      PROVE  LatencyNoticed'
  <2> SUFFICES ASSUME active, flavor.restarting # {}, stored'["latency"] # baseline
               PROVE  restarted'
    BY <1>2 DEF LatencyNoticed
  <2>1. /\ flavor.restarting = {"latency"} /\ "latency" \in ToSet(flavor.saved)
    BY SoundFlavor DEF Sound
  <2>2. "latency" \in DOMAIN stored
    BY <2>1 DEF TableInv, Params
  <2>3. CASE p # "latency" \/ stored[p] = v
    <3>1. stored'["latency"] = stored["latency"]
      BY <1>2, <2>2, <2>3 DEF Stored
    <3>2. restarted
      BY <3>1 DEF LatencyNoticed
    <3> QED BY <1>2, <2>1, <2>3, <3>2 DEF Restarts
  <2>4. CASE p = "latency" /\ stored[p] # v
    BY <1>2, <2>1, <2>4 DEF Restarts
  <2> QED BY <2>3, <2>4
<1>3. CASE Activate
  BY <1>3 DEF Activate, LatencyNoticed
<1>4. CASE Deactivate
  BY <1>4 DEF Deactivate, LatencyNoticed
<1>5. ASSUME NEW e, NEW flushed, NEW playing, Deliver(e, flushed, playing)
      PROVE  LatencyNoticed'
  <2>1. UNCHANGED <<flavor, active, baseline>>
    BY <1>5 DEF Deliver
  <2>2. CASE UNCHANGED <<stored, restarted>>
    BY <1>1, <2>1, <2>2
  <2>3. CASE AppliedValue(e, flushed)
    <3>1. Stored(e.id, e.value)
      BY <2>3 DEF AppliedValue, Stored
    <3>2. /\ restarted => restarted'
          /\ Restarts(e.id) /\ stored[e.id] # e.value => restarted'
      BY <2>3 DEF AppliedValue
    <3> QED BY <1>2, <2>1, <3>1, <3>2
  <2> QED BY <1>5, <2>2, <2>3, DeliveryStores
<1>6. ASSUME NEW p \in flavor.meters, NEW v, MoveMeter(p, v)  PROVE LatencyNoticed'
  <2>1. Stored(p, v) /\ UNCHANGED <<flavor, active, baseline, restarted>>
    BY <1>6 DEF MoveMeter, Stored
  <2>2. flavor.restarting # {} => p # "latency"
    <3>1. /\ flavor.meters \cap ToSet(flavor.saved) = {}
          /\ flavor.restarting # {} => "latency" \in ToSet(flavor.saved)
      BY SoundFlavor DEF Sound
    <3> QED BY <3>1
  <2> QED BY <1>2, <2>1, <2>2 DEF LatencyNoticed
<1>7. ASSUME NEW p, NEW v, Assign(p, v), UNCHANGED <<flavor, active, restarted>>
      PROVE  LatencyNoticed'
  <2>1. Stored(p, v)
    BY <1>7 DEF Assign, Stored
  <2>2. CASE Restarts(p)
    <3>1. baseline' = v
      BY <1>7, <2>2 DEF Assign
    <3>2. flavor.restarting # {} => p = "latency" /\ "latency" \in DOMAIN stored
      BY <2>2, SoundFlavor DEF Restarts, Sound, TableInv, Params
    <3> QED BY <1>7, <2>1, <3>1, <3>2 DEF LatencyNoticed, Stored
  <2>3. CASE ~Restarts(p)
    <3>1. baseline' = baseline
      BY <1>7, <2>3 DEF Assign
    <3> QED BY <1>2, <1>7, <2>1, <2>3, <3>1
  <2> QED BY <2>2, <2>3
<1>8. CASE StoreNext
  <2>1. PICK p, v : Assign(p, v)
    BY <1>8 DEF StoreNext
  <2> QED BY <1>7, <1>8, <2>1 DEF StoreNext
<1>9. ASSUME NEW words, LoadWords(words)  PROVE LatencyNoticed'
  BY <1>1, <1>7, <1>9, LoadStores DEF LoadWords
<1>10. CASE SaveBegin \/ Gather \/ Rescan
  BY <1>1, <1>10 DEF SaveBegin, Gather, Rescan
<1>11. ASSUME NEW words, SaveWords(words)  PROVE LatencyNoticed'
  BY <1>1, <1>11 DEF SaveWords
<1>12. ASSUME NEW source, LoadBegin(source)  PROVE LatencyNoticed'
  BY <1>1, <1>12 DEF LoadBegin
<1>13. ASSUME NEW location, FromLocation(location)  PROVE LatencyNoticed'
  BY <1>1, <1>13 DEF FromLocation
<1>14. ASSUME NEW requests, ApplyConfiguration(requests)  PROVE LatencyNoticed'
  BY <1>1, <1>14 DEF ApplyConfiguration
<1>15. ASSUME NEW n, Select(n)  PROVE LatencyNoticed'
  BY <1>1, <1>15 DEF Select
<1>16. CASE UNCHANGED streamsVars
  BY <1>1, <1>16 DEF streamsVars
<1> QED
  BY <1>3, <1>4, <1>5, <1>6, <1>8, <1>9, <1>10, <1>11, <1>12, <1>13, <1>14, <1>15,
     <1>16 DEF StreamsNext

(* Of every flavor that declares a latency: while active it is the one the *)
(* host was told, or a restart has been asked for.                         *)
THEOREM LatencyIsNoticed == StreamsSpec => []LatencyNoticed
<1>1. StreamsInit => LatencyNoticed
  BY DEF StreamsInit, LatencyNoticed
<1> QED
  BY <1>1, TableInvInit, TableInvStep, LatencyStep, PTL DEF StreamsSpec
-----------------------------------------------------------------------------
(* What a save has taken and what a load may set.                          *)

(* A sequence, whatever its elements are.                                  *)
IsSeq(s) == Len(s) \in Nat /\ s = [n \in 1..Len(s) |-> s[n]]

Saved == Len(flavor.saved)

(* The n-th item of a state whose values were had within a window.         *)
GoodItem(n, item, w) ==
  /\ item.is = ItemKind(n)
  /\ item.is = "count" => item.of = Saved
  /\ item.is = "id" => item.of = flavor.saved[ValueIndex(n)]
  /\ item.is = "value" => item.of \in w[flavor.saved[ValueIndex(n)]]
GoodItems(items, w) ==
  IsSeq(items) /\ \A n \in 1..Len(items) : GoodItem(n, items[n], w)

(* The values a save that is about to write the n-th item has loaded.      *)
LoadedBefore(n) ==
  IF ~flavor.tagged THEN Saved ELSE IF n < 5 THEN 0 ELSE (n - 3) \div 2

SaveShape ==
  /\ job = [op |-> job.op, item |-> job.item, got |-> job.got, out |-> job.out,
            locals |-> job.locals, window |-> job.window]
  /\ job.window = [p \in Params(flavor) |-> job.window[p]]

SaveInv ==
  job.op \in {"gather", "save"} =>
    /\ SaveShape
    /\ \A p \in ToSet(flavor.saved) : stored[p] \in job.window[p]
    /\ IsSeq(job.locals) /\ Len(job.locals) <= Saved
    /\ \A k \in 1..Len(job.locals) : job.locals[k] \in job.window[flavor.saved[k]]
    /\ GoodItems(job.out, job.window) /\ job.item = Len(job.out) + 1
    /\ job.op = "gather" =>
         ~flavor.tagged /\ job.out = <<>> /\ Len(job.locals) < Saved
    /\ job.op = "save" =>
         job.item <= ItemCount(Saved) /\ Len(job.locals) = LoadedBefore(job.item)

BlobInv ==
  blob # <<>> => GoodItems(blob, window) /\ Len(blob) = ItemCount(Saved)

(* The streams a load may be given: of another product or format; with     *)
(* ids, whose settable ones have an expected value and which name every    *)
(* parameter; without.                                                     *)
Foreign(items) ==
  /\ IsSeq(items) /\ Len(items) >= 2
  /\ items[1].is = "magic" /\ items[2].is = "version"
  /\ ~Wanted(items[1]) \/ ~Wanted(items[2])
Tagged(items, expect) ==
  /\ IsSeq(items) /\ items[3].of \in Nat \ {0} /\ Len(items) = 3 + 2 * items[3].of
  /\ items[1].is = "magic" /\ items[2].is = "version" /\ items[3].is = "count"
  /\ \A k \in 1..items[3].of :
       /\ items[2 * k + 2].is = "id" /\ items[2 * k + 3].is = "value"
       /\ Settable(items[2 * k + 2].of) =>
            items[2 * k + 3].of \in expect[items[2 * k + 2].of]
  /\ \A p \in ToSet(flavor.saved) :
       \E k \in 1..items[3].of : items[2 * k + 2].of = p
Plain(items, expect) ==
  /\ IsSeq(items) /\ 2 <= Len(items) /\ Len(items) <= 2 + Saved
  /\ items[1].is = "magic" /\ items[2].is = "version"
  /\ \A k \in 1..Len(items) - 2 :
       items[k + 2].is = "value" /\ items[k + 2].of \in expect[flavor.saved[k]]

Kept(p) == stored[p] = origin.before[p]
AsExpected(p) == p \notin touched => stored[p] \in origin.expect[p]

LoadShape ==
  job = [op |-> job.op, item |-> job.item, got |-> job.got, items |-> job.items,
         count |-> job.count, id |-> job.id, locals |-> job.locals]

ForeignInv ==
  /\ Foreign(job.items) /\ job.item \in 1..2 /\ job.count = Saved
  /\ job.item = 2 => Wanted(job.items[1])
  /\ \A p \in Params(flavor) \ touched : Kept(p)

TaggedInv ==
  /\ Tagged(job.items, origin.expect) /\ job.item \in 1..Len(job.items)
  /\ job.count = IF job.item <= 3 THEN Saved ELSE job.items[3].of
  /\ \A k \in 1..job.items[3].of :
       /\ job.item = 2 * k + 3 => job.id = job.items[2 * k + 2].of
       /\ job.item > 2 * k + 3 /\ Settable(job.items[2 * k + 2].of) =>
            AsExpected(job.items[2 * k + 2].of)
  /\ \A p \in Params(flavor) \ touched : Kept(p) \/ AsExpected(p)

PlainInv ==
  /\ Plain(job.items, origin.expect)
  /\ job.item \in 1..ItemCount(Saved) /\ job.count = Saved
  /\ IsSeq(job.locals)
  /\ Len(job.locals) = IF job.item <= 3 THEN 0 ELSE job.item - 3
  /\ \A k \in 1..Len(job.locals) : job.locals[k] \in origin.expect[flavor.saved[k]]
  /\ \A p \in Params(flavor) \ touched : Kept(p)

LoadInv ==
  job.op = "load" =>
    /\ LoadShape
    /\ IF origin.kind = "foreign" THEN ForeignInv
       ELSE IF flavor.tagged THEN TaggedInv ELSE PlainInv

StoreInv ==
  job.op = "store" =>
    /\ job = [op |-> job.op, locals |-> job.locals, at |-> job.at,
           rescan |-> job.rescan]
    /\ ~flavor.tagged /\ origin.kind # "foreign" /\ job.at \in 1..Saved
    /\ \A k \in 1..Saved : job.locals[k] \in origin.expect[flavor.saved[k]]
    /\ \A k \in 1..job.at - 1 : AsExpected(flavor.saved[k])

RescanInv ==
  job.op = "rescan" =>
    origin.kind # "foreign" /\ \A p \in ToSet(flavor.saved) : AsExpected(p)

OriginInv ==
  /\ job = Idle \/ job.op \in {"gather", "save", "load", "store", "rescan"}
  /\ job.op \in {"load", "store", "rescan"} <=> origin.outcome = "running"
  /\ origin.outcome # "none" =>
       origin = [kind |-> origin.kind, outcome |-> origin.outcome,
                 before |-> origin.before, expect |-> origin.expect]

UnseenInv ==
  unseen # {} => job.op = "rescan" \/ (job.op = "store" /\ job.rescan)
-----------------------------------------------------------------------------
(* The items of a stream: three of a header and two for each value, or two *)
(* and one.                                                                *)

LEMMA Halves ==
  \A n \in Nat : n >= 4 => \E k \in Nat \ {0} : n = 2 * k + 2 \/ n = 2 * k + 3
<1> TAKE n \in Nat
<1> HAVE n >= 4
<1> DEFINE k == (n - 2) \div 2
<1>1. k \in Nat \ {0} /\ (n = 2 * k + 2 \/ n = 2 * k + 3)
  OBVIOUS
<1> QED BY <1>1

(* The first two items, of any stream.                                     *)
LEMMA HeaderKinds ==
  ASSUME flavor.tagged \in BOOLEAN
  PROVE  /\ ItemKind(1) = "magic" /\ ItemKind(2) = "version"
         /\ flavor.tagged => ItemKind(3) = "count"
  BY DEF ItemKind

(* The kinds of a stream with ids: a count third, then pairs.              *)
LEMMA TaggedKinds ==
  ASSUME flavor.tagged, NEW k \in Nat \ {0}
  PROVE  /\ ItemKind(2 * k + 2) = "id" /\ ItemKind(2 * k + 3) = "value"
         /\ ValueIndex(2 * k + 2) = k /\ ValueIndex(2 * k + 3) = k
         /\ LoadedBefore(2 * k + 2) = k - 1 /\ LoadedBefore(2 * k + 3) = k
         /\ LoadedBefore(1) = 0 /\ LoadedBefore(2) = 0 /\ LoadedBefore(3) = 0
         /\ LoadedBefore(4) = 0
<1>1. ItemKind(2 * k + 2) = "id"
  <2>1. /\ (2 * k + 2) % 2 = 0 /\ 2 * k + 2 > 3
        /\ 2 * k + 2 # 1 /\ 2 * k + 2 # 2 /\ 2 * k + 2 # 3
    OBVIOUS
  <2> QED BY <2>1 DEF ItemKind
<1>2. ItemKind(2 * k + 3) = "value"
  <2>1. /\ (2 * k + 3) % 2 # 0
        /\ 2 * k + 3 # 1 /\ 2 * k + 3 # 2 /\ 2 * k + 3 # 3
    OBVIOUS
  <2> QED BY <2>1 DEF ItemKind
<1>3. ValueIndex(2 * k + 2) = k /\ ValueIndex(2 * k + 3) = k
  BY DEF ValueIndex
<1>4. /\ LoadedBefore(2 * k + 2) = k - 1 /\ LoadedBefore(2 * k + 3) = k
      /\ LoadedBefore(1) = 0 /\ LoadedBefore(2) = 0 /\ LoadedBefore(3) = 0
      /\ LoadedBefore(4) = 0
  BY DEF LoadedBefore
<1> QED BY <1>1, <1>2, <1>3, <1>4

(* The kinds of a stream without ids: values from the third item on.       *)
LEMMA PlainKinds ==
  ASSUME ~flavor.tagged, NEW k \in Nat \ {0}
  PROVE  ItemKind(k + 2) = "value" /\ ValueIndex(k + 2) = k
<1>1. k + 2 # 1 /\ k + 2 # 2
  OBVIOUS
<1> QED BY <1>1 DEF ItemKind, ValueIndex

(* How many items a number of values makes.                                *)
LEMMA Counts ==
  ASSUME flavor.tagged \in BOOLEAN, NEW n \in Nat
  PROVE  ItemCount(n) = IF flavor.tagged THEN 3 + 2 * n ELSE 2 + n
  BY DEF ItemCount

(* Sequences, whatever their elements.                                     *)
LEMMA SeqIsSeq ==
  ASSUME NEW S, NEW s \in Seq(S)
  PROVE  IsSeq(s)
  BY DEF IsSeq

LEMMA IsSeqInSeq ==
  ASSUME NEW s, IsSeq(s)
  PROVE  \E S : s \in Seq(S)
<1> DEFINE S == {s[n] : n \in 1..Len(s)}
<1>1. s \in [1..Len(s) -> S] /\ Len(s) \in Nat
  BY DEF IsSeq
<1>2. s \in Seq(S)
  BY <1>1
<1> HIDE DEF S
<1> QED BY <1>2

(* An item appended leaves the ones before it alone.                       *)
LEMMA Appended ==
  ASSUME NEW s, NEW e, IsSeq(s)
  PROVE  /\ IsSeq(Append(s, e)) /\ Len(Append(s, e)) = Len(s) + 1
         /\ \A n \in 1..Len(s) : Append(s, e)[n] = s[n]
         /\ Append(s, e)[Len(s) + 1] = e
<1>1. PICK S : s \in Seq(S)
  BY IsSeqInSeq, Zenon
<1>2. s \in Seq(S \cup {e})
  BY <1>1
<1>3. e \in S \cup {e}
  OBVIOUS
<1>4. /\ Append(s, e) \in Seq(S \cup {e}) /\ Len(Append(s, e)) = Len(s) + 1
      /\ \A n \in 1..Len(s) : Append(s, e)[n] = s[n]
      /\ Append(s, e)[Len(s) + 1] = e
  BY <1>2, <1>3, AppendProperties
<1> QED BY <1>4, SeqIsSeq

LEMMA EmptyIsSeq == IsSeq(<<>>) /\ Len(<<>>) = 0
<1>1. <<>> \in Seq({})
  OBVIOUS
<1> QED BY <1>1, SeqIsSeq

(* What the saved parameters of a flavor are.                              *)
LEMMA SavedSound ==
  ASSUME TableInv
  PROVE  /\ Saved \in Nat \ {0} /\ flavor.tagged \in BOOLEAN
         /\ \A k \in 1..Saved : flavor.saved[k] \in ToSet(flavor.saved)
         /\ \A p \in ToSet(flavor.saved) : \E k \in 1..Saved : p = flavor.saved[k]
         /\ ToSet(flavor.saved) \subseteq Params(flavor)
         /\ ToSet(flavor.saved) = {p \in Params(flavor) : Settable(p)}
         /\ "unknown" \notin Params(flavor) /\ DOMAIN stored = Params(flavor)
<1>1. Sound(flavor)
  BY SoundFlavor
<1>2. flavor.saved \in Seq(Params(flavor)) /\ flavor.saved # <<>>
  BY <1>1 DEF Sound
<1>3. Saved \in Nat \ {0}
  BY <1>2 DEF Saved
<1>4. /\ \A k \in 1..Saved : flavor.saved[k] \in ToSet(flavor.saved)
      /\ \A p \in ToSet(flavor.saved) : \E k \in 1..Saved : p = flavor.saved[k]
  BY <1>2, ToSetOf DEF Saved
<1>5. ToSet(flavor.saved) = {p \in Params(flavor) : Settable(p)}
  BY <1>1 DEF Sound, Params, Settable
<1>6. flavor.tagged \in BOOLEAN /\ "unknown" \notin Params(flavor)
  BY <1>1 DEF Sound
<1>7. DOMAIN stored = Params(flavor)
  BY DEF TableInv
<1> QED BY <1>3, <1>4, <1>5, <1>6, <1>7
-----------------------------------------------------------------------------
(* A load that returned true restored what was saved and one that returned *)
(* false lost nothing.                                                     *)

StreamInv ==
  /\ TableInv /\ SaveInv /\ BlobInv /\ OriginInv
  /\ LoadInv /\ StoreInv /\ RescanInv /\ UnseenInv
  /\ LoadRestores /\ RefusedLoadKeeps

(* Before anything has happened there is nothing to agree on.              *)
LEMMA StreamInvInit == StreamsInit => StreamInv
<1> SUFFICES ASSUME StreamsInit PROVE StreamInv
  OBVIOUS
<1>1. /\ job = Idle /\ job.op = "idle" /\ unseen = {} /\ blob = <<>>
      /\ origin.kind = "none" /\ origin.outcome = "none"
  BY DEF StreamsInit, Idle
<1>2. TableInv
  BY TableInvInit
<1>3. SaveInv /\ BlobInv /\ OriginInv /\ LoadInv /\ StoreInv /\ RescanInv /\ UnseenInv
  BY <1>1 DEF SaveInv, BlobInv, OriginInv, LoadInv, StoreInv, RescanInv, UnseenInv
<1>4. LoadRestores /\ RefusedLoadKeeps
  BY <1>1 DEF LoadRestores, RefusedLoadKeeps
<1> QED BY <1>2, <1>3, <1>4 DEF StreamInv

(* What leaves the parameters and the main thread alone.                   *)
LEMMA FrameStep ==
  ASSUME StreamInv, UNCHANGED <<flavor, stored, touched, mainVars>>
  PROVE  StreamInv'
<1> USE DEF mainVars, StreamInv, MainFree
<1>1. TableInv'
  BY DEF TableInv
<1>2. SaveInv'
  BY DEF SaveInv, SaveShape, IsSeq, Saved, GoodItems, GoodItem, ItemKind, ValueIndex,
         LoadedBefore, ItemCount
<1>3. BlobInv'
  BY DEF BlobInv, IsSeq, Saved, GoodItems, GoodItem, ItemKind, ValueIndex, ItemCount
<1>4. OriginInv' /\ UnseenInv'
  BY DEF OriginInv, UnseenInv
<1>5. LoadInv'
  <2>1. LoadShape' <=> LoadShape
    BY DEF LoadShape
  <2>2. ForeignInv' <=> ForeignInv
    BY DEF ForeignInv, Foreign, IsSeq, Wanted, Saved, Kept
  <2>3. TaggedInv' <=> TaggedInv
    BY DEF TaggedInv, Tagged, IsSeq, Settable, Saved, Kept, AsExpected
  <2>4. PlainInv' <=> PlainInv
    BY DEF PlainInv, Plain, IsSeq, Saved, Kept, ItemCount
  <2> QED BY <2>1, <2>2, <2>3, <2>4 DEF LoadInv
<1>6. StoreInv' /\ RescanInv'
  BY DEF StoreInv, RescanInv, Saved, AsExpected
<1>7. LoadRestores' /\ RefusedLoadKeeps'
  BY DEF LoadRestores, RefusedLoadKeeps
<1> QED BY <1>1, <1>2, <1>3, <1>4, <1>5, <1>6, <1>7

(* What sets a parameter besides the main thread: an event, and the meter  *)
(* of a block.  A save under way may see the value.                        *)
SetOutside(p, v) ==
  /\ p \in Params(flavor) /\ Stored(p, v) /\ touched' = touched \cup {p}
  /\ unseen' \subseteq unseen
  /\ UNCHANGED <<flavor, blob, window, origin>>
  /\ \/ job' = job /\ (job.op \in {"gather", "save"} => ~Settable(p))
     \/ /\ job.op \in {"gather", "save"} /\ Settable(p)
        /\ job' = [job EXCEPT !.window[p] = @ \cup {v}]

(* A value among the items of a state is one of a parameter that is saved. *)
LEMMA ValuePlace ==
  ASSUME TableInv, NEW n \in 1..ItemCount(Saved), ItemKind(n) = "value"
  PROVE  /\ ValueIndex(n) \in 1..Saved
         /\ flavor.saved[ValueIndex(n)] \in ToSet(flavor.saved)
<1>0. Saved \in Nat \ {0} /\ flavor.tagged \in BOOLEAN
  BY SavedSound
<1>1. ItemCount(Saved) = IF flavor.tagged THEN 3 + 2 * Saved ELSE 2 + Saved
  BY <1>0, Counts
<1>2. n \in Nat /\ n >= 3 /\ (flavor.tagged => n >= 4)
  BY <1>0, <1>1, HeaderKinds
<1>3. ValueIndex(n) \in 1..Saved
  <2>1. CASE flavor.tagged
    <3>1. PICK k \in Nat \ {0} : n = 2 * k + 2 \/ n = 2 * k + 3
      BY <1>2, <2>1, Halves
    <3>2. ValueIndex(n) = k
      BY <2>1, <3>1, TaggedKinds
    <3> QED BY <1>0, <1>1, <2>1, <3>1, <3>2
  <2>2. CASE ~flavor.tagged
    BY <1>0, <1>1, <1>2, <2>2 DEF ValueIndex
  <2> QED BY <2>1, <2>2
<1> QED BY <1>3, SavedSound

(* A value that was good in a window is good in a wider one.               *)
LEMMA WiderWindow ==
  ASSUME TableInv, NEW items, NEW w, NEW u, GoodItems(items, w),
         Len(items) <= ItemCount(Saved),
         \A p \in ToSet(flavor.saved) : w[p] \subseteq u[p]
  PROVE  GoodItems(items, u)
<1>1. \A n \in 1..Len(items) : n \in 1..ItemCount(Saved)
  BY SavedSound, Counts DEF GoodItems, IsSeq
<1>2. ASSUME NEW n \in 1..Len(items), items[n].is = "value"
      PROVE  items[n].of \in u[flavor.saved[ValueIndex(n)]]
  BY <1>1, <1>2, ValuePlace DEF GoodItems, GoodItem
<1> QED BY <1>2 DEF GoodItems, GoodItem

LEMMA SameItems ==
  ASSUME flavor' = flavor, NEW items, NEW w
  PROVE  GoodItems(items, w)' <=> GoodItems(items, w)
  BY DEF GoodItems, GoodItem, ItemKind, ValueIndex, Saved

(* An event during a save: the window takes its value in.                  *)
LEMMA OutsideSaves ==
  ASSUME StreamInv, NEW p, NEW v, SetOutside(p, v)
  PROVE  SaveInv'
<1> USE DEF StreamInv
<1>1. CASE job' = job /\ (job.op \in {"gather", "save"} => ~Settable(p))
  <2> SUFFICES ASSUME job.op \in {"gather", "save"} PROVE SaveInv'
    BY <1>1 DEF SaveInv
  <2>1. p \notin ToSet(flavor.saved)
    BY <1>1, SavedSound
  <2>2. \A q \in ToSet(flavor.saved) : stored'[q] = stored[q]
    BY <2>1, SavedSound DEF SetOutside, Stored
  <2> QED
    BY <1>1, <2>2 DEF SetOutside, SaveInv, SaveShape, IsSeq, Saved, GoodItems, GoodItem,
       ItemKind, ValueIndex, LoadedBefore, ItemCount
<1>2. CASE /\ job.op \in {"gather", "save"} /\ Settable(p)
           /\ job' = [job EXCEPT !.window[p] = @ \cup {v}]
  <2>1. SaveShape /\ Len(job.out) + 1 = job.item /\ IsSeq(job.out)
    BY <1>2 DEF SaveInv, GoodItems
  <2>2. /\ job'.op = job.op /\ job'.item = job.item /\ job'.out = job.out
        /\ job'.locals = job.locals /\ job'.got = job.got
        /\ job'.window = [job.window EXCEPT ![p] = @ \cup {v}]
        /\ job' = [op |-> job'.op, item |-> job'.item, got |-> job'.got,
               out |-> job'.out,
                   locals |-> job'.locals, window |-> job'.window]
    BY <1>2, <2>1 DEF SaveShape
  <2>3. DOMAIN job.window = Params(flavor)
    BY <2>1 DEF SaveShape
  <2>4. /\ job'.window = [q \in Params(flavor) |-> job'.window[q]]
        /\ \A q \in Params(flavor) : job.window[q] \subseteq job'.window[q]
        /\ p \in Params(flavor) => v \in job'.window[p]
    BY <2>2, <2>3
  <2>5. SaveShape'
    BY <2>2, <2>4 DEF SaveShape, SetOutside
  <2>6. \A q \in ToSet(flavor.saved) : stored'[q] \in job'.window[q]
    BY <1>2, <2>4, SavedSound DEF SetOutside, Stored, SaveInv
  <2>7. \A k \in 1..Len(job.locals) : job.locals[k] \in job'.window[flavor.saved[k]]
    <3> TAKE k \in 1..Len(job.locals)
    <3>1. job.locals[k] \in job.window[flavor.saved[k]] /\ k \in 1..Saved
      BY <1>2, SavedSound DEF SaveInv, IsSeq
    <3> QED BY <2>4, <3>1, SavedSound
  <2>8. Len(job.out) <= ItemCount(Saved)
    <3>1. CASE job.op = "save"
      BY <1>2, <2>1, <3>1, SavedSound, Counts DEF SaveInv, IsSeq
    <3>2. CASE job.op = "gather"
      BY <1>2, <3>2, SavedSound, Counts DEF SaveInv
    <3> QED BY <1>2, <3>1, <3>2
  <2>9. GoodItems(job.out, job'.window)
    BY <1>2, <2>4, <2>8, WiderWindow, SavedSound DEF SaveInv
  <2>10. GoodItems(job.out, job.window)'
    BY <2>2, <2>9 DEF SetOutside, GoodItems, GoodItem, ItemKind, ValueIndex, IsSeq,
       Saved
  <2>11. UNCHANGED <<Saved, LoadedBefore(job.item), ItemCount(Saved)>>
    BY <2>2 DEF SetOutside, Saved, LoadedBefore, ItemCount
  <2> QED
    BY <1>2, <2>2, <2>5, <2>6, <2>7, <2>10, <2>11 DEF SaveInv, SetOutside, IsSeq
<1> QED BY <1>1, <1>2 DEF SetOutside

(* A value set by an event or a meter disturbs no load: it is touched.     *)
LEMMA OutsideStep ==
  ASSUME StreamInv, NEW p, NEW v, SetOutside(p, v)
  PROVE  StreamInv'
<1> USE DEF StreamInv
<1>1. UNCHANGED <<flavor, blob, window, origin>> /\ touched' = touched \cup {p}
  BY DEF SetOutside
<1>2. \A q \in Params(flavor) : q \notin touched' =>
          q \notin touched /\ stored'[q] = stored[q]
  BY <1>1, SavedSound DEF SetOutside, Stored
<1>3. \/ job' = job
      \/ job.op \in {"gather", "save"} /\ job'.op = job.op
  <2>1. job.op \in {"gather", "save"} => SaveShape
    BY DEF SaveInv
  <2> QED BY <2>1 DEF SetOutside, SaveShape
<1>4. TableInv'
  BY <1>1, StoringKeepsTable DEF SetOutside
<1>5. SaveInv'
  BY OutsideSaves
<1>6. BlobInv'
  BY <1>1 DEF BlobInv, IsSeq, Saved, GoodItems, GoodItem, ItemKind, ValueIndex,
     ItemCount
<1>7. OriginInv' /\ UnseenInv'
  <2>1. unseen' \subseteq unseen
    BY DEF SetOutside
  <2>2. CASE job' = job
    BY <1>1, <2>1, <2>2 DEF OriginInv, UnseenInv
  <2>3. CASE job.op \in {"gather", "save"} /\ job'.op = job.op
    BY <1>1, <2>1, <2>3 DEF OriginInv, UnseenInv
  <2> QED BY <1>3, <2>2, <2>3
<1>8. \A q \in Params(flavor) : AsExpected(q) => AsExpected(q)'
  BY <1>1, <1>2 DEF AsExpected
<1>9. \A q \in Params(flavor) \ touched' : Kept(q) => Kept(q)'
  BY <1>1, <1>2 DEF Kept
<1>10. \A q \in ToSet(flavor.saved) : q \in Params(flavor)
  BY SavedSound
<1>11. LoadInv'
  <2> SUFFICES ASSUME job'.op = "load" PROVE LoadInv'
    BY DEF LoadInv
  <2>1. job' = job /\ job.op = "load"
    BY <1>3
  <2>2. LoadShape' <=> LoadShape
    BY <2>1 DEF LoadShape
  <2>3. ForeignInv => ForeignInv'
    BY <1>1, <1>9, <2>1 DEF ForeignInv, Foreign, IsSeq, Wanted, Saved
  <2>4. TaggedInv => TaggedInv'
    <3> SUFFICES ASSUME TaggedInv PROVE TaggedInv'
      OBVIOUS
    <3>1. Tagged(job.items, origin.expect)'
      BY <1>1, <2>1 DEF TaggedInv, Tagged, IsSeq, Settable
    <3>2. /\ job'.item \in 1..Len(job'.items)
          /\ job'.count = IF job'.item <= 3 THEN Saved' ELSE job'.items[3].of
      BY <1>1, <2>1 DEF TaggedInv, Saved
    <3>3. ASSUME NEW k \in 1..job.items[3].of
          PROVE  /\ job.item = 2 * k + 3 => job.id = job.items[2 * k + 2].of
                 /\ job.item > 2 * k + 3 /\ Settable(job.items[2 * k + 2].of)' =>
                      AsExpected(job.items[2 * k + 2].of)'
      BY <1>1, <1>8, <2>1 DEF TaggedInv, Settable
    <3>4. \A q \in Params(flavor) \ touched' : Kept(q)' \/ AsExpected(q)'
      BY <1>1, <1>8, <1>9 DEF TaggedInv
    <3> QED BY <1>1, <2>1, <3>1, <3>2, <3>3, <3>4 DEF TaggedInv
  <2>5. PlainInv => PlainInv'
    BY <1>1, <1>9, <2>1 DEF PlainInv, Plain, IsSeq, Saved, ItemCount
  <2> QED BY <1>1, <2>1, <2>2, <2>3, <2>4, <2>5 DEF LoadInv
<1>12. StoreInv'
  <2> SUFFICES ASSUME job'.op = "store" PROVE StoreInv'
    BY DEF StoreInv
  <2>1. job' = job /\ job.op = "store"
    BY <1>3
  <2>2. \A k \in 1..job.at - 1 : AsExpected(flavor.saved[k])'
    <3> TAKE k \in 1..job.at - 1
    <3>1. AsExpected(flavor.saved[k]) /\ k \in 1..Saved
      BY <2>1, SavedSound DEF StoreInv
    <3>2. flavor.saved[k] \in Params(flavor)
      BY <3>1, SavedSound
    <3> QED BY <1>1, <1>8, <3>1, <3>2 DEF AsExpected
  <2> QED BY <1>1, <2>1, <2>2 DEF StoreInv, Saved, AsExpected
<1>13. RescanInv'
  BY <1>1, <1>3, <1>8, <1>10 DEF RescanInv
<1>14. LoadRestores'
  <2>1. MainFree' => MainFree
    <3>1. CASE job' = job
      BY <3>1 DEF MainFree
    <3>2. CASE job.op \in {"gather", "save"} /\ job'.op = job.op
      BY <3>2 DEF MainFree, Idle
    <3> QED BY <1>3, <3>1, <3>2
  <2> QED BY <1>1, <1>2, <1>10, <2>1 DEF LoadRestores, SetOutside
<1>15. RefusedLoadKeeps'
  <2>1. \A q \in Params(flavor) \ touched' : stored'[q] = stored[q] /\ q \notin touched
    BY <1>2
  <2>2. flavor.meters \subseteq Params(flavor)
    BY DEF Params
  <2> QED BY <1>1, <2>1, <2>2 DEF RefusedLoadKeeps
<1> QED
  BY <1>4, <1>5, <1>6, <1>7, <1>11, <1>12, <1>13, <1>14, <1>15

(* The steps of a save.                                                    *)
LEMMA SaveBeginStep ==
  ASSUME StreamInv, SaveBegin
  PROVE  SaveInv'
<1> USE DEF StreamInv
<1>1. /\ job'.op = IF flavor.tagged THEN "save" ELSE "gather"
      /\ job'.item = 1 /\ job'.out = <<>> /\ job'.locals = <<>>
      /\ job'.window = [p \in Params(flavor) |-> {stored[p]}]
      /\ SaveShape' /\ UNCHANGED <<flavor, stored>>
  BY DEF SaveBegin, SaveShape
<1>2. Saved' = Saved /\ Saved \in Nat \ {0} /\ flavor.tagged \in BOOLEAN
  BY <1>1, SavedSound DEF Saved
<1>3. ItemCount(Saved)' = ItemCount(Saved) /\ ItemCount(Saved) \in Nat \ 0..2
  BY <1>1, <1>2, Counts DEF ItemCount, Saved
<1>4. LoadedBefore(job.item)' = IF flavor.tagged THEN 0 ELSE Saved
  BY <1>1, <1>2 DEF LoadedBefore
<1>5. \A p \in ToSet(flavor.saved) : stored'[p] \in job'.window[p]
  BY <1>1, SavedSound
<1>6. GoodItems(job.out, job.window)' /\ IsSeq(job'.locals)
  BY <1>1, EmptyIsSeq DEF GoodItems, IsSeq
<1>7. /\ IsSeq(job.locals)' /\ Len(job'.locals) <= Saved'
      /\ \A k \in 1..Len(job'.locals) : job'.locals[k] \in job'.window[flavor'.saved[k]]
      /\ job'.item = Len(job'.out) + 1
  BY <1>1, <1>2, EmptyIsSeq DEF IsSeq
<1>8. /\ job'.op = "gather" => ~flavor'.tagged /\ job'.out = <<>>
             /\ Len(job'.locals) < Saved'
      /\ job'.op = "save" => /\ job'.item <= ItemCount(Saved)'
                             /\ Len(job'.locals) = LoadedBefore(job.item)'
  BY <1>1, <1>2, <1>3, <1>4, EmptyIsSeq
<1>9. \A p \in ToSet(flavor'.saved) : stored'[p] \in job'.window[p]
  BY <1>1, <1>5
<1> QED
  BY <1>1, <1>6, <1>7, <1>8, <1>9 DEF SaveInv

(* stateSave() of a flavor without ids loads its next value.               *)
LEMMA GatherStep ==
  ASSUME StreamInv, Gather
  PROVE  SaveInv'
<1> USE DEF StreamInv
<1> DEFINE p == flavor.saved[Len(job.locals) + 1]
           locals == Append(job.locals, stored[p])
<1>1. /\ job.op = "gather" /\ UNCHANGED <<flavor, stored>>
      /\ job' = [job EXCEPT !.locals = locals,
                            !.op = IF Len(locals) = Len(flavor.saved) THEN "save"
                                ELSE @]
  BY DEF Gather
<1>2. /\ SaveShape /\ ~flavor.tagged /\ job.out = <<>> /\ Len(job.locals) < Saved
      /\ IsSeq(job.locals) /\ job.item = 1
  BY <1>1, EmptyIsSeq DEF SaveInv
<1>3. /\ job'.op = IF Len(locals) = Saved THEN "save" ELSE "gather"
      /\ job'.item = 1 /\ job'.out = <<>> /\ job'.window = job.window
      /\ job'.locals = locals /\ SaveShape'
  BY <1>1, <1>2 DEF SaveShape, Saved
<1>4. /\ IsSeq(locals) /\ Len(locals) = Len(job.locals) + 1
      /\ \A n \in 1..Len(job.locals) : locals[n] = job.locals[n]
      /\ locals[Len(job.locals) + 1] = stored[p]
  BY <1>2, Appended
<1> HIDE DEF locals
<1>5. Len(job.locals) + 1 \in 1..Saved /\ Len(job.locals) \in Nat
  BY <1>2, SavedSound DEF IsSeq
<1>6. stored[p] \in job.window[p]
  BY <1>1, <1>5, SavedSound DEF SaveInv
<1>7. \A k \in 1..Len(locals) : locals[k] \in job.window[flavor.saved[k]]
  BY <1>1, <1>4, <1>5, <1>6 DEF SaveInv
<1>8. /\ Saved' = Saved /\ Saved \in Nat \ {0} /\ LoadedBefore(job.item)' = Saved
      /\ ItemCount(Saved)' = ItemCount(Saved) /\ ItemCount(Saved) \in Nat \ 0..2
  BY <1>1, <1>2, <1>3, SavedSound DEF Saved, LoadedBefore, ItemCount
<1>9. GoodItems(job.out, job.window)' /\ Len(job'.out) + 1 = job'.item
  BY <1>3, EmptyIsSeq DEF GoodItems, IsSeq
<1>10. \A q \in ToSet(flavor.saved) : stored'[q] \in job'.window[q]
  BY <1>1, <1>3 DEF SaveInv
<1>11. Len(locals) <= Saved /\ (Len(locals) # Saved => Len(locals) < Saved)
  BY <1>4, <1>5, <1>8
<1>12. /\ IsSeq(job.locals)' /\ Len(job'.locals) <= Saved'
       /\ \A k \in 1..Len(job'.locals) :
              job'.locals[k] \in job'.window[flavor'.saved[k]]
       /\ job'.item = Len(job'.out) + 1
       /\ \A q \in ToSet(flavor'.saved) : stored'[q] \in job'.window[q]
  BY <1>1, <1>3, <1>4, <1>7, <1>8, <1>9, <1>10, <1>11 DEF IsSeq
<1>13. /\ job'.op = "gather" => ~flavor'.tagged /\ job'.out = <<>>
              /\ Len(job'.locals) < Saved'
       /\ job'.op = "save" => /\ job'.item <= ItemCount(Saved)'
                              /\ Len(job'.locals) = LoadedBefore(job.item)'
  BY <1>1, <1>2, <1>3, <1>8, <1>11
<1> QED
  BY <1>3, <1>9, <1>12, <1>13 DEF SaveInv

(* The item written next is the one its place in the stream asks for.      *)
LEMMA ItemAtGood ==
  ASSUME NEW n, NEW locals, NEW w,
         ItemKind(n) = "value" =>
           locals[ValueIndex(n)] \in w[flavor.saved[ValueIndex(n)]]
  PROVE  GoodItem(n, ItemAt(n, locals), w)
<1>1. ItemAt(n, locals).is = ItemKind(n)
  BY DEF ItemAt, Item
<1>2. CASE ItemKind(n) = "id"
  <2>1. ItemAt(n, locals).of = flavor.saved[ValueIndex(n)]
    BY <1>2 DEF ItemAt, Item
  <2> QED BY <1>1, <1>2, <2>1 DEF GoodItem
<1>3. CASE ItemKind(n) = "value"
  <2>1. ItemAt(n, locals).of = locals[ValueIndex(n)]
    BY <1>3 DEF ItemAt, Item
  <2> QED BY <1>1, <1>3, <2>1 DEF GoodItem
<1>4. CASE ItemKind(n) = "count"
  <2>1. ItemAt(n, locals).of = Saved
    BY <1>4 DEF ItemAt, Item, Saved
  <2> QED BY <1>1, <1>4, <2>1 DEF GoodItem
<1> QED BY <1>1, <1>2, <1>3, <1>4 DEF GoodItem

LEMMA OneMoreItem ==
  ASSUME NEW items, NEW item, NEW w, GoodItems(items, w),
         GoodItem(Len(items) + 1, item, w)
  PROVE  GoodItems(Append(items, item), w) /\ Len(Append(items, item)) = Len(items) + 1
<1>1. /\ IsSeq(Append(items, item)) /\ Len(Append(items, item)) = Len(items) + 1
      /\ \A n \in 1..Len(items) : Append(items, item)[n] = items[n]
      /\ Append(items, item)[Len(items) + 1] = item
  BY Appended DEF GoodItems
<1>2. Len(items) \in Nat
  BY DEF GoodItems, IsSeq
<1>3. \A n \in 1..Len(items) + 1 : GoodItem(n, Append(items, item)[n], w)
  <2> TAKE n \in 1..Len(items) + 1
  <2>1. CASE n = Len(items) + 1
    BY <1>1, <2>1
  <2>2. CASE n \in 1..Len(items)
    BY <1>1, <2>2 DEF GoodItems
  <2> QED BY <1>2, <2>1, <2>2
<1> QED BY <1>1, <1>3 DEF GoodItems

(* What has been loaded when the next item is written.                     *)
LEMMA NextLocals ==
  ASSUME TableInv, SaveInv, job.op = "save", NEW locals, locals = LocalsAt(job.item)
  PROVE  /\ IsSeq(locals) /\ Len(locals) <= Saved
         /\ \A k \in 1..Len(locals) : locals[k] \in job.window[flavor.saved[k]]
         /\ job.item # ItemCount(Saved) => Len(locals) = LoadedBefore(job.item + 1)
         /\ ItemKind(job.item) = "value" => ValueIndex(job.item) \in 1..Len(locals)
         /\ job.item \in 1..ItemCount(Saved)
<1>0. /\ flavor.tagged \in BOOLEAN /\ Saved \in Nat \ {0}
      /\ ItemCount(Saved) = (IF flavor.tagged THEN 3 + 2 * Saved ELSE 2 + Saved)
      /\ ItemCount(Saved) \in Nat
  BY SavedSound, Counts
<1>1. /\ IsSeq(job.locals) /\ Len(job.locals) \in Nat /\ Len(job.locals) <= Saved
      /\ \A k \in 1..Len(job.locals) : job.locals[k] \in job.window[flavor.saved[k]]
      /\ \A p \in ToSet(flavor.saved) : stored[p] \in job.window[p]
      /\ Len(job.locals) = LoadedBefore(job.item)
      /\ job.item \in Nat \ {0} /\ job.item <= ItemCount(Saved)
  BY DEF SaveInv, GoodItems, IsSeq
<1>2. CASE ~flavor.tagged
  <2>1. locals = job.locals /\ LoadedBefore(job.item) = Saved
            /\ LoadedBefore(job.item + 1) = Saved
    BY <1>2 DEF LocalsAt, LoadedBefore
  <2>2. ItemKind(job.item) = "value" => ValueIndex(job.item) \in 1..Saved
    BY <1>0, <1>1, ValuePlace
  <2> QED BY <1>0, <1>1, <2>1, <2>2
<1>3. CASE flavor.tagged /\ job.item \in {1, 2, 3}
  <2>1. ItemKind(job.item) \in {"magic", "version", "count"}
    BY <1>3, HeaderKinds
  <2>2. locals = job.locals
    BY <2>1 DEF LocalsAt
  <2>3. LoadedBefore(job.item) = 0 /\ LoadedBefore(job.item + 1) = 0
    BY <1>3 DEF LoadedBefore
  <2> QED BY <1>0, <1>1, <2>1, <2>2, <2>3
<1>4. ASSUME flavor.tagged, NEW k \in Nat \ {0}, job.item = 2 * k + 2
      PROVE  /\ IsSeq(locals) /\ Len(locals) <= Saved
             /\ \A i \in 1..Len(locals) : locals[i] \in job.window[flavor.saved[i]]
             /\ Len(locals) = LoadedBefore(job.item + 1)
             /\ ItemKind(job.item) = "id"
  <2>1. /\ ItemKind(job.item) = "id" /\ ValueIndex(job.item) = k
        /\ LoadedBefore(job.item) = k - 1 /\ LoadedBefore(job.item + 1) = k
    <3>1. job.item + 1 = 2 * k + 3
      BY <1>4
    <3> QED BY <1>4, <3>1, TaggedKinds
  <2>2. locals = Append(job.locals, stored[flavor.saved[k]])
    BY <1>4, <2>1 DEF LocalsAt
  <2>3. /\ IsSeq(locals) /\ Len(locals) = Len(job.locals) + 1
        /\ \A i \in 1..Len(job.locals) : locals[i] = job.locals[i]
        /\ locals[Len(job.locals) + 1] = stored[flavor.saved[k]]
    BY <1>1, <2>2, Appended
  <2>4. k \in 1..Saved /\ Len(locals) = k /\ Len(job.locals) = k - 1
    BY <1>0, <1>1, <1>4, <2>1, <2>3
  <2>5. stored[flavor.saved[k]] \in job.window[flavor.saved[k]]
    BY <1>1, <2>4, SavedSound
  <2>6. \A i \in 1..Len(locals) : locals[i] \in job.window[flavor.saved[i]]
    <3> TAKE i \in 1..Len(locals)
    <3>1. CASE i = k
      BY <2>3, <2>4, <2>5, <3>1
    <3>2. CASE i \in 1..Len(job.locals)
      BY <1>1, <2>3, <3>2
    <3> QED BY <2>4, <3>1, <3>2
  <2> QED BY <2>1, <2>3, <2>4, <2>6
<1>5. ASSUME flavor.tagged, NEW k \in Nat \ {0}, job.item = 2 * k + 3
      PROVE  /\ locals = job.locals /\ Len(locals) = LoadedBefore(job.item + 1)
             /\ ItemKind(job.item) = "value" /\ ValueIndex(job.item) = Len(locals)
             /\ Len(locals) = k
  <2>1. /\ ItemKind(job.item) = "value" /\ ValueIndex(job.item) = k
        /\ LoadedBefore(job.item) = k
    BY <1>5, TaggedKinds
  <2>2. LoadedBefore(job.item + 1) = k
    <3>1. job.item + 1 = 2 * (k + 1) + 2 /\ k + 1 \in Nat \ {0} /\ (k + 1) - 1 = k
      BY <1>5
    <3>2. LoadedBefore(2 * (k + 1) + 2) = (k + 1) - 1
      BY <1>5, <3>1, TaggedKinds
    <3> QED BY <3>1, <3>2
  <2>3. locals = job.locals
    BY <2>1 DEF LocalsAt
  <2> QED BY <1>1, <2>1, <2>2, <2>3
<1>6. flavor.tagged /\ job.item \notin {1, 2, 3} =>
        \E k \in Nat \ {0} : job.item = 2 * k + 2 \/ job.item = 2 * k + 3
  <2>1. job.item \notin {1, 2, 3} => job.item >= 4
    BY <1>1
  <2> QED BY <1>1, <2>1, Halves
<1>7. CASE flavor.tagged /\ job.item \notin {1, 2, 3}
  <2>1. PICK k \in Nat \ {0} : job.item = 2 * k + 2 \/ job.item = 2 * k + 3
    BY <1>6, <1>7
  <2>2. CASE job.item = 2 * k + 2
    <3>1. ItemKind(job.item) # "value"
      BY <1>4, <1>7, <2>2
    <3> QED BY <1>0, <1>1, <1>4, <1>7, <2>2, <3>1
  <2>3. CASE job.item = 2 * k + 3
    <3>1. Len(locals) \in 1..Len(locals) /\ Len(locals) <= Saved
      BY <1>1, <1>5, <1>7, <2>3
    <3> QED BY <1>0, <1>1, <1>5, <1>7, <2>3, <3>1
  <2> QED BY <2>1, <2>2, <2>3
<1> QED BY <1>0, <1>2, <1>3, <1>7

(* The host takes words of an item: the state it keeps is good.            *)
LEMMA SaveWordsStep ==
  ASSUME StreamInv, NEW words, SaveWords(words)
  PROVE  SaveInv' /\ BlobInv'
<1> USE DEF StreamInv
<1> DEFINE locals == LocalsAt(job.item)
           out    == Append(job.out, ItemAt(job.item, locals))
<1>0. /\ job.op = "save" /\ UNCHANGED <<flavor, stored>> /\ SaveShape
      /\ GoodItems(job.out, job.window) /\ job.item = Len(job.out) + 1
      /\ Len(job.out) \in Nat
  BY DEF SaveWords, SaveInv, GoodItems, IsSeq
<1>1. /\ IsSeq(locals) /\ Len(locals) <= Saved
      /\ \A k \in 1..Len(locals) : locals[k] \in job.window[flavor.saved[k]]
      /\ job.item # ItemCount(Saved) => Len(locals) = LoadedBefore(job.item + 1)
      /\ ItemKind(job.item) = "value" => ValueIndex(job.item) \in 1..Len(locals)
      /\ job.item \in 1..ItemCount(Saved)
  BY <1>0, NextLocals
<1>2. GoodItem(job.item, ItemAt(job.item, locals), job.window)
  BY <1>1, ItemAtGood
<1>3. GoodItems(out, job.window) /\ Len(out) = job.item
  BY <1>0, <1>2, OneMoreItem
<1>4. \/ job' = Idle /\ UNCHANGED <<blob, window>>
      \/ /\ job' = Idle /\ blob' = out /\ window' = job.window
         /\ job.item = ItemCount(Saved)
      \/ job' = [job EXCEPT !.got = @ + words] /\ UNCHANGED <<blob, window>>
      \/ /\ job' = [job EXCEPT !.item = @ + 1, !.got = 0, !.out = out,
                !.locals = locals]
         /\ job.item # ItemCount(Saved) /\ UNCHANGED <<blob, window>>
  BY DEF SaveWords, Saved
<1> HIDE DEF locals, out
<1>5. CASE job' = Idle /\ UNCHANGED <<blob, window>>
  BY <1>0, <1>5 DEF SaveInv, BlobInv, Idle, IsSeq, Saved, GoodItems, GoodItem, ItemKind,
     ValueIndex, ItemCount
<1>6. CASE /\ job' = Idle /\ blob' = out /\ window' = job.window
           /\ job.item = ItemCount(Saved)
  <2>1. SaveInv'
    BY <1>6 DEF SaveInv, Idle
  <2>2. ItemCount(Saved)' = ItemCount(Saved)
    BY <1>0 DEF ItemCount, Saved
  <2>3. GoodItems(blob, window)'
    BY <1>0, <1>3, <1>6 DEF GoodItems, GoodItem, ItemKind, ValueIndex, IsSeq, Saved
  <2> QED BY <1>3, <1>6, <2>1, <2>2, <2>3 DEF BlobInv
<1>7. CASE job' = [job EXCEPT !.got = @ + words] /\ UNCHANGED <<blob, window>>
  <2>1. /\ job'.op = job.op /\ job'.item = job.item /\ job'.out = job.out
        /\ job'.locals = job.locals /\ job'.window = job.window /\ SaveShape'
    BY <1>0, <1>7 DEF SaveShape
  <2>2. BlobInv'
    BY <1>0, <1>7 DEF BlobInv, IsSeq, Saved, GoodItems, GoodItem, ItemKind, ValueIndex,
       ItemCount
  <2>3. /\ Saved' = Saved /\ ItemCount(Saved)' = ItemCount(Saved)
        /\ LoadedBefore(job.item)' = LoadedBefore(job.item)
        /\ GoodItems(job.out, job.window)'
    BY <1>0, <2>1 DEF Saved, ItemCount, LoadedBefore, GoodItems, GoodItem, ItemKind,
       ValueIndex, IsSeq
  <2> QED BY <1>0, <2>1, <2>2, <2>3 DEF SaveInv, IsSeq
<1>8. CASE /\ job' = [job EXCEPT !.item = @ + 1, !.got = 0, !.out = out,
                  !.locals = locals]
           /\ job.item # ItemCount(Saved) /\ UNCHANGED <<blob, window>>
  <2>1. /\ job'.op = "save" /\ job'.item = job.item + 1 /\ job'.out = out
        /\ job'.locals = locals /\ job'.window = job.window /\ SaveShape'
    BY <1>0, <1>8 DEF SaveShape
  <2>2. BlobInv'
    BY <1>0, <1>8 DEF BlobInv, IsSeq, Saved, GoodItems, GoodItem, ItemKind, ValueIndex,
       ItemCount
  <2>3. /\ Saved' = Saved /\ ItemCount(Saved)' = ItemCount(Saved)
        /\ LoadedBefore(job.item)' = LoadedBefore(job.item + 1)
    BY <1>0, <2>1 DEF Saved, ItemCount, LoadedBefore
  <2>4. GoodItems(job.out, job.window)' /\ job'.item = Len(job'.out) + 1
    BY <1>0, <1>3, <2>1 DEF GoodItems, GoodItem, ItemKind, ValueIndex, IsSeq, Saved
  <2>5. /\ IsSeq(job.locals)' /\ Len(job'.locals) <= Saved'
        /\ \A k \in 1..Len(job'.locals) :
               job'.locals[k] \in job'.window[flavor'.saved[k]]
        /\ \A q \in ToSet(flavor'.saved) : stored'[q] \in job'.window[q]
    BY <1>0, <1>1, <2>1, <2>3 DEF IsSeq, SaveInv
  <2>6. job'.item <= ItemCount(Saved)' /\ Len(job'.locals) = LoadedBefore(job.item)'
    <3>1. ItemCount(Saved) \in Nat
      BY SavedSound, Counts
    <3>2. job.item + 1 <= ItemCount(Saved)
      BY <1>1, <1>8, <3>1
    <3> QED BY <1>1, <1>8, <2>1, <2>3, <3>2
  <2> QED BY <2>1, <2>2, <2>4, <2>5, <2>6 DEF SaveInv
<1> QED BY <1>4, <1>5, <1>6, <1>7, <1>8
(* Of a step of a save, only the save and the kept state matter.           *)
LEMMA SavingStep ==
  ASSUME StreamInv, UNCHANGED <<flavor, stored, touched, unseen, origin>>,
         job = Idle \/ job.op \in {"gather", "save"},
         job' = Idle \/ job'.op \in {"gather", "save"}, SaveInv', BlobInv'
  PROVE  StreamInv'
<1> USE DEF StreamInv
<1>1. /\ job.op \notin {"load", "store", "rescan"}
      /\ job'.op \notin {"load", "store", "rescan"}
  BY DEF Idle
<1>2. unseen = {}
  BY <1>1 DEF UnseenInv
<1>3. TableInv'
  BY DEF TableInv
<1>4. OriginInv' /\ UnseenInv' /\ LoadInv' /\ StoreInv' /\ RescanInv'
  BY <1>1, <1>2 DEF OriginInv, UnseenInv, LoadInv, StoreInv, RescanInv
<1>5. LoadRestores' /\ RefusedLoadKeeps'
  BY <1>2 DEF LoadRestores, RefusedLoadKeeps
<1> QED BY <1>3, <1>4, <1>5

(* A step that neither saves nor keeps a state leaves it good.             *)
LEMMA SameBlob ==
  ASSUME BlobInv, UNCHANGED <<flavor, blob, window>>
  PROVE  BlobInv'
  BY DEF BlobInv, IsSeq, Saved, GoodItems, GoodItem, ItemKind, ValueIndex, ItemCount

LEMMA SavingSteps ==
  ASSUME StreamInv, SaveBegin \/ Gather \/ \E words : SaveWords(words)
  PROVE  StreamInv'
<1>1. CASE SaveBegin
  <2>1. SaveInv' /\ BlobInv'
    BY <1>1, SaveBeginStep, SameBlob DEF SaveBegin, StreamInv
  <2>2. job = Idle /\ job'.op \in {"gather", "save"}
    BY <1>1 DEF SaveBegin, BeginJob, MainFree
  <2> QED BY <1>1, <2>1, <2>2, SavingStep DEF SaveBegin
<1>2. CASE Gather
  <2>1. SaveInv' /\ BlobInv'
    BY <1>2, GatherStep, SameBlob DEF Gather, StreamInv
  <2>2. job.op = "gather" /\ SaveShape
    BY <1>2 DEF Gather, StreamInv, SaveInv
  <2>3. job'.op \in {"gather", "save"}
    BY <1>2, <2>2 DEF Gather, SaveShape
  <2> QED BY <1>2, <2>1, <2>2, <2>3, SavingStep DEF Gather
<1>3. ASSUME NEW words, SaveWords(words)  PROVE StreamInv'
  <2>1. SaveInv' /\ BlobInv'
    BY <1>3, SaveWordsStep
  <2>2. job.op = "save" /\ SaveShape
    BY <1>3 DEF SaveWords, StreamInv, SaveInv
  <2>3. job' = Idle \/ job'.op = "save"
    BY <1>3, <2>2 DEF SaveWords, SaveShape
  <2> QED BY <1>3, <2>1, <2>2, <2>3, SavingStep DEF SaveWords
<1> QED BY <1>1, <1>2, <1>3

-----------------------------------------------------------------------------
(* The streams a load may be given.                                        *)

LEMMA Spliced ==
  ASSUME NEW S, NEW s \in Seq(S), NEW a \in S, NEW b \in S, NEW c \in S, Len(s) >= 3,
         NEW t, t = SubSeq(s, 1, 2) \o <<a, b, c>> \o SubSeq(s, 4, Len(s))
  PROVE  /\ t \in Seq(S) /\ Len(t) = Len(s) + 2
         /\ t[1] = s[1] /\ t[2] = s[2] /\ t[3] = a /\ t[4] = b /\ t[5] = c
         /\ \A n \in 6..Len(s) + 2 : t[n] = s[n - 2]
<1> DEFINE u == SubSeq(s, 1, 2)
           m == <<a, b, c>>
           w == SubSeq(s, 4, Len(s))
           um == u \o m
<1>1. u \in Seq(S) /\ Len(u) = 2 /\ u[1] = s[1] /\ u[2] = s[2]
  OBVIOUS
<1>2. m \in Seq(S) /\ Len(m) = 3 /\ m[1] = a /\ m[2] = b /\ m[3] = c
  OBVIOUS
<1>3. /\ w \in Seq(S) /\ Len(w) = Len(s) - 3
      /\ \A i \in 1..Len(s) - 3 : w[i] = s[i + 3]
  OBVIOUS
<1> HIDE DEF u, m, w
<1>4a. /\ u \o m \in Seq(S) /\ Len(u \o m) = Len(u) + Len(m)
       /\ \A i \in 1..Len(u) + Len(m) :
            (u \o m)[i] = IF i <= Len(u) THEN u[i] ELSE m[i - Len(u)]
  BY <1>1, <1>2, ConcatProperties
<1>4. /\ um \in Seq(S) /\ Len(um) = 5
      /\ um[1] = s[1] /\ um[2] = s[2] /\ um[3] = a /\ um[4] = b /\ um[5] = c
  BY <1>1, <1>2, <1>4a
<1>5. t = um \o w
  BY DEF u, m, w
<1> HIDE DEF um
<1>6a. /\ um \o w \in Seq(S) /\ Len(um \o w) = Len(um) + Len(w)
       /\ \A i \in 1..Len(um) + Len(w) :
            (um \o w)[i] = IF i <= Len(um) THEN um[i] ELSE w[i - Len(um)]
  BY <1>3, <1>4, ConcatProperties
<1>6. /\ t \in Seq(S) /\ Len(t) = Len(um) + Len(w)
      /\ \A i \in 1..Len(um) + Len(w) :
           t[i] = IF i <= Len(um) THEN um[i] ELSE w[i - Len(um)]
  BY <1>5, <1>6a
<1>7. Len(t) = Len(s) + 2 /\ Len(s) \in Nat
  BY <1>3, <1>4, <1>6
<1>8. t[1] = s[1] /\ t[2] = s[2] /\ t[3] = a /\ t[4] = b /\ t[5] = c
  BY <1>3, <1>4, <1>6
<1>9. \A n \in 6..Len(s) + 2 : t[n] = s[n - 2]
  <2> TAKE n \in 6..Len(s) + 2
  <2>1. t[n] = w[n - 5] /\ n - 5 \in 1..Len(s) - 3
    BY <1>3, <1>4, <1>6, <1>7
  <2> QED BY <1>3, <1>7, <2>1
<1> QED BY <1>6, <1>7, <1>8, <1>9
Readable(kind, items, expect) ==
  IF kind = "foreign" THEN Foreign(items)
  ELSE IF flavor.tagged THEN Tagged(items, expect) ELSE Plain(items, expect)

(* The state the host kept can be read back, with ids or without.          *)
LEMMA OwnReadable ==
  ASSUME TableInv, BlobInv, blob # <<>>
  PROVE  /\ flavor.tagged => Tagged(blob, window)
         /\ ~flavor.tagged => Plain(blob, window)
         /\ IsSeq(blob) /\ Len(blob) = ItemCount(Saved)
<1>1. /\ flavor.tagged \in BOOLEAN /\ Saved \in Nat \ {0}
      /\ ItemCount(Saved) = IF flavor.tagged THEN 3 + 2 * Saved ELSE 2 + Saved
  BY SavedSound, Counts
<1>2. /\ IsSeq(blob) /\ Len(blob) = ItemCount(Saved)
      /\ \A n \in 1..Len(blob) : GoodItem(n, blob[n], window)
  BY DEF BlobInv, GoodItems
<1>3. 1 \in 1..Len(blob) /\ 2 \in 1..Len(blob) /\ 3 \in 1..Len(blob)
  BY <1>1, <1>2
<1>4. blob[1].is = "magic" /\ blob[2].is = "version"
  BY <1>1, <1>2, <1>3, HeaderKinds DEF GoodItem
<1>5. CASE flavor.tagged
  <2>1. blob[3].is = "count" /\ blob[3].of = Saved
    BY <1>1, <1>2, <1>3, <1>5, HeaderKinds DEF GoodItem
  <2>2. ASSUME NEW k \in 1..Saved
        PROVE  /\ blob[2 * k + 2].is = "id" /\ blob[2 * k + 3].is = "value"
               /\ blob[2 * k + 2].of = flavor.saved[k]
               /\ blob[2 * k + 3].of \in window[flavor.saved[k]]
    <3>1. 2 * k + 2 \in 1..Len(blob) /\ 2 * k + 3 \in 1..Len(blob) /\ k \in Nat \ {0}
      BY <1>1, <1>2, <1>5
    <3>2. /\ GoodItem(2 * k + 2, blob[2 * k + 2], window)
          /\ GoodItem(2 * k + 3, blob[2 * k + 3], window)
      BY <1>2, <3>1
    <3>3. /\ ItemKind(2 * k + 2) = "id" /\ ItemKind(2 * k + 3) = "value"
          /\ ValueIndex(2 * k + 2) = k /\ ValueIndex(2 * k + 3) = k
      BY <1>5, <3>1, TaggedKinds
    <3> QED BY <3>2, <3>3 DEF GoodItem
  <2>3. \A p \in ToSet(flavor.saved) : \E k \in 1..blob[3].of : blob[2 * k + 2].of = p
    <3> TAKE p \in ToSet(flavor.saved)
    <3>1. PICK k \in 1..Saved : p = flavor.saved[k]
      BY SavedSound
    <3> QED BY <2>1, <2>2, <3>1
  <2>4. Len(blob) = 3 + 2 * blob[3].of
    BY <1>1, <1>2, <1>5, <2>1
  <2>5. \A k \in 1..blob[3].of :
          /\ blob[2 * k + 2].is = "id" /\ blob[2 * k + 3].is = "value"
          /\ Settable(blob[2 * k + 2].of) =>
               blob[2 * k + 3].of \in window[blob[2 * k + 2].of]
    BY <2>1, <2>2
  <2> QED BY <1>1, <1>2, <1>4, <1>5, <2>1, <2>3, <2>4, <2>5 DEF Tagged
<1>6. CASE ~flavor.tagged
  <2>1. Len(blob) = 2 + Saved
    BY <1>1, <1>2, <1>6
  <2>2. ASSUME NEW k \in 1..Len(blob) - 2
        PROVE  blob[k + 2].is = "value" /\ blob[k + 2].of \in window[flavor.saved[k]]
    <3>1. k + 2 \in 1..Len(blob) /\ k \in Nat \ {0}
      BY <1>1, <2>1
    <3>2. ItemKind(k + 2) = "value" /\ ValueIndex(k + 2) = k
      BY <1>6, <3>1, PlainKinds
    <3> QED BY <1>2, <3>1, <3>2 DEF GoodItem
  <2> QED BY <1>1, <1>2, <1>4, <1>6, <2>1, <2>2 DEF Plain
<1> QED BY <1>1, <1>2, <1>5, <1>6

(* A state of a later version of the suite: one more parameter, first.     *)
LEMMA NewerReadable ==
  ASSUME TableInv, BlobInv, blob # <<>>, flavor.tagged,
         NEW p, ~Settable(p), NEW v, NEW items,
         items = SubSeq(blob, 1, 2)
                   \o <<Item("count", Saved + 1), Item("id", p), Item("value", v)>>
                   \o SubSeq(blob, 4, Len(blob))
  PROVE  Tagged(items, window)
<1>1. Saved \in Nat \ {0} /\ Len(blob) = 3 + 2 * Saved
  BY SavedSound, Counts, OwnReadable
<1>2. PICK R : blob \in Seq(R)
  BY OwnReadable, IsSeqInSeq, Zenon
<1> DEFINE a == Item("count", Saved + 1)
           b == Item("id", p)
           c == Item("value", v)
           S == R \cup {a, b, c}
<1>3. blob \in Seq(S) /\ a \in S /\ b \in S /\ c \in S
  BY <1>2
<1>4. a.is = "count" /\ a.of = Saved + 1 /\ b.is = "id" /\ b.of = p /\ c.is = "value"
  BY DEF Item
<1> HIDE DEF a, b, c, S
<1>5. items = SubSeq(blob, 1, 2) \o <<a, b, c>> \o SubSeq(blob, 4, Len(blob))
  BY DEF a, b, c
<1>5a. Len(blob) >= 3
  BY <1>1
<1>6. /\ items \in Seq(S) /\ Len(items) = Len(blob) + 2
      /\ items[1] = blob[1] /\ items[2] = blob[2]
      /\ items[3] = a /\ items[4] = b /\ items[5] = c
      /\ \A n \in 6..Len(blob) + 2 : items[n] = blob[n - 2]
  BY <1>3, <1>5, <1>5a, Spliced
<1>7. /\ Tagged(blob, window) /\ blob[3].of = Saved
  <2>1. Tagged(blob, window)
    BY OwnReadable
  <2>2. blob[3].of \in Nat /\ Len(blob) = 3 + 2 * blob[3].of
    BY <2>1 DEF Tagged
  <2>3. blob[3].of = Saved
    BY <1>1, <2>2
  <2> QED BY <2>1, <2>3
<1>8. IsSeq(items) /\ items[3].of = Saved + 1 /\ Len(items) = 3 + 2 * items[3].of
  <2>1. IsSeq(items)
    BY <1>6, SeqIsSeq
  <2>2. items[3].of = Saved + 1
    BY <1>4, <1>6
  <2>3. Len(items) = 3 + 2 * (Saved + 1)
    BY <1>1, <1>6
  <2> QED BY <2>1, <2>2, <2>3
<1>9. ASSUME NEW k \in 1..items[3].of
      PROVE  /\ items[2 * k + 2].is = "id" /\ items[2 * k + 3].is = "value"
             /\ Settable(items[2 * k + 2].of) =>
                  items[2 * k + 3].of \in window[items[2 * k + 2].of]
  <2>1. CASE k = 1
    <3>1. items[2 * k + 2] = b /\ items[2 * k + 3] = c
      BY <1>6, <2>1
    <3> QED BY <1>4, <3>1
  <2>2. CASE k \in 2..Saved + 1
    <3>1. k - 1 \in 1..blob[3].of
      BY <1>1, <1>7, <2>2
    <3>2. /\ 2 * k + 2 \in 6..Len(blob) + 2 /\ 2 * k + 3 \in 6..Len(blob) + 2
          /\ 2 * k + 2 - 2 = 2 * (k - 1) + 2 /\ 2 * k + 3 - 2 = 2 * (k - 1) + 3
      BY <1>1, <2>2
    <3>3. /\ items[2 * k + 2] = blob[2 * (k - 1) + 2]
          /\ items[2 * k + 3] = blob[2 * (k - 1) + 3]
      BY <1>6, <3>2
    <3>4. /\ blob[2 * (k - 1) + 2].is = "id" /\ blob[2 * (k - 1) + 3].is = "value"
          /\ Settable(blob[2 * (k - 1) + 2].of) =>
               blob[2 * (k - 1) + 3].of \in window[blob[2 * (k - 1) + 2].of]
      BY <1>7, <3>1 DEF Tagged
    <3> QED BY <3>3, <3>4
  <2> QED BY <1>1, <1>8, <2>1, <2>2
<1>10. ASSUME NEW q \in ToSet(flavor.saved)
       PROVE  \E k \in 1..items[3].of : items[2 * k + 2].of = q
  <2>1. PICK j \in 1..Saved : blob[2 * j + 2].of = q
    BY <1>7 DEF Tagged
  <2>2. /\ j + 1 \in 1..items[3].of /\ 2 * (j + 1) + 2 \in 6..Len(blob) + 2
        /\ 2 * (j + 1) + 2 - 2 = 2 * j + 2
    BY <1>1, <1>8
  <2>3. items[2 * (j + 1) + 2] = blob[2 * j + 2]
    BY <1>6, <2>2
  <2> QED BY <2>1, <2>2, <2>3
<1>11. items[1].is = "magic" /\ items[2].is = "version" /\ items[3].is = "count"
  BY <1>4, <1>6, <1>7 DEF Tagged
<1>12. items[3].of \in Nat \ {0}
  BY <1>1, <1>8
<1> QED BY <1>8, <1>9, <1>10, <1>11, <1>12 DEF Tagged

(* A state of another product is told by its first two items.              *)
LEMMA ForeignReadable ==
  ASSUME TableInv, NEW header \in {<<"other", 1>>, <<flavor.magic, 2>>},
         NEW S, NEW body \in Seq(S), NEW items,
         items = <<Item("magic", header[1]), Item("version", header[2])>> \o body
  PROVE  Foreign(items)
<1> DEFINE a == Item("magic", header[1])
           b == Item("version", header[2])
           R == S \cup {a, b}
<1>1. /\ a.is = "magic" /\ a.of = header[1] /\ b.is = "version" /\ b.of = header[2]
      /\ <<a, b>> \in Seq(R) /\ body \in Seq(R)
      /\ Len(<<a, b>>) = 2 /\ <<a, b>>[1] = a /\ <<a, b>>[2] = b
  BY DEF Item
<1>2. ~Wanted(a) \/ ~Wanted(b)
  <2>1. flavor.magic # "other"
    BY SoundFlavor DEF Sound
  <2>2. CASE header = <<"other", 1>>
    <3>1. a.of = "other"
      BY <1>1, <2>2
    <3> QED BY <1>1, <2>1, <3>1 DEF Wanted
  <2>3. CASE header = <<flavor.magic, 2>>
    <3>1. b.of = 2
      BY <1>1, <2>3
    <3> QED BY <1>1, <3>1 DEF Wanted
  <2> QED BY <2>2, <2>3
<1>3. items = <<a, b>> \o body
  OBVIOUS
<1> HIDE DEF a, b, R
<1>4. /\ <<a, b>> \o body \in Seq(R) /\ Len(<<a, b>> \o body) = 2 + Len(body)
      /\ \A i \in 1..2 + Len(body) :
           (<<a, b>> \o body)[i] = IF i <= 2 THEN <<a, b>>[i] ELSE body[i - 2]
  BY <1>1, ConcatProperties
<1>5. items \in Seq(R) /\ Len(items) >= 2 /\ items[1] = a /\ items[2] = b
  BY <1>1, <1>3, <1>4
<1> QED BY <1>1, <1>2, <1>5, SeqIsSeq DEF Foreign

(* Whatever the host hands to load() is one of the three shapes.           *)
LEMMA SourceReadable ==
  ASSUME TableInv, BlobInv, NEW source \in Source
  PROVE  Readable(source.kind, source.items, source.expect)
<1>1. flavor.tagged \in BOOLEAN
  BY SavedSound
<1>2. CASE blob # <<>> /\ source = OwnState
  BY <1>1, <1>2, OwnReadable DEF Readable, OwnState
<1>3. ASSUME blob # <<>>, flavor.tagged, NEW p \in {"unknown"} \cup flavor.meters,
             NEW v \in Values, source = NewerState(p, v)
      PROVE  Readable(source.kind, source.items, source.expect)
  <2>1. ~Settable(p)
    BY <1>3, SavedSound DEF Settable
  <2>2. /\ source.kind = "newer" /\ source.expect = window
        /\ source.items = SubSeq(blob, 1, 2)
             \o <<Item("count", Saved + 1), Item("id", p), Item("value", v)>>
             \o SubSeq(blob, 4, Len(blob))
    BY <1>3 DEF NewerState, Saved
  <2>3. Tagged(source.items, window)
    BY <1>3, <2>1, <2>2, NewerReadable
  <2> QED BY <1>3, <2>2, <2>3 DEF Readable
<1>4. ASSUME NEW header \in {<<"other", 1>>, <<flavor.magic, 2>>},
             NEW body \in ForeignBodies, source = ForeignState(header, body)
      PROVE  Readable(source.kind, source.items, source.expect)
  <2>1. \E S : body \in Seq(S)
    <3>1. CASE flavor.tagged
      <4>1. body = <<Item("count", 0)>>
        BY <1>4, <3>1 DEF ForeignBodies
      <4>2. <<Item("count", 0)>> \in Seq({Item("count", 0)})
        OBVIOUS
      <4> QED BY <4>1, <4>2
    <3>2. CASE ~flavor.tagged
      <4>1. PICK v \in Values : body = [i \in DOMAIN flavor.saved |-> Item("value", v)]
        BY <1>4, <3>2 DEF ForeignBodies
      <4>2. flavor.saved \in Seq(Params(flavor))
        BY SoundFlavor DEF Sound
      <4>3. body \in Seq({Item("value", v)})
        BY <4>1, <4>2
      <4> QED BY <4>3
    <3> QED BY <1>1, <3>1, <3>2
  <2>2. PICK S : body \in Seq(S)
    BY <2>1
  <2>3. /\ source.kind = "foreign"
        /\ source.items =
               <<Item("magic", header[1]), Item("version", header[2])>> \o body
    BY <1>4 DEF ForeignState
  <2>4. Foreign(source.items)
    BY <2>2, <2>3, ForeignReadable
  <2> QED BY <2>3, <2>4 DEF Readable
<1>5. ASSUME ~flavor.tagged, NEW v \in Values, source = SiblingState(v)
      PROVE  Readable(source.kind, source.items, source.expect)
  <2> DEFINE a == Item("magic", "CVPS")
             b == Item("version", 1)
             c == Item("value", v)
  <2>1. a.is = "magic" /\ b.is = "version" /\ c.is = "value" /\ c.of = v
    BY DEF Item
  <2>0. /\ source.kind = "sibling" /\ source.expect = Anything
        /\ source.items = <<a, b, c>>
    BY <1>5 DEF SiblingState
  <2> HIDE DEF a, b, c
  <2>2. /\ <<a, b, c>> \in Seq({a, b, c}) /\ Len(<<a, b, c>>) = 3
        /\ <<a, b, c>>[1] = a /\ <<a, b, c>>[2] = b /\ <<a, b, c>>[3] = c
    OBVIOUS
  <2>3. /\ IsSeq(source.items) /\ Len(source.items) = 3
        /\ source.items[1] = a /\ source.items[2] = b /\ source.items[3] = c
    BY <2>0, <2>2, SeqIsSeq
  <2>4. Saved \in Nat \ {0} /\ flavor.saved[1] \in Params(flavor)
    BY SavedSound
  <2>5. v \in source.expect[flavor.saved[1]]
    BY <2>0, <2>4 DEF Anything
  <2>6. \A k \in 1..Len(source.items) - 2 : k = 1
    BY <2>3
  <2>7. \A k \in 1..Len(source.items) - 2 :
          source.items[k + 2].is = "value"
            /\ source.items[k + 2].of \in source.expect[flavor.saved[k]]
    BY <2>1, <2>3, <2>5, <2>6
  <2>8. Plain(source.items, source.expect)
    BY <2>1, <2>3, <2>4, <2>7 DEF Plain
  <2> QED BY <1>5, <2>0, <2>8 DEF Readable
<1>6. \/ blob # <<>> /\ source = OwnState
      \/ /\ blob # <<>> /\ flavor.tagged
         /\ \E p \in {"unknown"} \cup flavor.meters, v \in Values :
                source = NewerState(p, v)
      \/ \E header \in {<<"other", 1>>, <<flavor.magic, 2>>}, body \in ForeignBodies :
           source = ForeignState(header, body)
      \/ ~flavor.tagged /\ \E v \in Values : source = SiblingState(v)
  BY DEF Source
<1> QED BY <1>2, <1>3, <1>4, <1>5, <1>6

(* A load begins with every parameter as it was.                           *)
LEMMA LoadBeginStep ==
  ASSUME StreamInv, NEW source \in Source, LoadBegin(source)
  PROVE  StreamInv'
<1> USE DEF StreamInv
<1>1. /\ job = Idle /\ UNCHANGED <<flavor, stored, blob, unseen, window>>
      /\ touched' = {}
      /\ job' = [op |-> "load", item |-> 1, got |-> 0, items |-> source.items,
                 count |-> Len(flavor.saved), id |-> "unknown", locals |-> <<>>]
      /\ origin' = [kind |-> source.kind, outcome |-> "running", before |-> stored,
                    expect |-> source.expect]
  BY DEF LoadBegin, BeginJob, MainFree
<1>2. /\ job'.op = "load" /\ job'.item = 1 /\ job'.items = source.items
      /\ job'.count = Saved /\ job'.locals = <<>> /\ LoadShape'
      /\ origin'.kind = source.kind /\ origin'.outcome = "running"
      /\ origin'.before = stored /\ origin'.expect = source.expect
  BY <1>1 DEF LoadShape, Saved
<1>3. unseen = {}
  BY <1>1 DEF UnseenInv, Idle
<1>4. TableInv' /\ BlobInv'
  BY <1>1, SameBlob DEF TableInv
<1>5. OriginInv' /\ UnseenInv' /\ SaveInv' /\ StoreInv' /\ RescanInv'
  BY <1>1, <1>2, <1>3 DEF OriginInv, UnseenInv, SaveInv, StoreInv, RescanInv
<1>6. Readable(source.kind, source.items, source.expect)
  BY SourceReadable
<1>7. /\ Saved' = Saved /\ Saved \in Nat \ {0} /\ flavor.tagged \in BOOLEAN
      /\ ItemCount(Saved)' = ItemCount(Saved)
      /\ ItemCount(Saved) = IF flavor.tagged THEN 3 + 2 * Saved ELSE 2 + Saved
  BY <1>1, SavedSound, Counts DEF Saved, ItemCount
<1>8. \A p \in Params(flavor) : Kept(p)'
  BY <1>1, <1>2 DEF Kept
<1>9. LoadInv'
  <2>1. CASE source.kind = "foreign"
    <3>1. Foreign(job.items)'
      BY <1>1, <1>2, <1>6, <2>1 DEF Readable, Foreign, IsSeq, Wanted
    <3>2. ForeignInv'
      BY <1>1, <1>2, <1>7, <1>8, <3>1 DEF ForeignInv
    <3> QED BY <1>2, <2>1, <3>2 DEF LoadInv
  <2>2. CASE source.kind # "foreign" /\ flavor.tagged
    <3>1. Tagged(job.items, origin.expect)'
      BY <1>1, <1>2, <1>6, <2>2 DEF Readable, Tagged, IsSeq, Settable
    <3>0. job'.items[3].of \in Nat \ {0} /\ Len(job'.items) = 3 + 2 * job'.items[3].of
      BY <3>1 DEF Tagged
    <3>2. /\ job'.item = 1 /\ 1 \in 1..Len(job'.items) /\ job'.item <= 3
          /\ \A k \in 1..job'.items[3].of :
               job'.item # 2 * k + 3 /\ ~(job'.item > 2 * k + 3)
      BY <1>2, <3>0
    <3>3. /\ \A p \in Params(flavor') \ touched' : Kept(p)' \/ AsExpected(p)'
          /\ job'.item \in 1..Len(job'.items) /\ job'.count = Saved'
      BY <1>1, <1>2, <1>7, <1>8, <3>2
    <3>4. TaggedInv'
      BY <3>1, <3>2, <3>3 DEF TaggedInv
    <3> QED BY <1>1, <1>2, <2>2, <3>4 DEF LoadInv
  <2>3. CASE source.kind # "foreign" /\ ~flavor.tagged
    <3>1. Plain(job.items, origin.expect)'
      BY <1>1, <1>2, <1>6, <2>3 DEF Readable, Plain, IsSeq, Saved
    <3>2. IsSeq(job'.locals) /\ Len(job'.locals) = 0 /\ 1 \in 1..ItemCount(Saved)
      BY <1>2, <1>7, EmptyIsSeq
    <3>3. PlainInv'
      BY <1>1, <1>2, <1>7, <1>8, <3>1, <3>2 DEF PlainInv, IsSeq
    <3> QED BY <1>1, <1>2, <2>3, <3>3 DEF LoadInv
  <2> QED BY <1>7, <2>1, <2>2, <2>3
<1>10. LoadRestores' /\ RefusedLoadKeeps'
  <2>1. flavor.meters \subseteq Params(flavor)
    BY DEF Params
  <2> QED BY <1>1, <1>2, <1>3, <2>1 DEF LoadRestores, RefusedLoadKeeps
<1> QED BY <1>4, <1>5, <1>9, <1>10
-----------------------------------------------------------------------------
(* The steps of a load.                                                    *)

LEMMA LoadGoesOn ==
  ASSUME StreamInv, job.op = "load",
         UNCHANGED <<flavor, origin, touched, unseen, blob, window>>,
         TableInv', LoadInv', StoreInv', job'.op \in {"load", "store"},
         \A p \in flavor.meters : stored'[p] = stored[p]
  PROVE  StreamInv'
<1> USE DEF StreamInv
<1>1. unseen = {} /\ origin.outcome = "running"
  BY DEF UnseenInv, OriginInv
<1>2. /\ job' # Idle /\ job'.op \notin {"gather", "save", "rescan"}
      /\ job'.op \in {"load", "store", "rescan"}
  BY DEF Idle
<1>3. SaveInv' /\ RescanInv' /\ UnseenInv' /\ OriginInv'
  BY <1>1, <1>2 DEF SaveInv, RescanInv, UnseenInv, OriginInv
<1>4. BlobInv'
  BY SameBlob
<1>5. LoadRestores' /\ RefusedLoadKeeps'
  BY <1>1, <1>2 DEF LoadRestores, RefusedLoadKeeps, MainFree
<1> QED BY <1>3, <1>4, <1>5

(* The main thread is done with the load.                                  *)
LEMMA LoadEnds ==
  ASSUME StreamInv, NEW outcome \in {"refused", "restored"}, EndLoad(outcome),
         origin.outcome = "running",
         UNCHANGED <<flavor, touched, blob, window>>, unseen' = {}, TableInv',
         \A p \in flavor.meters : stored'[p] = stored[p],
         outcome = "restored" =>
           /\ origin.kind # "foreign"
           /\ \A p \in ToSet(flavor.saved) \ touched : stored'[p] \in origin.expect[p],
         outcome = "refused" =>
           \A p \in Params(flavor) \ touched :
             \/ stored'[p] = origin.before[p]
             \/ flavor.tagged /\ stored'[p] \in origin.expect[p]
  PROVE  StreamInv'
<1> USE DEF StreamInv
<1>1. /\ job' = Idle /\ job'.op = "idle"
      /\ origin = [kind |-> origin.kind, outcome |-> origin.outcome,
                   before |-> origin.before, expect |-> origin.expect]
      /\ origin' = [origin EXCEPT !.outcome = outcome]
  BY DEF EndLoad, Idle, OriginInv
<1>2. /\ origin'.kind = origin.kind /\ origin'.outcome = outcome
      /\ origin'.before = origin.before /\ origin'.expect = origin.expect
      /\ origin' = [kind |-> origin'.kind, outcome |-> origin'.outcome,
                    before |-> origin'.before, expect |-> origin'.expect]
  BY <1>1
<1>3. SaveInv' /\ LoadInv' /\ StoreInv' /\ RescanInv' /\ UnseenInv' /\ OriginInv'
  BY <1>1, <1>2 DEF SaveInv, LoadInv, StoreInv, RescanInv, UnseenInv, OriginInv
<1>4. BlobInv'
  BY SameBlob
<1>5. \A p \in flavor.meters \ touched : stored'[p] = origin.before[p]
  BY DEF RefusedLoadKeeps
<1>6. LoadRestores'
  BY <1>2 DEF LoadRestores
<1>7. RefusedLoadKeeps'
  BY <1>2, <1>5 DEF RefusedLoadKeeps
<1> QED BY <1>3, <1>4, <1>6, <1>7

(* Up to the end of its stream a load has kept, or given its value.        *)
LEMMA LoadSoFar ==
  ASSUME StreamInv, job.op = "load"
  PROVE  /\ origin.outcome = "running" /\ unseen = {}
         /\ \A p \in Params(flavor) \ touched :
              \/ stored[p] = origin.before[p]
              \/ flavor.tagged /\ stored[p] \in origin.expect[p]
<1> USE DEF StreamInv
<1>1. origin.outcome = "running" /\ unseen = {}
  BY DEF OriginInv, UnseenInv
<1>2. CASE origin.kind = "foreign"
  BY <1>1, <1>2 DEF LoadInv, ForeignInv, Kept
<1>3. CASE origin.kind # "foreign" /\ flavor.tagged
  BY <1>1, <1>3 DEF LoadInv, TaggedInv, Kept, AsExpected
<1>4. CASE origin.kind # "foreign" /\ ~flavor.tagged
  BY <1>1, <1>4 DEF LoadInv, PlainInv, Kept
<1>5. flavor.tagged \in BOOLEAN
  BY SavedSound
<1> QED BY <1>2, <1>3, <1>4, <1>5

(* A load that is refused leaves things as the invariant has them.         *)
LEMMA RefusedStep ==
  ASSUME StreamInv, job.op = "load", EndLoad("refused"),
         UNCHANGED <<flavor, stored, touched, unseen, blob, window>>
  PROVE  StreamInv'
<1>1. TableInv'
  BY DEF StreamInv, TableInv
<1> QED BY <1>1, LoadSoFar, LoadEnds

LEMMA TaggedStays ==
  ASSUME Tagged(job.items, origin.expect), UNCHANGED flavor, job'.items = job.items,
         origin'.expect = origin.expect
  PROVE  Tagged(job.items, origin.expect)'
<1>1. \A p : Settable(p)' <=> Settable(p)
  BY DEF Settable
<1>2. IsSeq(job.items)'
  BY DEF Tagged, IsSeq
<1> QED BY <1>1, <1>2 DEF Tagged

(* The host gave a part of an item: nothing else happens.                  *)
LEMMA PartStep ==
  ASSUME StreamInv, job.op = "load", NEW words, job' = [job EXCEPT !.got = @ + words],
         UNCHANGED <<flavor, stored, origin, touched, unseen, blob, window>>
  PROVE  StreamInv'
<1> USE DEF StreamInv
<1>1. LoadShape
  BY DEF LoadInv
<1>2. /\ job'.op = "load" /\ job'.item = job.item /\ job'.items = job.items
      /\ job'.count = job.count /\ job'.id = job.id /\ job'.locals = job.locals
      /\ LoadShape'
  BY <1>1 DEF LoadShape
<1>3. TableInv'
  BY DEF TableInv
<1>4. ForeignInv => ForeignInv'
  BY <1>2 DEF ForeignInv, Foreign, IsSeq, Wanted, Saved, Kept
<1>5. TaggedInv => TaggedInv'
  <2> SUFFICES ASSUME TaggedInv PROVE TaggedInv'
    OBVIOUS
  <2>0. Tagged(job.items, origin.expect)
    BY DEF TaggedInv
  <2>1. Tagged(job.items, origin.expect)'
    BY <1>2, <2>0, TaggedStays
  <2> QED BY <1>2, <2>1 DEF TaggedInv, Settable, Saved, Kept, AsExpected
<1>6. PlainInv => PlainInv'
  BY <1>2 DEF PlainInv, Plain, IsSeq, Saved, Kept, ItemCount
<1>7. LoadInv' /\ StoreInv'
  BY <1>2, <1>4, <1>5, <1>6 DEF LoadInv, StoreInv
<1> QED BY <1>2, <1>3, <1>7, LoadGoesOn

(* An item read whole that the flavor wants.                               *)
ItemRead ==
  LET item == job.items[job.item]
      next == WithItem(item)
  IN /\ job.op = "load" /\ Wanted(item) /\ ~(job.item > Len(job.items))
     /\ stored' = IF LoadedInto(item) THEN [stored EXCEPT ![job.id] = item.of]
            ELSE stored
     /\ \/ /\ job.item < ItemCount(next.count)
           /\ job' = [next EXCEPT !.item = @ + 1, !.got = 0] /\ UNCHANGED origin
        \/ ~(job.item < ItemCount(next.count)) /\ flavor.tagged /\ EndLoad("restored")
        \/ /\ ~(job.item < ItemCount(next.count)) /\ ~flavor.tagged /\ UNCHANGED origin
           /\ job' = [op |-> "store", locals |-> next.locals, at |-> 1,
                  rescan |-> FALSE]

(* What LoadWords may come to, one outcome a disjunct.                     *)
LEMMA LoadWordsCases ==
  ASSUME NEW words, LoadWords(words)
  PROVE  /\ job.op = "load" /\ UNCHANGED <<flavor, touched, unseen, blob, window>>
         /\ \/ EndLoad("refused") /\ UNCHANGED stored
            \/ job' = [job EXCEPT !.got = @ + words] /\ UNCHANGED <<origin, stored>>
            \/ ItemRead
<1> DEFINE item == job.items[job.item]
           next == WithItem(item)
<1>1. job.op = "load" /\ UNCHANGED <<flavor, touched, unseen, blob, window>>
  BY DEF LoadWords
<1>2. \/ EndLoad("refused") /\ UNCHANGED stored
      \/ job' = [job EXCEPT !.got = @ + words] /\ UNCHANGED <<origin, stored>>
      \/ /\ ~(job.item > Len(job.items))
         /\ IF ~Wanted(item) THEN EndLoad("refused")
            ELSE IF job.item < ItemCount(next.count)
              THEN job' = [next EXCEPT !.item = @ + 1, !.got = 0] /\ UNCHANGED origin
            ELSE IF flavor.tagged THEN EndLoad("restored")
            ELSE /\ job' = [op |-> "store", locals |-> next.locals, at |-> 1,
                            rescan |-> FALSE]
                 /\ UNCHANGED origin
         /\ stored' = IF LoadedInto(item) THEN [stored EXCEPT ![job.id] = item.of]
                ELSE stored
  BY DEF LoadWords, Assign
<1>3. ~Wanted(item) => ~LoadedInto(item)
  BY DEF Wanted, LoadedInto
<1> HIDE DEF item, next
<1>4. \/ EndLoad("refused") /\ UNCHANGED stored
      \/ job' = [job EXCEPT !.got = @ + words] /\ UNCHANGED <<origin, stored>>
      \/ /\ Wanted(item) /\ ~(job.item > Len(job.items))
         /\ stored' = IF LoadedInto(item) THEN [stored EXCEPT ![job.id] = item.of]
                ELSE stored
         /\ \/ /\ job.item < ItemCount(next.count)
               /\ job' = [next EXCEPT !.item = @ + 1, !.got = 0] /\ UNCHANGED origin
            \/ ~(job.item < ItemCount(next.count)) /\ flavor.tagged
                   /\ EndLoad("restored")
            \/ /\ ~(job.item < ItemCount(next.count)) /\ ~flavor.tagged
               /\ UNCHANGED origin
               /\ job' = [op |-> "store", locals |-> next.locals, at |-> 1,
                      rescan |-> FALSE]
  BY <1>2, <1>3
<1> QED BY <1>1, <1>4 DEF ItemRead, item, next

(* The item a load reads changes one field of its own.                     *)
LEMMA WithItemFields ==
  ASSUME LoadShape, NEW item
  PROVE  LET next == WithItem(item) IN
         /\ next = [op |-> next.op, item |-> next.item, got |-> next.got,
                    items |-> next.items, count |-> next.count, id |-> next.id,
                    locals |-> next.locals]
         /\ next.op = job.op /\ next.item = job.item /\ next.items = job.items
         /\ next.count = IF item.is = "count" THEN item.of ELSE job.count
         /\ next.id = IF item.is = "id" THEN item.of ELSE job.id
         /\ next.locals = IF item.is = "value" THEN Append(job.locals, item.of)
                ELSE job.locals
<1>1. CASE item.is = "count"
  BY <1>1 DEF WithItem, LoadShape
<1>2. CASE item.is = "id"
  BY <1>2 DEF WithItem, LoadShape
<1>3. CASE item.is = "value"
  BY <1>3 DEF WithItem, LoadShape
<1>4. CASE item.is \notin {"count", "id", "value"}
  BY <1>4 DEF WithItem, LoadShape
<1> QED BY <1>1, <1>2, <1>3, <1>4

LEMMA NextFields ==
  ASSUME LoadShape, job.op = "load", NEW STATE item, NEW STATE next,
         next = WithItem(item),
         job' = [next EXCEPT !.item = @ + 1, !.got = 0]
  PROVE  /\ job'.op = "load" /\ job'.item = job.item + 1 /\ job'.items = job.items
         /\ job'.count = IF item.is = "count" THEN item.of ELSE job.count
         /\ job'.id = IF item.is = "id" THEN item.of ELSE job.id
         /\ job'.locals = IF item.is = "value" THEN Append(job.locals, item.of)
                          ELSE job.locals
         /\ LoadShape'
<1>1. /\ next = [op |-> next.op, item |-> next.item, got |-> next.got,
                 items |-> next.items, count |-> next.count, id |-> next.id,
                 locals |-> next.locals]
      /\ next.op = job.op /\ next.item = job.item /\ next.items = job.items
      /\ next.count = IF item.is = "count" THEN item.of ELSE job.count
      /\ next.id = IF item.is = "id" THEN item.of ELSE job.id
      /\ next.locals = IF item.is = "value" THEN Append(job.locals, item.of)
             ELSE job.locals
  BY WithItemFields
<1>2. job' = [op |-> next.op, item |-> next.item + 1, got |-> 0, items |-> next.items,
              count |-> next.count, id |-> next.id, locals |-> next.locals]
  BY <1>1
<1>3. LoadShape'
  BY <1>2 DEF LoadShape
<1>4. /\ job'.op = next.op /\ job'.item = next.item + 1 /\ job'.items = next.items
      /\ job'.count = next.count /\ job'.id = next.id /\ job'.locals = next.locals
  BY <1>2
<1> QED BY <1>1, <1>3, <1>4

(* A foreign state is refused at its second item at the latest.            *)
LEMMA ForeignRead ==
  ASSUME StreamInv, ItemRead, origin.kind = "foreign",
         UNCHANGED <<flavor, touched, unseen, blob, window>>
  PROVE  StreamInv'
<1> USE DEF StreamInv
<1>1. /\ job.op = "load" /\ LoadShape /\ Foreign(job.items) /\ job.item \in 1..2
      /\ job.count = Saved /\ (job.item = 2 => Wanted(job.items[1]))
      /\ \A p \in Params(flavor) \ touched : Kept(p)
  BY DEF ItemRead, LoadInv, ForeignInv
<1>2. job.item = 1 /\ job.items[1].is = "magic" /\ Wanted(job.items[1])
  BY <1>1 DEF ItemRead, Foreign
<1>3. stored' = stored
  BY <1>2 DEF ItemRead, LoadedInto
<1> DEFINE item == job.items[job.item]
           next == WithItem(item)
<1>4. next.count = Saved
  BY <1>1, <1>2, WithItemFields
<1>5. 1 < ItemCount(Saved)
  BY SavedSound, Counts
<1>6. job' = [next EXCEPT !.item = @ + 1, !.got = 0] /\ UNCHANGED origin
  BY <1>2, <1>4, <1>5 DEF ItemRead
<1>7. /\ job'.op = "load" /\ job'.item = 2 /\ job'.items = job.items
      /\ job'.count = Saved
      /\ LoadShape'
  <2>1. next = WithItem(item) /\ item.is = "magic"
    BY <1>2
  <2> HIDE DEF item, next
  <2>2. /\ job'.op = "load" /\ job'.item = job.item + 1 /\ job'.items = job.items
        /\ job'.count = IF item.is = "count" THEN item.of ELSE job.count
        /\ LoadShape'
    BY <1>1, <1>6, <2>1, NextFields
  <2> QED BY <1>1, <1>2, <2>1, <2>2
<1> HIDE DEF item, next
<1>8. ForeignInv'
  <2>1. Foreign(job.items)' /\ Wanted(job.items[1])'
    BY <1>1, <1>2, <1>7 DEF Foreign, IsSeq, Wanted
  <2>2. \A p \in Params(flavor) \ touched : Kept(p)'
    BY <1>1, <1>3, <1>6 DEF Kept
  <2>3. Saved' = Saved
    BY DEF Saved
  <2> QED BY <1>7, <2>1, <2>2, <2>3 DEF ForeignInv
<1>9. TableInv' /\ LoadInv' /\ StoreInv'
  BY <1>3, <1>6, <1>7, <1>8 DEF TableInv, LoadInv, StoreInv
<1> QED BY <1>1, <1>3, <1>6, <1>7, <1>9, LoadGoesOn

(* Without ids: the values are gathered, and all stored at the end.        *)
LEMMA PlainLocals ==
  ASSUME TableInv, PlainInv, ~flavor.tagged, NEW locals,
         LET item == job.items[job.item] IN
         locals = IF item.is = "value" THEN Append(job.locals, item.of) ELSE job.locals,
         job.item <= Len(job.items)
  PROVE  /\ IsSeq(locals)
         /\ Len(locals) = IF job.item < 3 THEN 0 ELSE job.item - 2
         /\ \A k \in 1..Len(locals) : locals[k] \in origin.expect[flavor.saved[k]]
         /\ job.items[job.item].is # "count"
<1> DEFINE item == job.items[job.item]
<1>1. /\ Plain(job.items, origin.expect) /\ job.item \in Nat \ {0} /\ IsSeq(job.locals)
      /\ Len(job.locals) = IF job.item <= 3 THEN 0 ELSE job.item - 3
      /\ \A k \in 1..Len(job.locals) : job.locals[k] \in origin.expect[flavor.saved[k]]
  BY SavedSound DEF PlainInv
<1>2. CASE job.item < 3
  <2>1. job.item = 1 \/ job.item = 2
    BY <1>1, <1>2
  <2>2. item.is = "magic" \/ item.is = "version"
    BY <1>1, <2>1 DEF Plain
  <2> QED BY <1>1, <1>2, <2>2
<1>3. CASE job.item >= 3
  <2> DEFINE k == job.item - 2
  <2>1. k \in 1..Len(job.items) - 2 /\ k + 2 = job.item /\ Len(job.locals) = k - 1
        /\ k \in Nat \ {0}
    BY <1>1, <1>3 DEF Plain, IsSeq
  <2> HIDE DEF k
  <2>2. item.is = "value" /\ item.of \in origin.expect[flavor.saved[k]]
    BY <1>1, <2>1 DEF Plain
  <2>3. locals = Append(job.locals, item.of)
    BY <2>2
  <2>4. /\ IsSeq(locals) /\ Len(locals) = k
        /\ \A i \in 1..k - 1 : locals[i] = job.locals[i]
        /\ locals[k] = item.of
    BY <1>1, <2>1, <2>3, Appended
  <2>5. \A i \in 1..Len(locals) : locals[i] \in origin.expect[flavor.saved[i]]
    <3> TAKE i \in 1..Len(locals)
    <3>1. CASE i = k
      BY <2>2, <2>4, <3>1
    <3>2. CASE i \in 1..k - 1
      BY <1>1, <2>1, <2>4, <3>2
    <3> QED BY <2>1, <2>4, <3>1, <3>2
  <2>6. Len(locals) = job.item - 2 /\ ~(job.item < 3)
    BY <1>1, <1>3, <2>1, <2>4
  <2> QED BY <2>2, <2>4, <2>5, <2>6
<1> QED BY <1>1, <1>2, <1>3

(* A stream without ids: values are gathered until the last one.           *)
LEMMA PlainRead ==
  ASSUME StreamInv, ItemRead, origin.kind # "foreign", ~flavor.tagged,
         UNCHANGED <<flavor, touched, unseen, blob, window>>
  PROVE  StreamInv'
<1> USE DEF StreamInv
<1> DEFINE item == job.items[job.item]
           next == WithItem(item)
           locals == IF item.is = "value" THEN Append(job.locals, item.of)
               ELSE job.locals
<1>1. job.op = "load" /\ LoadShape /\ PlainInv
  BY DEF ItemRead, LoadInv
<1>2. /\ Saved \in Nat \ {0} /\ ItemCount(Saved) = 2 + Saved
      /\ Saved' = Saved /\ ItemCount(Saved)' = ItemCount(Saved)
  BY SavedSound, Counts DEF Saved, ItemCount
<1>3. stored' = stored /\ UNCHANGED origin
  BY DEF ItemRead, LoadedInto
<1>4. /\ IsSeq(locals)
      /\ Len(locals) = IF job.item < 3 THEN 0 ELSE job.item - 2
      /\ \A k \in 1..Len(locals) : locals[k] \in origin.expect[flavor.saved[k]]
      /\ item.is # "count"
  <2>1. job.item <= Len(job.items)
    BY <1>1, <1>2 DEF ItemRead, PlainInv, Plain, IsSeq
  <2> QED BY <1>1, <2>1, PlainLocals
<1>5. next.count = Saved /\ next.locals = locals
  BY <1>1, <1>4, WithItemFields DEF PlainInv
<1>6. /\ job.item \in Nat \ {0} /\ job.item <= 2 + Saved
      /\ Plain(job.items, origin.expect)
      /\ \A p \in Params(flavor) \ touched : Kept(p)
  BY <1>1, <1>2 DEF PlainInv
<1>7. TableInv' /\ \A p \in flavor.meters : stored'[p] = stored[p]
  BY <1>3 DEF TableInv
<1>8. CASE job.item < ItemCount(Saved)
  <2>1. job' = [next EXCEPT !.item = @ + 1, !.got = 0]
    BY <1>5, <1>8 DEF ItemRead
  <2>2. /\ job'.op = "load" /\ job'.item = job.item + 1 /\ job'.items = job.items
        /\ job'.count = Saved /\ job'.locals = locals /\ LoadShape'
    <3>1. next = WithItem(item) /\ job.count = Saved
      BY <1>1 DEF PlainInv
    <3>2. locals = IF item.is = "value" THEN Append(job.locals, item.of) ELSE job.locals
      OBVIOUS
    <3> HIDE DEF item, next, locals
    <3> QED BY <1>1, <1>4, <2>1, <3>1, <3>2, NextFields
  <2> HIDE DEF locals, item, next
  <2>3. Plain(job.items, origin.expect)'
    BY <1>2, <1>3, <1>6, <2>2 DEF Plain, IsSeq
  <2>4. \A p \in Params(flavor') \ touched' : Kept(p)'
    BY <1>3, <1>6 DEF Kept
  <2>5. /\ job'.item \in 1..ItemCount(Saved)' /\ job'.count = Saved'
        /\ Len(job'.locals) = IF job'.item <= 3 THEN 0 ELSE job'.item - 3
    BY <1>2, <1>4, <1>6, <1>8, <2>2
  <2>6. /\ IsSeq(job.locals)'
        /\ \A k \in 1..Len(job'.locals) :
             job'.locals[k] \in origin'.expect[flavor'.saved[k]]
    BY <1>3, <1>4, <2>2 DEF IsSeq
  <2>7. PlainInv'
    BY <2>3, <2>4, <2>5, <2>6 DEF PlainInv
  <2>8. LoadInv' /\ StoreInv'
    BY <1>3, <2>2, <2>7 DEF LoadInv, StoreInv
  <2> QED BY <1>1, <1>3, <1>7, <2>2, <2>8, LoadGoesOn
<1>9. CASE ~(job.item < ItemCount(Saved))
  <2>1. job' = [op |-> "store", locals |-> locals, at |-> 1, rescan |-> FALSE]
    BY <1>5, <1>9 DEF ItemRead
  <2>2. Len(locals) = Saved
    BY <1>2, <1>4, <1>6, <1>9
  <2> HIDE DEF locals, item, next
  <2>3. /\ job'.op = "store" /\ job'.at = 1 /\ job'.locals = locals
        /\ job' = [op |-> job'.op, locals |-> job'.locals, at |-> job'.at,
                   rescan |-> job'.rescan]
    BY <2>1
  <2>4. /\ \A k \in 1..Saved' : job'.locals[k] \in origin'.expect[flavor'.saved[k]]
        /\ job'.at \in 1..Saved' /\ \A k \in 1..job'.at - 1 : FALSE
    BY <1>2, <1>3, <1>4, <2>2, <2>3
  <2>5. LoadInv' /\ StoreInv'
    BY <1>3, <2>3, <2>4 DEF LoadInv, StoreInv
  <2> QED BY <1>1, <1>3, <1>7, <2>3, <2>5, LoadGoesOn
<1> QED BY <1>8, <1>9
(* With ids: what a step of the load leaves to be shown.                   *)
LEMMA TaggedGoesOn ==
  ASSUME StreamInv, job.op = "load", TaggedInv, origin.kind # "foreign", flavor.tagged,
         UNCHANGED <<flavor, touched, unseen, blob, window, origin>>,
         job'.op = "load", LoadShape', job'.items = job.items,
             job'.item \in 1..Len(job.items),
         job'.count = IF job'.item <= 3 THEN Saved ELSE job.items[3].of,
         \A k \in 1..job.items[3].of :
           /\ job'.item = 2 * k + 3 => job'.id = job.items[2 * k + 2].of
           /\ job'.item > 2 * k + 3 /\ Settable(job.items[2 * k + 2].of) =>
                AsExpected(job.items[2 * k + 2].of)',
         \A p \in Params(flavor) \ touched : Kept(p)' \/ AsExpected(p)',
         TableInv', \A p \in flavor.meters : stored'[p] = stored[p]
  PROVE  StreamInv'
<1>1. Tagged(job.items, origin.expect)'
  BY TaggedStays DEF TaggedInv
<1>2. Saved' = Saved
  BY DEF Saved
<1>3. TaggedInv'
  BY <1>1, <1>2 DEF TaggedInv, Settable, AsExpected
<1>4. LoadInv' /\ StoreInv'
  BY <1>3 DEF LoadInv, StoreInv
<1> QED BY <1>4, LoadGoesOn

(* A stream with ids: the magic, the version and the count.                *)
LEMMA TaggedHeader ==
  ASSUME StreamInv, ItemRead, origin.kind # "foreign", flavor.tagged,
         job.item \in {1, 2, 3}, UNCHANGED <<flavor, touched, unseen, blob, window>>
  PROVE  StreamInv'
<1> USE DEF StreamInv
<1> DEFINE item == job.items[job.item]
           next == WithItem(item)
<1>1. job.op = "load" /\ LoadShape /\ TaggedInv
  BY DEF ItemRead, LoadInv
<1>2. /\ job.items[3].of \in Nat \ {0} /\ Len(job.items) = 3 + 2 * job.items[3].of
      /\ item.is \in {"magic", "version", "count"}
      /\ item.is = "count" <=> job.item = 3
      /\ job.count = Saved /\ Saved \in Nat \ {0}
      /\ \A p \in Params(flavor) \ touched : Kept(p) \/ AsExpected(p)
  <2>1. /\ job.items[1].is = "magic" /\ job.items[2].is = "version"
        /\ job.items[3].is = "count"
        /\ job.items[3].of \in Nat \ {0} /\ Len(job.items) = 3 + 2 * job.items[3].of
    BY <1>1 DEF TaggedInv, Tagged
  <2>2. /\ item.is \in {"magic", "version", "count"}
        /\ item.is = "count" <=> job.item = 3
    BY <2>1
  <2>3. /\ job.count = IF job.item <= 3 THEN Saved ELSE job.items[3].of
        /\ \A p \in Params(flavor) \ touched : Kept(p) \/ AsExpected(p)
    BY <1>1 DEF TaggedInv
  <2>4. job.item <= 3
    OBVIOUS
  <2> QED BY <2>1, <2>2, <2>3, <2>4, SavedSound
<1>3. stored' = stored
  BY <1>2 DEF ItemRead, LoadedInto
<1>4. next.count = IF job.item = 3 THEN job.items[3].of ELSE Saved
  <2>1. next.count = IF item.is = "count" THEN item.of ELSE job.count
    BY <1>1, WithItemFields
  <2>2. job.item = 3 => item.of = job.items[3].of
    OBVIOUS
  <2> HIDE DEF item, next
  <2> QED BY <1>2, <2>1, <2>2
<1>5. job.item < ItemCount(next.count)
  <2>1. next.count \in Nat \ {0}
    BY <1>2, <1>4
  <2>2. ItemCount(next.count) = 3 + 2 * next.count
    BY <2>1, Counts
  <2> HIDE DEF next
  <2> QED BY <2>1, <2>2
<1>6. job' = [next EXCEPT !.item = @ + 1, !.got = 0] /\ UNCHANGED origin
  BY <1>5 DEF ItemRead
<1>7. /\ job'.op = "load" /\ job'.item = job.item + 1 /\ job'.items = job.items
      /\ job'.count = IF job.item = 3 THEN job.items[3].of ELSE Saved
      /\ LoadShape'
  <2>1. next = WithItem(item) /\ (item.is = "count" <=> job.item = 3)
        /\ (job.item = 3 => item.of = job.items[3].of)
    BY <1>2
  <2> HIDE DEF item, next
  <2>2. /\ job'.op = "load" /\ job'.item = job.item + 1 /\ job'.items = job.items
        /\ job'.count = IF item.is = "count" THEN item.of ELSE job.count
        /\ LoadShape'
    BY <1>1, <1>6, <2>1, NextFields
  <2> QED BY <1>2, <2>1, <2>2
<1> HIDE DEF item, next
<1>8. /\ job'.item \in 1..Len(job.items)
      /\ job'.count = IF job'.item <= 3 THEN Saved ELSE job.items[3].of
      /\ \A k \in 1..job.items[3].of : job'.item # 2 * k + 3 /\ ~(job'.item > 2 * k + 3)
  <2>1. job'.item \in {2, 3, 4} /\ (job.item = 3 <=> ~(job'.item <= 3))
    BY <1>7
  <2> QED BY <1>2, <1>7, <2>1
<1>9. \A p \in Params(flavor) \ touched : Kept(p)' \/ AsExpected(p)'
  BY <1>2, <1>3, <1>6 DEF Kept, AsExpected
<1>10. TableInv'
  BY <1>3 DEF TableInv
<1> QED BY <1>1, <1>3, <1>6, <1>7, <1>8, <1>9, <1>10, TaggedGoesOn

(* An id is remembered until its value comes.                              *)
LEMMA TaggedId ==
  ASSUME StreamInv, ItemRead, origin.kind # "foreign", flavor.tagged,
         NEW k \in 1..job.items[3].of, job.item = 2 * k + 2,
         UNCHANGED <<flavor, touched, unseen, blob, window>>
  PROVE  StreamInv'
<1> USE DEF StreamInv
<1> DEFINE item == job.items[job.item]
           next == WithItem(item)
<1>1. job.op = "load" /\ LoadShape /\ TaggedInv
  BY DEF ItemRead, LoadInv
<1>2. /\ job.items[3].of \in Nat \ {0} /\ Len(job.items) = 3 + 2 * job.items[3].of
      /\ item.is = "id" /\ job.item > 3
      /\ \A p \in Params(flavor) \ touched : Kept(p) \/ AsExpected(p)
  BY <1>1 DEF TaggedInv, Tagged
<1>3. job.count = job.items[3].of /\ k \in Nat \ {0}
          /\ job.item < 3 + 2 * job.items[3].of
  <2>1. job.count = IF job.item <= 3 THEN Saved ELSE job.items[3].of
    BY <1>1 DEF TaggedInv
  <2> QED BY <1>2, <2>1
<1>4. stored' = stored
  BY <1>2 DEF ItemRead, LoadedInto
<1>5. next.count = job.items[3].of
  BY <1>1, <1>2, <1>3, WithItemFields
<1>6. job.item < ItemCount(next.count)
  BY <1>2, <1>3, <1>5, Counts
<1>7. job' = [next EXCEPT !.item = @ + 1, !.got = 0] /\ UNCHANGED origin
  BY <1>6 DEF ItemRead
<1>8. /\ job'.op = "load" /\ job'.item = job.item + 1 /\ job'.items = job.items
      /\ job'.count = job.items[3].of /\ job'.id = job.items[2 * k + 2].of /\ LoadShape'
  <2>1. next = WithItem(item) /\ item.of = job.items[2 * k + 2].of
    OBVIOUS
  <2> HIDE DEF item, next
  <2>2. /\ job'.op = "load" /\ job'.item = job.item + 1 /\ job'.items = job.items
        /\ job'.count = IF item.is = "count" THEN item.of ELSE job.count
        /\ job'.id = IF item.is = "id" THEN item.of ELSE job.id
        /\ LoadShape'
    BY <1>1, <1>7, <2>1, NextFields
  <2> QED BY <1>2, <1>3, <2>1, <2>2
<1> HIDE DEF item, next
<1>9. /\ job'.item \in 1..Len(job.items) /\ ~(job'.item <= 3)
  BY <1>2, <1>3, <1>8
<1>10. ASSUME NEW j \in 1..job.items[3].of
       PROVE  /\ job'.item = 2 * j + 3 => job'.id = job.items[2 * j + 2].of
              /\ job'.item > 2 * j + 3 /\ Settable(job.items[2 * j + 2].of) =>
                   AsExpected(job.items[2 * j + 2].of)'
  <2>1. job'.item = 2 * j + 3 => j = k
    BY <1>2, <1>3, <1>8
  <2>2. job'.item > 2 * j + 3 => job.item > 2 * j + 3
    BY <1>2, <1>3, <1>8
  <2>3. job.item > 2 * j + 3 /\ Settable(job.items[2 * j + 2].of) =>
          AsExpected(job.items[2 * j + 2].of)
    BY <1>1 DEF TaggedInv
  <2> QED BY <1>4, <1>7, <1>8, <2>1, <2>2, <2>3 DEF AsExpected
<1>11. \A p \in Params(flavor) \ touched : Kept(p)' \/ AsExpected(p)'
  BY <1>2, <1>4, <1>7 DEF Kept, AsExpected
<1>12. TableInv'
  BY <1>4 DEF TableInv
<1> QED BY <1>1, <1>4, <1>7, <1>8, <1>9, <1>10, <1>11, <1>12, TaggedGoesOn

(* A value is stored under the id just read, if that can be set.           *)
LEMMA TaggedValue ==
  ASSUME StreamInv, ItemRead, origin.kind # "foreign", flavor.tagged,
         NEW k \in 1..job.items[3].of, job.item = 2 * k + 3,
         UNCHANGED <<flavor, touched, unseen, blob, window>>
  PROVE  StreamInv'
<1> USE DEF StreamInv
<1> DEFINE item == job.items[job.item]
           next == WithItem(item)
           p == job.items[2 * k + 2].of
<1>1. job.op = "load" /\ LoadShape /\ TaggedInv /\ origin.outcome = "running"
          /\ unseen = {}
  BY DEF ItemRead, LoadInv, OriginInv, UnseenInv
<1>2. /\ job.items[3].of \in Nat \ {0} /\ Len(job.items) = 3 + 2 * job.items[3].of
      /\ item.is = "value" /\ job.item > 3 /\ job.id = p
      /\ Settable(p) => item.of \in origin.expect[p]
      /\ \A q \in Params(flavor) \ touched : Kept(q) \/ AsExpected(q)
  BY <1>1 DEF TaggedInv, Tagged
<1>3. job.count = job.items[3].of /\ k \in Nat \ {0}
  <2>1. job.count = IF job.item <= 3 THEN Saved ELSE job.items[3].of
    BY <1>1 DEF TaggedInv
  <2> QED BY <1>2, <2>1
<1>4. stored' = IF Settable(p) THEN [stored EXCEPT ![p] = item.of] ELSE stored
  BY <1>2 DEF ItemRead, LoadedInto
<1>5. next.count = job.items[3].of
  BY <1>1, <1>2, <1>3, WithItemFields
<1>6. ItemCount(next.count) = 3 + 2 * job.items[3].of
  BY <1>2, <1>5, Counts
<1>7. \/ /\ job.item < ItemCount(next.count)
         /\ job' = [next EXCEPT !.item = @ + 1, !.got = 0]
           /\ UNCHANGED origin
      \/ ~(job.item < ItemCount(next.count)) /\ EndLoad("restored")
  BY DEF ItemRead
<1>8. /\ \A q \in Params(flavor) : q # p => stored'[q] = stored[q]
      /\ Settable(p) => stored'[p] \in origin.expect[p]
      /\ ~Settable(p) => stored' = stored
  <2>1. DOMAIN stored = Params(flavor) /\ (Settable(p) => p \in Params(flavor))
    BY SavedSound DEF Settable
  <2> HIDE DEF item, p
  <2> QED BY <1>2, <1>4, <2>1
<1> HIDE DEF item, next, p
<1>9. \A q \in Params(flavor) :
        stored[q] \in origin.expect[q] => stored'[q] \in origin.expect[q]
  BY <1>8
<1>10. \A q \in Params(flavor) \ touched :
         stored'[q] = origin.before[q] \/ stored'[q] \in origin.expect[q]
  BY <1>2, <1>8, <1>9 DEF Kept, AsExpected
<1>11. \A q \in flavor.meters : stored'[q] = stored[q]
  BY <1>8 DEF Settable, Params
<1>12. TableInv'
  BY <1>4, StoringKeepsTable DEF Stored
<1>13. ASSUME NEW j \in 1..job.items[3].of, j <= k, Settable(job.items[2 * j + 2].of),
              job.items[2 * j + 2].of \notin touched
       PROVE  stored'[job.items[2 * j + 2].of]
                  \in origin.expect[job.items[2 * j + 2].of]
  <2>1. job.items[2 * j + 2].of \in Params(flavor)
    BY <1>13 DEF Settable
  <2>2. CASE j = k
    BY <1>8, <1>13, <2>2 DEF p
  <2>3. CASE j < k
    <3>1. job.item > 2 * j + 3
      BY <1>2, <1>3, <2>3
    <3>2. AsExpected(job.items[2 * j + 2].of)
      BY <1>1, <1>13, <3>1 DEF TaggedInv
    <3> QED BY <1>9, <1>13, <2>1, <3>2 DEF AsExpected
  <2>4. j = k \/ j < k
    BY <1>2, <1>3, <1>13
  <2> QED BY <2>2, <2>3, <2>4
<1>14. CASE /\ job.item < ItemCount(next.count) /\ UNCHANGED origin
            /\ job' = [next EXCEPT !.item = @ + 1, !.got = 0]
  <2>1. /\ job'.op = "load" /\ job'.item = job.item + 1 /\ job'.items = job.items
        /\ job'.count = job.items[3].of /\ LoadShape'
    <3>1. next = WithItem(item)
      BY DEF next
    <3>2. /\ job'.op = "load" /\ job'.item = job.item + 1 /\ job'.items = job.items
          /\ job'.count = IF item.is = "count" THEN item.of ELSE job.count
          /\ LoadShape'
      BY <1>1, <1>14, <3>1, NextFields, Zenon
    <3> QED BY <1>2, <1>3, <3>2
  <2>2. /\ job'.item \in 1..Len(job.items) /\ ~(job'.item <= 3)
    <3>1. job.item < 3 + 2 * job.items[3].of
      BY <1>6, <1>14
    <3>2. job.item \in Nat /\ job'.item = job.item + 1
      BY <1>3, <2>1
    <3> QED BY <1>2, <3>1, <3>2
  <2>3. ASSUME NEW j \in 1..job.items[3].of
        PROVE  /\ job'.item # 2 * j + 3
               /\ job'.item > 2 * j + 3 /\ Settable(job.items[2 * j + 2].of) =>
                    AsExpected(job.items[2 * j + 2].of)'
    <3>1. job'.item # 2 * j + 3 /\ (job'.item > 2 * j + 3 => j <= k)
      BY <1>2, <1>3, <2>1
    <3> QED BY <1>13, <1>14, <2>1, <3>1 DEF AsExpected
  <2>4. \A q \in Params(flavor) \ touched : Kept(q)' \/ AsExpected(q)'
    BY <1>10, <1>14 DEF Kept, AsExpected
  <2> QED BY <1>1, <1>11, <1>12, <1>14, <2>1, <2>2, <2>3, <2>4, TaggedGoesOn
<1>15. CASE ~(job.item < ItemCount(next.count)) /\ EndLoad("restored")
  <2>1. k = job.items[3].of
    BY <1>2, <1>3, <1>6, <1>15
  <2>2. ASSUME NEW q \in ToSet(flavor.saved) \ touched
        PROVE  stored'[q] \in origin.expect[q]
    <3>1. PICK j \in 1..job.items[3].of : job.items[2 * j + 2].of = q
      BY <1>1 DEF TaggedInv, Tagged
    <3>2. Settable(q) /\ j <= k
      BY <1>2, <2>1, SavedSound
    <3> QED BY <1>13, <2>2, <3>1, <3>2
  <2> QED BY <1>1, <1>11, <1>12, <1>15, <2>2, LoadEnds
<1> QED BY <1>7, <1>14, <1>15

(* The item a tagged load has read is of one of the three kinds.           *)
LEMMA TaggedRead ==
  ASSUME StreamInv, ItemRead, origin.kind # "foreign", flavor.tagged,
         UNCHANGED <<flavor, touched, unseen, blob, window>>
  PROVE  StreamInv'
<1>1. /\ job.item \in 1..Len(job.items) /\ job.items[3].of \in Nat \ {0}
      /\ Len(job.items) = 3 + 2 * job.items[3].of
  BY DEF StreamInv, ItemRead, LoadInv, TaggedInv, Tagged
<1>2. CASE job.item \in {1, 2, 3}
  BY <1>2, TaggedHeader
<1>3. CASE job.item \notin {1, 2, 3}
  <2>1. job.item \in Nat /\ job.item >= 4
    BY <1>1, <1>3
  <2>2. PICK k \in Nat \ {0} : job.item = 2 * k + 2 \/ job.item = 2 * k + 3
    BY <2>1, Halves
  <2>3. k \in 1..job.items[3].of
    BY <1>1, <2>2
  <2> QED BY <2>2, <2>3, TaggedId, TaggedValue
<1> QED BY <1>2, <1>3

(* Each outcome of the host's read() keeps the invariant.                  *)
LEMMA LoadWordsStep ==
  ASSUME StreamInv, NEW words, LoadWords(words)
  PROVE  StreamInv'
<1>1. /\ job.op = "load" /\ UNCHANGED <<flavor, touched, unseen, blob, window>>
      /\ flavor.tagged \in BOOLEAN
  BY LoadWordsCases, SavedSound DEF StreamInv
<1>2. CASE EndLoad("refused") /\ UNCHANGED stored
  BY <1>1, <1>2, RefusedStep
<1>3. CASE job' = [job EXCEPT !.got = @ + words] /\ UNCHANGED <<origin, stored>>
  BY <1>1, <1>3, PartStep
<1>4. CASE ItemRead
  BY <1>1, <1>4, ForeignRead, TaggedRead, PlainRead
<1> QED BY <1>2, <1>3, <1>4, LoadWordsCases
-----------------------------------------------------------------------------
(* Presets, and the values of a stream without ids, are stored one by one. *)

(* A flavor without ids, or a preset, stores its next value.               *)
LEMMA StoreNextStep ==
  ASSUME StreamInv, StoreNext
  PROVE  StreamInv'
<1> USE DEF StreamInv
<1> DEFINE p == flavor.saved[job.at]
           v == job.locals[job.at]
<1>1. /\ job = [op |-> job.op, locals |-> job.locals, at |-> job.at,
             rescan |-> job.rescan]
      /\ ~flavor.tagged /\ origin.kind # "foreign" /\ job.at \in 1..Saved
      /\ \A k \in 1..Saved : job.locals[k] \in origin.expect[flavor.saved[k]]
      /\ \A k \in 1..job.at - 1 : AsExpected(flavor.saved[k])
      /\ job.op = "store" /\ origin.outcome = "running"
  BY DEF StoreNext, StoreInv, OriginInv
<1>2. /\ UNCHANGED <<flavor, touched, blob, window>> /\ Stored(p, v)
      /\ unseen' = IF job.rescan THEN unseen \cup {p} ELSE unseen
      /\ \/ job.at < Saved /\ job' = [job EXCEPT !.at = @ + 1] /\ UNCHANGED origin
         \/ ~(job.at < Saved) /\ job.rescan /\ job' = [op |-> "rescan"]
                /\ UNCHANGED origin
         \/ ~(job.at < Saved) /\ ~job.rescan /\ EndLoad("restored")
  BY DEF StoreNext, Assign, Stored, Saved
<1>3. /\ Saved \in Nat \ {0} /\ Saved' = Saved /\ p \in Params(flavor)
      /\ p \notin flavor.meters
      /\ v \in origin.expect[p] /\ DOMAIN stored = Params(flavor)
      /\ \A k \in 1..Saved : flavor.saved[k] \in Params(flavor)
  BY <1>1, <1>2, SavedSound DEF Saved, Settable
<1> HIDE DEF p, v
<1>4. \A q \in Params(flavor) :
        /\ q # p => stored'[q] = stored[q]
        /\ q = p => stored'[q] \in origin.expect[q]
  BY <1>2, <1>3 DEF Stored
<1>5. \A k \in 1..job.at :
        flavor.saved[k] \notin touched => stored'[flavor.saved[k]]
            \in origin.expect[flavor.saved[k]]
  <2> TAKE k \in 1..job.at
  <2>1. flavor.saved[k] \in Params(flavor)
    BY <1>1, <1>3
  <2>2. CASE k = job.at
    BY <1>4, <2>1, <2>2 DEF p
  <2>3. CASE k \in 1..job.at - 1
    BY <1>1, <1>4, <2>1, <2>3 DEF AsExpected
  <2> QED BY <1>1, <2>2, <2>3
<1>6. TableInv' /\ \A q \in flavor.meters : stored'[q] = stored[q]
  <2>1. TableInv'
    BY <1>2, StoringKeepsTable
  <2>2. flavor.meters \subseteq Params(flavor)
    BY DEF Params
  <2> QED BY <1>3, <1>4, <2>1, <2>2
<1>7. BlobInv'
  BY <1>2, SameBlob
<1>8. \A q \in flavor.meters \ touched : stored'[q] = origin.before[q]
  BY <1>1, <1>6 DEF RefusedLoadKeeps
<1>9. ASSUME ~(job.at < Saved), NEW q \in ToSet(flavor.saved) \ touched
      PROVE  stored'[q] \in origin.expect[q]
  <2>1. PICK k \in 1..Saved : q = flavor.saved[k]
    BY SavedSound
  <2>2. k \in 1..job.at
    BY <1>1, <1>3, <1>9
  <2> QED BY <1>5, <1>9, <2>1, <2>2
<1>10. unseen # {} => job.rescan
  BY <1>1 DEF UnseenInv
<1>11. CASE job.at < Saved /\ job' = [job EXCEPT !.at = @ + 1] /\ UNCHANGED origin
  <2>1. /\ job'.op = "store" /\ job'.at = job.at + 1 /\ job'.locals = job.locals
        /\ job'.rescan = job.rescan
        /\ job' = [op |-> job'.op, locals |-> job'.locals, at |-> job'.at,
                   rescan |-> job'.rescan]
    BY <1>1, <1>11
  <2>2. \A k \in 1..job'.at - 1 : AsExpected(flavor.saved[k])'
    BY <1>1, <1>2, <1>5, <1>11, <2>1 DEF AsExpected
  <2>3. job'.at \in 1..Saved
    BY <1>1, <1>3, <1>11, <2>1
  <2>4. StoreInv'
    BY <1>1, <1>2, <1>3, <1>11, <2>1, <2>2, <2>3 DEF StoreInv
  <2>5. /\ job' # Idle /\ job'.op \notin {"gather", "save", "load", "rescan"}
        /\ job'.op \in {"load", "store", "rescan"}
    BY <2>1 DEF Idle
  <2>6. SaveInv' /\ LoadInv' /\ RescanInv' /\ OriginInv'
    BY <1>1, <1>11, <2>5 DEF SaveInv, LoadInv, RescanInv, OriginInv
  <2>7. UnseenInv'
    BY <1>2, <1>10, <2>1 DEF UnseenInv
  <2>8. LoadRestores' /\ RefusedLoadKeeps'
    BY <1>1, <1>2, <1>8, <1>11, <2>5 DEF LoadRestores, RefusedLoadKeeps, MainFree
  <2> QED BY <1>6, <1>7, <2>4, <2>6, <2>7, <2>8
<1>12. CASE ~(job.at < Saved) /\ job.rescan /\ job' = [op |-> "rescan"]
                /\ UNCHANGED origin
  <2>1. /\ job'.op = "rescan" /\ job' # Idle
    BY <1>12 DEF Idle
  <2>2. SaveInv' /\ LoadInv' /\ StoreInv' /\ OriginInv' /\ UnseenInv'
    BY <1>1, <1>12, <2>1 DEF SaveInv, LoadInv, StoreInv, OriginInv, UnseenInv
  <2>3. RescanInv'
    BY <1>1, <1>2, <1>9, <1>12 DEF RescanInv, AsExpected
  <2>4. LoadRestores' /\ RefusedLoadKeeps'
    BY <1>1, <1>2, <1>8, <1>12, <2>1 DEF LoadRestores, RefusedLoadKeeps, MainFree
  <2> QED BY <1>6, <1>7, <2>2, <2>3, <2>4
<1>13. CASE ~(job.at < Saved) /\ ~job.rescan /\ EndLoad("restored")
  <2>1. unseen' = {}
    BY <1>2, <1>10, <1>13
  <2> QED BY <1>1, <1>2, <1>6, <1>9, <1>13, <2>1, LoadEnds
<1> QED BY <1>2, <1>11, <1>12, <1>13

(* After a preset the host reads every value again.                        *)
LEMMA RescanStep ==
  ASSUME StreamInv, Rescan
  PROVE  StreamInv'
<1> USE DEF StreamInv
<1>1. /\ job.op = "rescan" /\ unseen' = {} /\ EndLoad("restored")
      /\ UNCHANGED <<flavor, stored, touched, blob, window>>
  BY DEF Rescan
<1>2. /\ origin.outcome = "running" /\ origin.kind # "foreign"
      /\ \A p \in ToSet(flavor.saved) : AsExpected(p)
  BY <1>1 DEF OriginInv, RescanInv
<1>3. TableInv'
  BY <1>1 DEF TableInv
<1> QED BY <1>1, <1>2, <1>3, LoadEnds DEF AsExpected

(* A preset that is found is stored, one that is not changes nothing.      *)
LEMMA FromLocationStep ==
  ASSUME StreamInv, NEW location \in Location, FromLocation(location)
  PROVE  StreamInv'
<1> USE DEF StreamInv
<1> DEFINE data == location.data
           expect == [p \in Params(flavor) |->
                        IF data # <<>> THEN {data[IF p = "gain" THEN 1 ELSE 2]} ELSE {}]
<1>1. /\ flavor.name = "preset" /\ job = Idle /\ touched' = {}
      /\ UNCHANGED <<flavor, stored, unseen, blob, window>>
      /\ job' = IF data # <<>> THEN [op |-> "store", locals |-> data, at |-> 1,
             rescan |-> TRUE]
                ELSE Idle
      /\ origin' = [kind |-> "preset", outcome |-> IF data # <<>> THEN "running"
             ELSE "refused",
                    before |-> stored, expect |-> expect]
  BY DEF FromLocation, BeginJob, MainFree
<1>2. flavor.saved = <<"gain", "color">> /\ ~flavor.tagged
  BY <1>1, SoundFlavor DEF Sound
<1>3. Saved' = Saved /\ Saved = 2
  BY <1>1, <1>2 DEF Saved
<1>4. unseen = {}
  BY <1>1 DEF UnseenInv, Idle
<1>5. TableInv' /\ BlobInv'
  BY <1>1, SameBlob DEF TableInv
<1>6. /\ origin'.kind = "preset" /\ origin'.before = stored /\ origin'.expect = expect
      /\ origin'.outcome = IF data # <<>> THEN "running" ELSE "refused"
      /\ origin' = [kind |-> origin'.kind, outcome |-> origin'.outcome,
                    before |-> origin'.before, expect |-> origin'.expect]
  BY <1>1
<1>7. \A k \in 1..2 : data # <<>> => data[k] \in expect[flavor.saved[k]]
  <2>1. flavor.saved[1] = "gain" /\ flavor.saved[2] = "color"
    BY <1>2
  <2>2. flavor.saved[1] \in Params(flavor) /\ flavor.saved[2] \in Params(flavor)
    BY <1>3, SavedSound
  <2>3. data # <<>> => data[1] \in expect["gain"] /\ data[2] \in expect["color"]
    BY <2>1, <2>2
  <2> QED BY <2>1, <2>3
<1> HIDE DEF data, expect
<1>8. CASE data # <<>>
  <2>1. /\ job'.op = "store" /\ job'.at = 1 /\ job'.locals = data /\ job' # Idle
        /\ job' = [op |-> job'.op, locals |-> job'.locals, at |-> job'.at,
                   rescan |-> job'.rescan]
    BY <1>1, <1>8 DEF Idle
  <2>2. StoreInv'
    BY <1>1, <1>2, <1>3, <1>6, <1>7, <1>8, <2>1 DEF StoreInv
  <2>3. SaveInv' /\ LoadInv' /\ RescanInv' /\ OriginInv' /\ UnseenInv'
    BY <1>1, <1>4, <1>6, <1>8, <2>1 DEF SaveInv, LoadInv, RescanInv, OriginInv,
       UnseenInv
  <2>4. LoadRestores' /\ RefusedLoadKeeps'
    <3>1. flavor.meters \subseteq Params(flavor)
      BY DEF Params
    <3> QED BY <1>1, <1>4, <1>6, <1>8, <2>1, <3>1 DEF LoadRestores, RefusedLoadKeeps
  <2> QED BY <1>5, <2>2, <2>3, <2>4
<1>9. CASE data = <<>>
  <2>1. job' = Idle /\ job'.op = "idle" /\ origin'.outcome = "refused"
    BY <1>1, <1>6, <1>9 DEF Idle
  <2>2. SaveInv' /\ LoadInv' /\ StoreInv' /\ RescanInv' /\ OriginInv' /\ UnseenInv'
    BY <1>1, <1>4, <1>6, <2>1
       DEF SaveInv, LoadInv, StoreInv, RescanInv, OriginInv, UnseenInv
  <2>3. LoadRestores' /\ RefusedLoadKeeps'
    BY <1>1, <1>4, <1>6, <2>1 DEF LoadRestores, RefusedLoadKeeps
  <2> QED BY <1>5, <2>2, <2>3
<1> QED BY <1>8, <1>9

(* What is delivered from outside, to the audio thread or by the host.     *)
LEMMA DeliverStep ==
  ASSUME StreamInv, NEW e \in ParamEvent, NEW flushed, NEW playing,
         Deliver(e, flushed, playing)
  PROVE  StreamInv'
<1> DEFINE applied == IF e.type = "value" THEN Settable(e.id)
                      ELSE TakesModulation(e, flushed)
<1>1. UNCHANGED <<flavor, blob, window, origin, jobs>>
  BY DEF Deliver
<1>2. CASE applied /\ e.type = "value"
  <2>1. /\ Settable(e.id) /\ Stored(e.id, e.value) /\ touched' = touched \cup {e.id}
        /\ unseen' = unseen \ {e.id}
        /\ job' = IF job.op \in {"gather", "save"}
                    THEN [job EXCEPT !.window[e.id] = @ \cup {e.value}] ELSE job
    BY <1>2 DEF Deliver, AppliedValue, Stored
  <2>2. SetOutside(e.id, e.value)
    BY <1>1, <2>1 DEF SetOutside, Settable
  <2> QED BY <2>2, OutsideStep
<1>3. CASE ~(applied /\ e.type = "value")
  <2>1. UNCHANGED <<stored, touched, unseen, job>>
    BY <1>3 DEF Deliver
  <2> QED BY <1>1, <2>1, FrameStep DEF mainVars
<1> QED BY <1>2, <1>3

(* A meter is neither saved nor loaded.                                    *)
LEMMA MoveMeterStep ==
  ASSUME StreamInv, NEW p \in flavor.meters, NEW v, MoveMeter(p, v)
  PROVE  StreamInv'
<1>1. SetOutside(p, v)
  BY DEF MoveMeter, SetOutside, Stored, mainVars, Params, Settable
<1> QED BY <1>1, OutsideStep

(* Every step keeps the invariant.                                         *)
LEMMA StreamInvStep == StreamInv /\ [StreamsNext]_streamsVars => StreamInv'
<1> SUFFICES ASSUME StreamInv, [StreamsNext]_streamsVars PROVE StreamInv'
  OBVIOUS
<1>1. CASE Activate \/ Deactivate
  BY <1>1, FrameStep DEF Activate, Deactivate
<1>2. ASSUME NEW e \in ParamEvent, NEW flushed, NEW playing,
             Deliver(e, flushed, playing)
      PROVE  StreamInv'
  BY <1>2, DeliverStep
<1>3. ASSUME NEW p \in flavor.meters, NEW v, MoveMeter(p, v)  PROVE StreamInv'
  BY <1>3, MoveMeterStep
<1>4. CASE SaveBegin \/ Gather
  BY <1>4, SavingSteps
<1>5. CASE StoreNext \/ Rescan
  BY <1>5, StoreNextStep, RescanStep
<1>6. ASSUME NEW words, SaveWords(words) \/ LoadWords(words)  PROVE StreamInv'
  BY <1>6, SavingSteps, LoadWordsStep
<1>7. ASSUME NEW source \in Source, LoadBegin(source)  PROVE StreamInv'
  BY <1>7, LoadBeginStep
<1>8. ASSUME NEW location \in Location, FromLocation(location)  PROVE StreamInv'
  BY <1>8, FromLocationStep
<1>9. ASSUME NEW requests, ApplyConfiguration(requests)  PROVE StreamInv'
  BY <1>9, FrameStep DEF ApplyConfiguration
<1>10. ASSUME NEW n, Select(n)  PROVE StreamInv'
  BY <1>10, FrameStep DEF Select
<1>11. CASE UNCHANGED streamsVars
  BY <1>11, FrameStep DEF streamsVars
<1> QED
  BY <1>1, <1>2, <1>3, <1>4, <1>5, <1>6, <1>7, <1>8, <1>9, <1>10, <1>11 DEF StreamsNext

(* Of every flavor, whatever the host hands to load() and in however many  *)
(* pieces, and whatever the audio thread sets meanwhile: a load that       *)
(* returned true gave every parameter a value it had during the save, but  *)
(* for those set since; so did a preset, and the host has read it again.   *)
THEOREM LoadsRestore == StreamsSpec => []LoadRestores
<1>1. StreamInv => LoadRestores
  BY DEF StreamInv
<1> QED BY <1>1, StreamInvInit, StreamInvStep, PTL DEF StreamsSpec

(* A foreign state is refused, a load that returned false left every       *)
(* parameter alone or gave it its value of the stream, and none loads a    *)
(* meter.                                                                  *)
THEOREM RefusedLoadsKeep == StreamsSpec => []RefusedLoadKeeps
<1>1. StreamInv => RefusedLoadKeeps
  BY DEF StreamInv
<1> QED BY <1>1, StreamInvInit, StreamInvStep, PTL DEF StreamsSpec
=============================================================================
