---------------------------- MODULE FlavorStreams ---------------------------
(***************************************************************************)
(* The parameters of a flavor under everything that sets them at once:     *)
(* events of process() and flush() (judged by wrapper/plugin.cpp, applied  *)
(* by the flavor), state streams (wrapper/stream.cpp, ext/state.cpp), and  *)
(* presets (plugins/preset, ext/preset_load.cpp); and the port layouts a   *)
(* host may choose (plugins/surround, multiout_gen, multiout_fx).  The     *)
(* flavor is any of FlavorTables.                                          *)
(*                                                                         *)
(* A stream is a sequence of items: magic, version, count and id are one   *)
(* word of four bytes, a value is two.  The host moves any number of the   *)
(* words it is asked for, or none to refuse; between two of its calls, and *)
(* between two stores, the audio thread may deliver an event.              *)
(***************************************************************************)
EXTENDS FlavorTables

CONSTANTS
  Flavors,      \* the flavors explored
  Values,       \* parameter values
  Default,      \* what every parameter starts with
  Quiet,        \* parameters the events leave alone (to bound a run)
  Requests,     \* port configuration requests
  MaxParamEvents, \* bound: events delivered
  MaxJobs       \* bound: saves and loads begun

ASSUME StreamsAssumption ==
  /\ Flavors \subseteq AllFlavors
  /\ Default \in Values
  /\ MaxParamEvents \in Nat /\ MaxJobs \in Nat

VARIABLES
  flavor,
  stored,       \* the atomics behind paramStorage()
  offset,       \* _gainModDb of the zoo
  active, layout,
  hasParams,    \* has an activation captured the parameter table?
  job,          \* what the main thread is in the middle of
  blob,         \* the last state the host was given whole
  unseen,       \* parameters a preset has set and the host not read again
  verdict,      \* ledger: what the last event was charged with and did
  window,       \* ledger: the values each parameter had during that save
  origin,       \* ledger: the load under way, or the last one
  touched,      \* ledger: the parameters set by other means since it began
  baseline,     \* ledger: the latency read at activation, or loaded since
  restarted,    \* ledger: a restart was asked for since the activation
  chosen,       \* ledger: what the host asked of the layout and was granted
  running,      \* ledger: the layout at activation
  events, jobs

mainVars == <<job, blob, unseen, window, origin, jobs>>
portVars == <<layout, chosen, running>>
latencyVars == <<baseline, restarted>>
streamsVars ==
  <<flavor, stored, offset, active, hasParams, verdict, touched, events,
    mainVars, portVars, latencyVars>>

NoVerdict == [codes |-> {}, applied |-> FALSE, quirk |-> "no event"]
Idle == [op |-> "idle"]

StreamsInit ==
  /\ flavor \in Flavors
  /\ stored = [p \in Params(flavor) |-> Default] /\ offset = Default
  /\ active = FALSE /\ hasParams = FALSE
  /\ layout = flavor.layout /\ running = flavor.layout /\ chosen = {}
  /\ job = Idle /\ blob = <<>> /\ unseen = {}
  /\ verdict = NoVerdict /\ window = <<>> /\ touched = {}
  /\ origin = [kind |-> "none", outcome |-> "none"]
  /\ baseline = Default /\ restarted = FALSE
  /\ events = 0 /\ jobs = 0

MainFree == job = Idle
Settable(p) == p \in Params(flavor) \ flavor.meters
Restarts(p) == p \in flavor.restarting /\ active

(* activate() captures the parameter table and the ports, and the host     *)
(* reads the latency.                                                      *)
Activate ==
  /\ MainFree /\ ~active
  /\ active' = TRUE /\ hasParams' = TRUE
  /\ baseline' = IF flavor.restarting = {} THEN Default ELSE stored["latency"]
  /\ restarted' = FALSE
  /\ running' = layout
  /\ verdict' = NoVerdict
  /\ UNCHANGED <<flavor, stored, offset, touched, events, mainVars, layout, chosen>>

Deactivate ==
  /\ MainFree /\ active
  /\ active' = FALSE
  /\ verdict' = NoVerdict
  /\ UNCHANGED <<flavor, stored, offset, hasParams, touched, events, mainVars,
                 portVars, latencyVars>>
-----------------------------------------------------------------------------
\* Events

(* A parameter event, with at most one thing odd about it: a cookie that   *)
(* is not the one param_info gave, a note, key or channel address, or a    *)
(* header shorter than a header is.                                        *)
ParamEvent ==
  [type : {"value", "mod"}, id : (Params(flavor) \cup {"unknown"}) \ Quiet,
   value : Values, quirk : {"none", "cookie", "address", "short"}]

If(condition, code) == IF condition THEN {code} ELSE {}

BadModulation(e) ==
  \/ e.id \notin flavor.modulatable
  \/ e.quirk = "address" /\ e.id \notin flavor.perVoice

(* Mutant: the read-only flag is looked at for modulations only.           *)
CodesForgetReadOnly(e, playing) ==
  CASE ~hasParams \/ e.quirk = "short" -> {}
    [] e.id \notin Params(flavor) -> {"P08"}
    [] OTHER ->
         If(e.quirk = "cookie", "P11")
           \cup If(e.type = "mod" /\ BadModulation(e), "P13")
           \cup If(e.type = "value" /\ playing /\ e.id \notin flavor.automatable, "P14")

(* Plugin::checkParamEvents, of one event.                                 *)
Codes(e, playing) ==
  CASE ~hasParams \/ e.quirk = "short" -> {}
    [] e.id \notin Params(flavor) -> {"P08"}
    [] e.type = "value" /\ e.id \in flavor.meters ->
         If(e.quirk = "cookie", "P11") \cup {"P12"}
    [] OTHER ->
         If(e.quirk = "cookie", "P11")
           \cup If(e.type = "mod" /\ BadModulation(e), "P13")
           \cup If(e.type = "value" /\ playing /\ e.id \notin flavor.automatable, "P14")

(* Mutant: flush() stores without a look at the latency.                   *)
AppliedValueInBlocks(e, flushed) ==
  /\ stored' = [stored EXCEPT ![e.id] = e.value]
  /\ restarted' = (restarted \/ (~flushed /\ Restarts(e.id) /\ stored[e.id] # e.value))

(* The flavor's applyParamEvent() for a value: the exchange and, for the   *)
(* effect's latency, request_restart() when the value is another one.      *)
AppliedValue(e, flushed) ==
  /\ stored' = [stored EXCEPT ![e.id] = e.value]
  /\ restarted' = (restarted \/ (Restarts(e.id) /\ stored[e.id] # e.value))

(* A modulation: the zoo keeps one offset, whatever it is addressed to;    *)
(* the synth hands it to its voices, but not from flush(); the others      *)
(* ignore it.                                                              *)
TakesModulation(e, flushed) ==
  e.id \in flavor.modulatable /\ ~(flushed /\ e.id \in flavor.perVoice)

(* process() on the audio thread, or flush(): on the audio thread while    *)
(* active, else on the main thread.                                        *)
Deliver(e, flushed, playing) ==
  /\ events < MaxParamEvents /\ events' = events + 1
  /\ IF flushed THEN ~playing /\ (active \/ MainFree) ELSE active
  /\ LET applied == IF e.type = "value" THEN Settable(e.id)
                    ELSE TakesModulation(e, flushed)
     IN /\ verdict' = [codes |-> Codes(e, playing), applied |-> applied,
                       quirk |-> IF flushed /\ e.type = "mod" THEN "flushed"
                                 ELSE IF hasParams THEN e.quirk ELSE "no table"]
        /\ IF applied /\ e.type = "value"
             THEN /\ AppliedValue(e, flushed)
                  /\ touched' = touched \cup {e.id}
                  /\ unseen' = unseen \ {e.id}
                  /\ job' = IF job.op \in {"gather", "save"}
                              THEN [job EXCEPT !.window[e.id] = @ \cup {e.value}]
                              ELSE job
             ELSE UNCHANGED <<stored, restarted, touched, unseen, job>>
        /\ offset' = IF applied /\ e.type = "mod" /\ flavor.perVoice = {}
                       THEN e.value ELSE offset
  /\ UNCHANGED <<flavor, active, hasParams, blob, window, origin, jobs,
                 portVars, baseline>>

(* The zoo's process() writes its meter.                                   *)
MoveMeter(p, v) ==
  /\ active /\ p \in flavor.meters /\ events < MaxParamEvents /\ events' = events + 1
  /\ stored' = [stored EXCEPT ![p] = v]
  /\ touched' = touched \cup {p}
  /\ verdict' = NoVerdict
  /\ UNCHANGED <<flavor, offset, active, hasParams, mainVars, portVars, latencyVars>>
-----------------------------------------------------------------------------
\* State streams

Item(is, of) == [is |-> is, of |-> of]

(* The n-th item a flavor reads or writes.                                 *)
ItemKind(n) ==
  CASE n = 1 -> "magic"
    [] n = 2 -> "version"
    [] n = 3 /\ flavor.tagged -> "count"
    [] n > 3 /\ flavor.tagged /\ n % 2 = 0 -> "id"
    [] OTHER -> "value"
ItemCount(values) == IF flavor.tagged THEN 3 + 2 * values ELSE 2 + values
ValueIndex(n) == IF flavor.tagged THEN (n - 2) \div 2 ELSE n - 2

WordsOf(kind) == IF kind = "value" THEN 2 ELSE 1

(* streamReadAll() and streamWriteAll(): one call of the host's read() or  *)
(* write() for what is left of the item.                                   *)
WordsLeft == WordsOf(ItemKind(job.item)) - job.got
Moves(words) == words \in 1..WordsLeft
Refuses(words) == words = 0
ItemDone(words) == words = WordsLeft

BeginJob == MainFree /\ jobs < MaxJobs /\ jobs' = jobs + 1 /\ verdict' = NoVerdict

(* stateSave().  The flavors without ids load every value first.           *)
SaveBegin ==
  /\ BeginJob
  /\ job' = [op |-> IF flavor.tagged THEN "save" ELSE "gather",
             item |-> 1, got |-> 0, out |-> <<>>, locals |-> <<>>,
             window |-> [p \in Params(flavor) |-> {stored[p]}]]
  /\ UNCHANGED <<flavor, stored, offset, active, hasParams, touched, events,
                 blob, unseen, window, origin, portVars, latencyVars>>

Gather ==
  /\ job.op = "gather"
  /\ LET locals == Append(job.locals, stored[flavor.saved[Len(job.locals) + 1]])
     IN job' = [job EXCEPT !.locals = locals,
                           !.op = IF Len(locals) = Len(flavor.saved) THEN "save" ELSE @]
  /\ verdict' = NoVerdict
  /\ UNCHANGED <<flavor, stored, offset, active, hasParams, touched, events,
                 blob, unseen, window, origin, jobs, portVars, latencyVars>>

(* The values known when the n-th item is written: with ids, each one is   *)
(* loaded as its id's turn comes.                                          *)
LocalsAt(n) ==
  IF flavor.tagged /\ ItemKind(n) = "id"
    THEN Append(job.locals, stored[flavor.saved[ValueIndex(n)]])
    ELSE job.locals

ItemAt(n, locals) ==
  LET kind == ItemKind(n) IN
  Item(kind, CASE kind = "magic"   -> flavor.magic
               [] kind = "version" -> 1
               [] kind = "count"   -> Len(flavor.saved)
               [] kind = "id"      -> flavor.saved[ValueIndex(n)]
               [] kind = "value"   -> locals[ValueIndex(n)])

(* The host takes some words of the item, or refuses and the save fails;   *)
(* the state is the host's when its last item is.                          *)
SaveWords(words) ==
  /\ job.op = "save" /\ words \in 0..WordsLeft
  /\ LET locals == LocalsAt(job.item)
         out    == Append(job.out, ItemAt(job.item, locals))
     IN IF ~Refuses(words) /\ ItemDone(words) /\ job.item = ItemCount(Len(flavor.saved))
          THEN job' = Idle /\ blob' = out /\ window' = job.window
          ELSE /\ job' = IF Refuses(words) THEN Idle
                         ELSE IF ~ItemDone(words) THEN [job EXCEPT !.got = @ + words]
                         ELSE [job EXCEPT !.item = @ + 1, !.got = 0, !.out = out,
                                          !.locals = locals]
               /\ UNCHANGED <<blob, window>>
  /\ verdict' = NoVerdict
  /\ UNCHANGED <<flavor, stored, offset, active, hasParams, touched, events,
                 unseen, origin, jobs, portVars, latencyVars>>

Anything == [p \in Params(flavor) |-> Values]

(* The states a host may hand to load(): the one it kept; one of a later   *)
(* version of the suite, with a parameter this one does not store; one of  *)
(* another product or another format version; and, the magic being shared, *)
(* one of another flavor whose stream has as many values or fewer.         *)
OwnState == [kind |-> "own", expect |-> window, items |-> blob]
NewerState(p, v) ==
  [kind |-> "newer", expect |-> window,
   items |-> SubSeq(blob, 1, 2)
               \o <<Item("count", Len(flavor.saved) + 1), Item("id", p), Item("value", v)>>
               \o SubSeq(blob, 4, Len(blob))]
ForeignState(header, body) ==
  [kind |-> "foreign", expect |-> Anything,
   items |-> <<Item("magic", header[1]), Item("version", header[2])>> \o body]
SiblingState(v) ==
  [kind |-> "sibling", expect |-> Anything,
   items |-> <<Item("magic", "CVPS"), Item("version", 1), Item("value", v)>>]

ForeignBodies ==
  IF flavor.tagged THEN {<<Item("count", 0)>>}
  ELSE {[i \in DOMAIN flavor.saved |-> Item("value", v)] : v \in Values}

Source ==
  (IF blob = <<>> THEN {} ELSE {OwnState})
    \cup {NewerState(p, v) : p \in IF blob # <<>> /\ flavor.tagged
                                    THEN {"unknown"} \cup flavor.meters ELSE {},
                             v \in Values}
    \cup {ForeignState(header, body) :
             header \in {<<"other", 1>>, <<flavor.magic, 2>>}, body \in ForeignBodies}
    \cup {SiblingState(v) : v \in IF flavor.tagged THEN {} ELSE Values}

LoadBegin(source) ==
  /\ BeginJob
  /\ job' = [op |-> "load", item |-> 1, got |-> 0, items |-> source.items,
             count |-> Len(flavor.saved), id |-> "unknown", locals |-> <<>>]
  /\ origin' = [kind |-> source.kind, outcome |-> "running", before |-> stored,
                expect |-> source.expect]
  /\ touched' = {}
  /\ UNCHANGED <<flavor, stored, offset, active, hasParams, events,
                 blob, unseen, window, portVars, latencyVars>>

EndLoad(outcome) == job' = Idle /\ origin' = [origin EXCEPT !.outcome = outcome]

(* Mutant: a load while active changes nothing.                            *)
AssignWhileInactive(p, v) ==
  /\ stored' = IF active THEN stored ELSE [stored EXCEPT ![p] = v]
  /\ UNCHANGED baseline

(* Plain assignment, from a stream or a preset: no restart is asked for.   *)
Assign(p, v) ==
  /\ stored' = [stored EXCEPT ![p] = v]
  /\ baseline' = IF Restarts(p) THEN v ELSE baseline

(* Mutant: any format version from the first one on is read.               *)
WantedOfAnyVersion(item) ==
  CASE item.is = "magic"   -> item.of = flavor.magic
    [] item.is = "version" -> item.of >= 1
    [] OTHER               -> TRUE

(* What the flavor makes of an item it has read.                           *)
Wanted(item) ==
  CASE item.is = "magic"   -> item.of = flavor.magic
    [] item.is = "version" -> item.of = 1
    [] OTHER               -> TRUE

WithItem(item) ==
  CASE item.is = "count" -> [job EXCEPT !.count = item.of]
    [] item.is = "id"    -> [job EXCEPT !.id = item.of]
    [] item.is = "value" -> [job EXCEPT !.locals = Append(@, item.of)]
    [] OTHER             -> job

(* With ids, a value is stored as soon as it is read.                      *)
LoadedInto(item) == item.is = "value" /\ flavor.tagged /\ Settable(job.id)

(* The host gives some words of the item, or none: an end, or an error.    *)
LoadWords(words) ==
  /\ job.op = "load" /\ words \in 0..WordsLeft
  /\ IF Refuses(words) \/ job.item > Len(job.items)
       THEN EndLoad("refused") /\ UNCHANGED <<stored, baseline>>
     ELSE IF ~ItemDone(words)
       THEN job' = [job EXCEPT !.got = @ + words] /\ UNCHANGED <<origin, stored, baseline>>
     ELSE LET item == job.items[job.item]
              next == WithItem(item)
          IN /\ IF ~Wanted(item) THEN EndLoad("refused")
                ELSE IF job.item < ItemCount(next.count)
                  THEN job' = [next EXCEPT !.item = @ + 1, !.got = 0] /\ UNCHANGED origin
                ELSE IF flavor.tagged THEN EndLoad("restored")
                ELSE /\ job' = [op |-> "store", locals |-> next.locals, at |-> 1,
                                rescan |-> FALSE]
                     /\ UNCHANGED origin
             /\ IF LoadedInto(item) THEN Assign(job.id, item.of)
                                    ELSE UNCHANGED <<stored, baseline>>
  /\ verdict' = NoVerdict
  /\ UNCHANGED <<flavor, offset, active, hasParams, touched, events, blob,
                 unseen, window, jobs, portVars, restarted>>

(* Without ids, the values read are stored one after the other, at the end *)
(* of the load.                                                            *)
StoreNext ==
  /\ job.op = "store"
  /\ LET p == flavor.saved[job.at] IN
     /\ Assign(p, job.locals[job.at])
     /\ unseen' = IF job.rescan THEN unseen \cup {p} ELSE unseen
  /\ IF job.at < Len(flavor.saved)
       THEN job' = [job EXCEPT !.at = @ + 1] /\ UNCHANGED origin
     ELSE IF job.rescan
       THEN job' = [op |-> "rescan"] /\ UNCHANGED origin
     ELSE EndLoad("restored")
  /\ verdict' = NoVerdict
  /\ UNCHANGED <<flavor, offset, active, hasParams, touched, events, blob,
                 window, jobs, portVars, restarted>>
-----------------------------------------------------------------------------
\* Presets

(* parsePresetFile(): the first line is checked, a gain is required, a     *)
(* missing color is zero, which is its default.                            *)
Missing == "missing"
PresetFile == [header : BOOLEAN, gain : Values \cup {Missing}, color : Values \cup {Missing}]
Parsed(file) ==
  IF file.header /\ file.gain # Missing
    THEN <<file.gain, IF file.color = Missing THEN Default ELSE file.color>>
    ELSE <<>>

(* findInternalPreset(): a load key of the suite's has values, others none. *)
Found == {<<>>} \cup {<<gain, color>> : gain, color \in Values}

(* What from_location() may be given: a location of the plugin's, which is *)
(* loaded by key and should be null; a file; a file that is null.          *)
Location ==
  [kind : {"plugin"}, null : BOOLEAN, data : Found]
    \cup {[kind |-> "file", null |-> FALSE, data |-> Parsed(file)] : file \in PresetFile}
    \cup {[kind |-> "file", null |-> TRUE, data |-> <<>>]}

(* sFromLocation() and presetLoadFromLocation(): what cannot be found or   *)
(* parsed goes to on_error() and changes nothing.                          *)
FromLocation(location) ==
  /\ flavor.name = "preset" /\ BeginJob
  /\ LET ok == location.data # <<>> IN
     /\ job' = IF ok THEN [op |-> "store", locals |-> location.data, at |-> 1,
                           rescan |-> TRUE]
               ELSE Idle
     /\ origin' = [kind |-> "preset", outcome |-> IF ok THEN "running" ELSE "refused",
                   before |-> stored,
                   expect |-> [p \in Params(flavor) |->
                                 IF ok THEN {location.data[IF p = "gain" THEN 1 ELSE 2]}
                                 ELSE {}]]
  /\ touched' = {}
  /\ UNCHANGED <<flavor, stored, offset, active, hasParams, events, blob,
                 unseen, window, portVars, latencyVars>>

(* clap_host_params.rescan(): the host reads the values again; loaded().   *)
Rescan ==
  /\ job.op = "rescan"
  /\ unseen' = {}
  /\ EndLoad("restored")
  /\ verdict' = NoVerdict
  /\ UNCHANGED <<flavor, stored, offset, active, hasParams, touched, events,
                 blob, window, jobs, portVars, latencyVars>>
-----------------------------------------------------------------------------
\* Layouts

(* One request of a configuration: the surround flavor has one port, takes *)
(* no type but surround, and a channel map only if it is its own.          *)
Acceptable(request) ==
  /\ request.port = 0
  /\ request.type \in {"any", "surround"}
  /\ request.channels \in flavor.layouts
  /\ request.map \in {"none", "ours"}

(* Mutant: the last request decides.                                       *)
LayoutsOfLast(requests) ==
  IF requests # <<>> /\ \A i \in DOMAIN requests : Acceptable(requests[i])
    THEN {Last(requests).channels} ELSE {}

(* layoutForRequests(): the one layout all of them ask for, if there is.   *)
LayoutsFor(requests) ==
  {n \in flavor.layouts :
     /\ requests # <<>>
     /\ \A i \in DOMAIN requests : Acceptable(requests[i]) /\ requests[i].channels = n}

(* configurable_audio_ports.apply_configuration(): CA01 while active.      *)
ApplyConfiguration(requests) ==
  /\ flavor.name = "surround" /\ MainFree /\ ~active
  /\ \E n \in LayoutsFor(requests) : layout' = n
  /\ chosen' = {requests[i].channels : i \in DOMAIN requests}
  /\ verdict' = NoVerdict
  /\ UNCHANGED <<flavor, stored, offset, active, hasParams, touched, events,
                 mainVars, running, latencyVars>>

(* audio_ports_config.select(): AC01 while active, and an id that is none  *)
(* of the two is refused.                                                  *)
Select(n) ==
  /\ flavor.name \in {"multiout_gen", "multiout_fx"} /\ MainFree /\ ~active
  /\ n \in flavor.layouts
  /\ layout' = n /\ chosen' = {n}
  /\ verdict' = NoVerdict
  /\ UNCHANGED <<flavor, stored, offset, active, hasParams, touched, events,
                 mainVars, running, latencyVars>>
-----------------------------------------------------------------------------
StreamsNext ==
  \/ Activate \/ Deactivate
  \/ \E e \in ParamEvent, flushed, playing \in BOOLEAN : Deliver(e, flushed, playing)
  \/ \E p \in flavor.meters, v \in Values : MoveMeter(p, v)
  \/ SaveBegin \/ Gather \/ StoreNext \/ Rescan
  \/ \E words \in 0..2 : SaveWords(words) \/ LoadWords(words)
  \/ \E source \in Source : LoadBegin(source)
  \/ \E location \in Location : FromLocation(location)
  \/ \E requests \in SeqOf(Requests, 2) : ApplyConfiguration(requests)
  \/ \E n \in flavor.layouts : Select(n)

StreamsSpec == StreamsInit /\ [][StreamsNext]_streamsVars
-----------------------------------------------------------------------------
\* Properties

(* A load that returned true, of a state the flavor saved or of one with   *)
(* parameters it does not know, or of a preset: every parameter has a      *)
(* value it had during the save (the preset's), unless something else has  *)
(* set it since; and of a preset the host has read every value again.      *)
LoadRestores ==
  /\ origin.outcome = "restored" =>
       \A p \in ToSet(flavor.saved) \ touched : stored[p] \in origin.expect[p]
  /\ MainFree => unseen = {}

(* A state of another product or format is refused; a load that returned   *)
(* false has left every parameter alone or, in the flavors that store as   *)
(* they read, has given it its value of the stream; the meter and the      *)
(* modulation are never loaded.                                            *)
RefusedLoadKeeps ==
  /\ origin.kind = "foreign" => origin.outcome # "restored"
  /\ origin.outcome = "refused" =>
       \A p \in Params(flavor) \ touched :
         \/ stored[p] = origin.before[p]
         \/ flavor.tagged /\ stored[p] \in origin.expect[p]
  /\ origin.outcome # "none" =>
       \A p \in flavor.meters \ touched : stored[p] = origin.before[p]

(* README.md:82, "changing it while active triggers request_restart()", as *)
(* far as events go: while active, the latency is the one the host read at *)
(* activation or a restart has been asked for, by whichever way the event  *)
(* came.  A state loaded while active is left out: it asks for no restart  *)
(* (effect.cpp:219), whatever the README says of changes, so its latency   *)
(* is the one that later events are held against.                          *)
LatencyNoticed ==
  active /\ flavor.restarting # {} /\ stored["latency"] # baseline => restarted

(* The base class judges an event and the flavor applies it, apart: what   *)
(* is charged as unknown, read-only or not modulatable has no effect, and  *)
(* an event without charge, or with one that is tolerated, has.            *)
EventsJudged ==
  verdict.quirk \in {"none", "cookie"} =>
    (verdict.applied <=> verdict.codes \cap {"P08", "P12", "P13"} = {})

(* Every request of the last configuration that was granted holds of the   *)
(* layout, and the layout is the one of the activation while active.       *)
LayoutHonest ==
  chosen \subseteq {layout} /\ (active => layout = running)
=============================================================================
