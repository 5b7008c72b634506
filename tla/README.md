# Verification of the clap-validator plug-ins

The repository builds one DSO of CLAP plug-ins whose purpose is to watch the *host*: a
shared C++ wrapper (`src/wrapper/`) answers every call of the CLAP ABI, compares it with
the calling rules and reports what breaks them; small plug-ins ("flavors", `src/plugins/`)
give the host something to exercise. A report that accuses a correct host, or a monitor
whose idea of the lifecycle drifts from the host's after a refused call, makes the whole
tool useless, and neither is easy to test: both take long sequences of calls, or two
threads at an unlucky moment. The models in this directory state what the wrapper and its
GUI guarantee against a host that may do anything; TLC checks them on small instances and
TLAPS proves the central ones for all values of the constants.

Paths below are relative to the repository's root, which PROJECT.json calls `src/`:
`src/wrapper/plugin.cpp` here is `src/src/wrapper/plugin.cpp` there.

## 1. Inventory

| Component | State | Operations | Hard behaviour | What makes it correct |
|---|---|---|---|---|
| Trampolines and contract monitor (`wrapper/plugin.cpp`, `contract.h`) | initialized, active, processing, being-activated, in-process; pending callbacks; frame bounds; port and parameter snapshot; steady-time baseline; counters | `init`, `destroy`, `activate`, `deactivate`, `start/stop_processing`, `reset`, `process`, `get_extension`, `on_main_thread`, and the extension calls that inspect the lifecycle | any order of calls, refusals, forced stop, clamped arguments, re-activation | monitor = what the host's calls add up to; each code counts exactly the offences; a rejected call has no effect |
| The same atomics across threads | the five flags | the same calls, at the grain of loads and stores | main thread against several audio threads | `process()` exclusive, no correct host accused, flags right again after a forced stop |
| Violation registry (`contract.cpp`, query extension) | counters, total, last code, messages | `report`, `note`, `clear`, `total`, `distinct`, `get` | lock-free counters next to a mutex-guarded message table | totals agree, exact log throttle, valid indices |
| GUI parameter path (`param_queue.h`, `gui_plugin.cpp`) | parameter atomics, queue, gesture | `guiBeginGesture`, `guiSetValue`, `guiEndGesture`, drain in `process()` and `flush()` | GUI thread, audio thread, host automation | order, balance, agreement at rest, every edit arrives |
| GUI lifecycle (`ext/gui.cpp`, `gui_plugin.cpp`) and X11 view (`native_view_x11.cpp`) | created/floating, the view, its size and scale; command queue, self-pipe, UI thread, X window | the 15 `clap_plugin_gui` functions; the UI thread's loop | commands and X events cross, the view is destroyed under its thread, blocking pipe | G01..G04 exact, thread never outlives view, commands in order, sizes agree, calls return |
| DSO entry (`entry.cpp`) | init count, two depth counters | `entry.init`, `entry.deinit`, `get_factory`, factory methods | calls of several threads overlap | overlaps are reported and never invented; E01..E03 go by the right count |
| Thread checker (`threadcheck.cpp`) | main-thread id, the host's extension | `assertMainThread`, `assertAudioThread`, the confirmed variants; T01..T04 in the trampolines | with and without `clap.thread-check` | only what is certain is counted, and all of it |
| Transport display (`gui_plugin.cpp`) | sequence counter, transport record | `storeTransport`, `guiTransport` | a plain copy inside a sequence lock | no torn record is shown, and the last one is |
| Native views (`native_view_*`) | sliders, gestures, what is shown, timer | the hand on a slider, the 100 ms tick | user, automation and blocks between the accesses of a tick | gestures in order, a held slider stays, feeds settle |
| Logs (`logbuffer.cpp`, `earlylog.cpp`) | two bounded rings | append, snapshot, version, copy at `init()` | limits 400 and 64, lines of several threads | early lines arrive in order, viewers see the last lines |
| Sine engine (`sine_engine.cpp`) and synth flavors | eight voices, clock | note on/off/choke, render, `emitNoteEnds` | voice stealing, several notes in one block | each voice that ends is announced once |
| Preset discovery (`preset_discovery.cpp`, `preset_shared.cpp`) | provider's `initialized` and `inDeclare`, the sample files | provider init, metadata, writing the samples | re-entrant host callbacks, refusals, killed processes | every misuse is noticed, no partial file stays |
| Parameters, state streams and presets of the flavors (`stream.cpp`, `ext/state.cpp`, `preset_plugin.cpp`, each flavor) | parameter atomics, stream position | events, save, load, from_location | short reads and writes, early end, events between two stores | a load restores or is refused, a latency changed by an event asks for a restart |
| Event checks (`plugin.cpp`) | parameter table, running maximum of event times | P03, P04, P06, P08, P10..P14 | base class judges, flavor applies | what is charged has no effect, what is not has |
| Configurable layouts (`surround.cpp`, `multiout_gen.cpp`, `multiout_fx.cpp`) | layout index | can_apply, apply, select | several requests at once | judged together, applied once, never while active |
| Note effect (`notefx.cpp`) | transpose | transposition of notes | parameter moves between on and off | on and off pair up |
| Registry, host information | none | constant tables, log text | — | — |

How they interact: the host calls the trampolines (main thread, audio thread); these read
and write the monitor's atomics and call the flavor's virtuals; any of them reports into
the registry, which is read through the query extension from any thread. The GUI's UI
thread calls the flavor's `GuiModel` methods, which queue work that the audio thread's
drain forwards to the host. The entry functions keep process-wide atomics of their own.

PROJECT.json lists every component with its status and, under "hazards", each place where
one of the hard behaviours bites and the properties that cover it.

## 2. Modules

| Module | Models | Composition |
|---|---|---|
| `PluginLifecycle` | every `clap_plugin` trampoline and the lifecycle checks of the extensions, with the monitor's state | refines `FlavorProtocol` |
| `FlavorProtocol` | abstract: the order in which a flavor's virtuals may run and the layouts they see | — |
| `ProcessThreads` | the lifecycle trampolines, one atomic access a step, main and audio threads | — |
| `ViolationRegistry` | `report`, `note`, `clear`, `distinct`, `get`, one atomic access or critical section a step | — |
| `GuiParamQueue` | GUI thread, queue and drain | — |
| `GuiEditor` | `ext/gui.cpp` + `GuiProvider` methods + X11 view with its UI thread | three layers in one state |
| `EntryPoints` | `entry.cpp`, one atomic access a step | — |
| `SineEngine` | the synths' voice table, as pure operators: allocation, stealing, release, choke, note ends | — |
| `NoteFx` | what the note effect does to a note, as pure operators | — |
| `NoteChain` | a block through Validator NoteFX and Validator Synth: events, event checks P03 and P04, chunked rendering, status | composes `SineEngine` and `NoteFx`, refines `NoteLives` |
| `NoteLives` | abstract: what becomes of each note sent to a synth of bounded polyphony, and what SLEEP means | — |
| `TransportSeqlock` | `storeTransport` and `guiTransport`, the counter and each word an access | — |
| `LogRings` | the early log's and the instance log's rings, as pure operators | — |
| `ViewTick` | the three views' ticks and sliders, one access of a tick a step | composes `TransportSeqlock` and `LogRings` |
| `PresetFiles` | the sample files under processes that are killed | — |
| `HostServices` | preset provider, entry functions, an instance's thread checks, and both logs | composes `LogRings` and `PresetFiles` |
| `FlavorTables` | every flavor's parameters, state layout, stream form and port layouts, as records | — |
| `FlavorStreams` | events, state streams, presets and layouts on a flavor of `FlavorTables` | — |
| `*Proofs` | theorems about the module they extend | — |
| `MC*` | small instances for TLC | — |

**State and code.** Variables carry the code's names without the underscore (`active` is
`_active`, `pendingCallbacks` is `_pendingCallbacks`); actions carry the function's name
(`SActivate` is `Plugin::sActivate`, `DrainSwap` the critical section of
`ParamEventQueue::drain`). PROJECT.json maps every definition to its lines. Where a call
stays open across other calls it has two actions: `SActivate`/`SActivateReturn` around the
flavor's `activate()`, `SProcess`/`SProcessReturn` around its `process()`.

**Ledgers.** A monitor must not be compared with itself. `PluginLifecycle` keeps `view` and `due`,
`ProcessThreads` keeps `host` and `broken`, `GuiEditor` keeps `opened`, `due` and `wanted`,
`EntryPoints` keeps `met`, `clashed` and `balance`, `NoteChain` keeps `fate` and `held`, `ViewTick`
keeps `handAt`, `open` and `orderly`, `HostServices` keeps `written`, `heard`, `due` and
`unnoticed`, `FlavorStreams` keeps `verdict`, `window`, `origin` and their like: they record what
the *host* did and was answered, and what the catalogue `docs/host-contract-violations.md` charges
it with. Properties compare code state with ledger; no code action reads the ledger.

**Abstractions.** A port layout is a model value with a number of ports of its own; a block
is its frame count, time, layout and whether every port has a usable buffer. Messages and
log lines are known by the number of the occurrence they were written for. A GUI queue
item is its kind, value and sequence number; one parameter stands for all (the queue never
looks at the id). In `GuiEditor` width and height are one number (both are stored and
sent together), `show` and `hide` are one command (the view treats them alike), and the
X server answers a change of size with one `ConfigureNotify`. In `NoteChain` a voice keeps what
decides its life (its flags, key, note id, age and the frames its release has left); level,
modulation and the channel, an address component handled as the key is, are left out. `fate` says
what became of each note, known by the number its voice is given; `held` are the notes the host
has not taken back, up to the moment the transpose moves while there are any.

In `FlavorStreams` a flavor is one record of `FlavorTables`: the ids it has, which of them are read-only,
modulatable or restart the plug-in, the order in which its state is written and the checks its loader
makes, so that twelve loaders of one shape are one set of actions and differ where the code
differs (a tagged state stores while it reads, the others store at the end). A stream moves whole words; a
value is two words. In `HostServices` a sample file is absent, partial or whole, and a line of a log its
severity, its code and whether what it says is so.

## 3. Runs

| Run | Question | Bounds |
|---|---|---|
| `lifecycle_free` | Any call at any time, also over a running block: is the monitor right about the host, the snapshot current, the detection exact? | 2 layouts, frames 0 and 2, times -1 (none) to 2, 2 reporting calls |
| `lifecycle_serial` | With a host that does not overlap lifecycle calls with a block, do the trampolines implement `FlavorProtocol`? | as above |
| `threads` | Do exclusion, the flags and "no false report" hold in every interleaving? | 1 main and 3 audio threads, no bound on calls |
| `registry` | Do the counters, throttle and indices hold up to concurrent calls and one `clear()`? | 2 threads, 2 codes, 4 calls, 2 reads, throttle 1 and 3 instead of 5 and 100 |
| `gui_queue` | Does every edit reach the host, once, in order, inside its gesture? Do host and plugin agree at rest? | 5 queue items, 1 host write, 1 activation |
| `views` | Is a torn transport ever shown, a gesture left unbalanced, a slider pulled from the hand? Does every feed arrive? | 3 platforms, 1 slider, 2 values, 1 block that stores its record in 2 words, 2 log lines, log of 1 line |
| `entry` | Are overlaps reported; do E01..E03 go by the right count? | 3 threads, 5 entry calls, accesses in order |
| `services` | Is every misuse noticed and nobody accused wrongly; do early lines reach a log in order; are sample files whole? | 3 threads, 2 processes, 1 kill, `init()` nested twice, 3 reported calls, log 3, early log 2 |
| `flavors` | Do loads restore or refuse, do events do what they are charged with, does a latency changed by an event ask for a restart, is the layout what was granted? | all twelve flavors with parameters, 2 values, 2 events, 2 saves or loads |
| `editor` | Are gui calls judged rightly, does the thread stay inside its view's life, do commands and sizes arrive, do calls return? | 2 sizes, 2 scales, 2 views, 2 commands, pipe read in chunks of 2 instead of 16 |
| `editor_join` (finding) | Does `gui.destroy()` always return? | chunk 16 as in the code, 15 commands |
| `note_chain` | Does the synth implement `NoteLives`: note ends once, the oldest stolen, SLEEP silent? Is SLEEP reached, and are well-timed events on time? Does an off meet its on through the transposition? | 2 voices, 2 keys, transpose 0 or 1, release of 2 frames, blocks of 0 or 2 frames, event times 1 and 2, 2 notes a block, 3 notes a reset |

Why the bounds are enough. The lifecycle is a small state machine whose only unbounded parts are
counts: frames 0 and 2 are arguments of `activate()` and sizes of blocks, and 0 is raised to 1, so
that a bound is unusable, minimal or larger and a block lies below, within or above it; a time is
absent (-1), before, at or after the end of a block of 2 that began at 0; and two reporting calls
let one offence be followed by another from every state it leads to; the proofs of section 5 remove
these bounds. The throttle has two thresholds, and 1 and 3 put both inside four calls. Five queue
items are a whole gesture with three edits, or two gestures begun; that is a batch being forwarded,
one being queued and one being pushed. Three threads at `entry.cpp` are one more than any of its
races needs. In `editor` two commands let one be executed while the other is pushed, and with the
`Quit` of `destroy()` the chunk of two is filled in each of the possible ways; `editor_join` uses
the code's own 16. In `note_chain` three notes are one more than there are voices, so that a note is
stolen; a release of two frames ends in the middle of a block, at its end or in the next; times 1
and 2 with blocks of 0 and 2 frames lie within, at the end of and beyond a block, in order or not;
and key 1 transposed by 1 is clamped. In `views` a log of one line drops a line with the second,
which a viewer that goes by length misses, and two words of a record are one old and one new when it
is torn. In `services` an early log of two has an order, and a third line to leave out; with a line
of a call before `init()` and `init()`'s own the copy already overflows a log of three; one kill
stops a write at any of its steps, and the second process scans over what it left. In `flavors` a
save and a load, or two loads, with an event at each step between their calls reach every mixture of
two values; the host's answers to one stream call are 0, 1 or 2 words, so that each value is moved
whole, in two pieces, or not. A third event or job only repeats a state, since an event leaves no
memory but the values.

Each module's `TypeOK` is a part of its inductive invariant where there is one, and is proved as
`TypeCorrect` for four of them; the runs spend their properties on behaviour.

Deadlock is checked in `threads` (where every call ends and the host may always begin another),
`entry`, `note_chain`, and the `lifecycle` runs. It is not checked where a bound on calls ends the
run (`registry`, `gui_queue`, `views`, `services`, `flavors`) and in the `editor` runs, where the
state in which both threads wait is what the properties name.

Fairness. `ProcessThreads`: a thread inside a call keeps running and flavor code returns; nothing
makes the host begin a call. `GuiParamQueue`: the GUI thread finishes the call it is in, a drain
runs to its end (both are straight-line code), and the host answers `request_flush()` with a block
or a flush, as `clap/ext/params.h` demands. `GuiEditor`: both threads run while they can; `select()`
has a timeout of 100 ms (`native_view_x11.cpp:180`), so the UI thread's loop never waits for an
event. `NoteChain`: a `process()` that has begun is finished, and the host goes on calling it with
blocks that have frames (strong fairness, because resets and empty blocks may come between), which
is what the status CONTINUE asks of it. `ViewTick`: the timer fires while it runs
(`native_view_win32.cpp` sets one of 100 ms, the others likewise) and a block that has begun to
store its transport finishes, being straight-line code.

## 4. What the checks show, and what they found

- After any sequence of calls the monitor's lifecycle state is the one the host's calls and
  their answers add up to (`MonitorTracksHost`); the snapshot the audio thread compares
  with is current (`SnapshotCurrent`); each of the 24 modelled codes counts exactly the
  calls that break its rule (`ExactDetection`).
- Between threads: `process()` is exclusive for any host, a host that keeps the rules is never
  accused, and the forced stop of a forgotten `stop_processing()` leaves flags that agree with the
  host once its calls have returned.
- The registry's counters and total differ only by calls under way; each occurrence is
  logged once or never as the throttle says.
- GUI edits arrive once, in order and balanced, and host and plugin agree at rest, as long
  as `deactivate()` dropped nothing. After a drop balance is not promised, which the comment at
  `gui_plugin.cpp:72` accepts.
- The UI thread of the X11 view never outlives the view, executes commands in order, and
  leaves size, window and the host's last request in agreement at rest. A call returns unless
  the UI thread is stalled in `read()`.
- The synth does with its notes what `NoteLives` says (`NotesLive`): a note sounds from its note-on
  until it ends or, oldest of a full table, is stolen; each end is announced once, by the end of its
  block, and lost at most to a note begun in that block; SLEEP is returned when nothing sounds. The
  synth falls asleep once all notes are released (`FallsAsleep`); events that P03 and P04 accept
  take effect at their frame, and the others never move the rendering out of the block
  (`SampleAccurate`); and as long as the transpose stays, no off misses its on (`NoHangingVoice`).
  When the transpose moves under a held note the off goes to another key and the note sounds on, as
  in any transposer without memory.
- The views show no torn transport on builds that keep the copy between the two loads of the counter
  (`TransportUntorn`), begin and end each gesture once for any mixture of mouse, keys and wheel
  (`GesturesOrderly`), leave a slider where the hand put it (`SliderInHand`), and show the last record, values
  and lines once these rest (`FeedsSettle`).
- Lines of the highest severity are true of whom they accuse (`SeverityHonest`); with
  `clap.thread-check` each wrong thread after `init()` is counted, and each misuse of the preset provider has
  its line (`MisuseNoticed`); the first lines of the early log reach each instance's log in order and in one
  piece, behind those of calls before `init()` (`EarlyLinesReachLog`); no
  process that is killed leaves a partial sample file (`FilesWhole`).
- A state that was saved is restored through any pattern of short reads (`LoadRestores`), a foreign
  one is refused and a refused one leaves the values, or in the tagged states those read so far
  (`RefusedLoadKeeps`); a latency that an event changes while active asks for a restart
  (`LatencyNoticed`, which exempts a load); an event is applied exactly if its charge does not
  forbid it (`EventsJudged`); and the layout is the one that was granted (`LayoutHonest`).
- `E04` is reported by one of two overlapping calls that have both looked (and, proved, never of a call
  that overlapped none), on builds that keep a call's addition to its depth before its look at the other.

Finding (a run that TLC ends with a counterexample): `editor_join`. The self-pipe is blocking and
read in chunks of 16 until a short read. When 15 command bytes are unread as `destroy()` writes the
byte of `Quit`, the UI thread reads all 16, waits for a 17th and `destroy()` waits for the thread.
With fewer bytes the same read delays a command until the next one, which `ReturnsUnlessStalled` and
`ResizesLand` name as the only exception.

Facts the properties had to be stated around. Each is visible in the code at the place named:

- One `stop_processing()` on an inactive plugin counts L08 twice; `ExactDetection` bounds L08 between one
  and two for each offence. A `clear()` that overlaps a `report()` can leave the total above the sum of the
  entries for good; `TotalsAgree` excepts that overlap.
- After a forced stop (L05) the next `activate()` rewrites the port snapshot while a block of the old
  activation may still read it; the comment at `plugin.cpp:106` says no block can be running there.
- A drain re-applies an older queued value over the one the GUI has just stored; the comment at
  `gui_plugin.cpp:513` says the UI does not snap back. It does until the second value is drained.
- `noteOn()` takes a voice that has ended earlier in the same block and clears its mark before
  `emitNoteEnds()` has read it (`sine_engine.cpp:47-60`): that note's NOTE_END, which
  `sine_engine.h:11` promises, is never sent.
- A window that is destroyed under a drag leaves the gesture open. A build for a weakly ordered
  machine may move the reader's second load before the plain copy, which needs `InOrder = FALSE`,
  and then a torn record is accepted.
- The first `init()` asserts the main thread before the checker knows the host, so it always prints the
  heuristic warning to stderr and a first `init()` off the main thread is never T01; `MisuseNoticed` speaks of
  calls after it. A provider's `init()` from within its own callbacks runs a second time unnoticed and clears
  `inDeclare` for the first. Two processes that scan at once share one `.tmp` path, so that a partial
  file can be renamed into place; `FilesWhole` is stated for processes that take turns.
- `entry.cpp:33-34`, `79-81` and `95-97` add to one atomic with acq_rel and then load another with
  acquire. C++ allows two overlapping calls to read 0 both, so that neither reports `E04`; only
  sequentially consistent accesses, or a fence, would exclude it. `InOrder = TRUE` is a build where
  the addition is a full barrier (x86); `OverlapReported` and `OverlapReal` are stated for it. With
  `FALSE` a look may find anything. `CountIsBalance` and `CountReportsRight` are about accesses to
  single atomics and are proved for both.
- The contract monitor has the instance's log from the constructor (`plugin.cpp:63`), the early log
  is copied into it in `init()` (`plugin.cpp:153`), and of an instance's functions only
  `get_extension()` asks whether `init()` was called. The lines of calls before `init()` (L01, or L09 from `process()`)
  therefore stand before the early lines, which are older; `EarlyLinesReachLog` counts them
  (`ahead`). The thread checker gets host and log in `init()` only, so no wrong thread is counted
  before.
- All flavors but the zoo share one magic and version, so another flavor's state is accepted if it
  has as many values. The effect's `stateLoad()` changes the latency while active without asking for
  a restart (`effect.cpp:219`), although `README.md:82` says that a change while active triggers
  one: code and text disagree there. `LatencyNoticed` exempts the load by name and holds later
  events against the latency it has stored.
- Before the first activation no table of parameters is captured and flushed events are not judged,
  although the comment at `ext/params.cpp:55` says they are. An event with a wrong cookie (P11) or
  of a parameter that is not automatable (P14) is charged and applied; the catalogue tolerates both.
  The synth's `paramsFlush()` drops modulation. `EventsJudged` excepts these by its `quirk`.

## 5. What is proved

All theorems hold for every value of the constants that satisfies the named assumptions
(layouts, frames and times of any kind, any set of threads; `EntryPoints` needs a finite one).

- `PluginLifecycleProofs`. `LifecycleInv` is inductive together with `TypeOK`. The properties are
  not inductive alone: `ExactDetection` compares each check of the code with the ledger's rule, so
  a step preserves it only if the state the check reads agrees with the ledger. That is
  `MonitorTracksHost` for flags, `BoundsAgree` for P01 (bounds are the host's arguments, clamped),
  `LayoutAgrees` for P05 (a switch happens only where the host was told so), and `ClockAgrees` for P02
  (the baseline is the end of the last accepted block since the last reset or start).
  `OpeningExcludesActive` is what makes the two halves of `activate()` fit together. Proved from
  it: `TypeCorrect`, `LifecycleCorrect`, `MonitorIsRight`, `SnapshotIsCurrent`, `DetectionIsExact`,
  the action property `RejectionIsClean`, and the refinement `ImplementsFlavorProtocol` (under the
  assumption that lifecycle calls do not overlap a block).
- `ProcessThreadsProofs`. `BlockExclusive` needs that the guard is held exactly while one thread is
  inside. `NoFalseReport` needs, for a host with `broken = "none"`, where each thread may be relative to
  the host's progress: a call under way fixes the flags it is going to test. `ForcedStopSettles`
  (`FlagsSettle`) follows a `stop_processing()` that is left out: a `start_processing()` overlaps no other
  call, a block of the activation that ends may still run, and `processing` differs from what the host
  believes only from the store of a start to its return and from the forced stop to the return of its
  `deactivate()` (`SettleInv`).
- `EntryPointsProofs`. The depth counters are cardinalities of the sets of threads inside
  (`TypeCorrect`). `OverlapsDetected` rests on two facts about pairs: of two calls that may not
  overlap and have both looked, the one that looked last saw the other's depth; and a call that saw
  a depth has met its owner. Both rest on `InOrder`; the other two theorems do not. `CountIsRight`
  follows the count through the calls between its change and their return. `ReportsAreRight` adds
  what each call's report was decided from: a call that has met nobody read a count that no other
  call could have changed between (`ChargeInv`).
- `ViolationRegistryProofs`. Until a `clear()` begins, `Body` is inductive: a thread that records
  holds a number of its own between 1 and its counter (`NumbersHeld`), the log has the due numbers
  that no thread still holds (`LinesExact`), and a walk of `get()` has a set of non-zero counters,
  larger than its index, of which it has passed no more codes than it has counted (`GetOnCourse`).
  That last set is the one that `distinct()` saw: counters only grow, so a report may add codes
  below the index but never take the entry away. Proved from it: `ThrottleIsExact` and
  `GetsFindTheirEntry`, for any threads, codes and thresholds. `TotalsStayInStep` outlives `clear()`
  (`TotalInv`): while no call counts, what `clear()` has passed is zero; while none clears, the
  counters sum up to the total and the calls between the two additions. Sums over the codes are
  built up by `Sums`, whose existence and laws come by induction over a set of numbers (`Inductive`,
  from the well-foundedness of `<`).
- `GuiParamQueueProofs`. `QueueInv` speaks of batch and queue as one line of items from the host's
  last to the user's last: their numbers are consecutive (`Numbered`), each item begins a gesture
  exactly if none is open before it (`GesturesChained`), and behind the last value on the way the
  host has the plug-in's (`ValuesMeet`). `EditsInOrder`, `HostAndPluginAgree` and
  `GesturesStayBalanced` follow, for any number of edits.
- `NativeViewProofs` is about the three modules of the views.
  - `TransportSeqlock`: `SeqlockInv` ties the counter's parity to the words written so far; a copy
    begun under an even count is of one record as long as the count stays. `TransportIsUntorn` holds
    for any number of words and records, on builds that keep the copy between the loads.
  - `ViewTick`: `TickRefinesSeqlock` shows that each step of a view is a step of the seqlock or
    leaves its variables alone; what is needed for it is that a view begins its copy only after a
    load of its own (`FeedInv`). `TickShowsUntorn` is the seqlock's theorem carried over.
    `GesturesStayOrderly` and `SliderStaysInHand` rest on `HandInv`: the sliders with an open
    gesture are those the plug-in thinks are in one, and they are among the one in the hand and the
    one a key moves.
  - `GuiEditor`: `EditorTypeCorrect` and `GuiIsJudgedRightly` are inductive together.
    `ViewOutlivesItsThread` needs where main thread and UI thread may be relative to each other
    (`ThreadInv`); `CommandsStayInOrder` speaks of the commands taken, queued and pushed as one line
    of consecutive numbers (`OrderInv`); `SizesAgreeAtRest` says where the last size asked for is to
    be found while calls, commands and X events are under way (`SizeInv`).
- `HostServicesProofs`. `SamplesStayWhole`: until a write is spoiled, a temporary file is in one
  hand, found under its name by that hand, and whole when it is renamed. `NoMisuseEscapes`: what a
  call logs counts what it is guilty of (`Fair`), and one `init()` of the provider runs at a time
  unless its own callbacks call it. `AccusationsAreTrue` and `EarlyLinesAreKept` need what a fold of
  `append()` over a sequence yields (`FoldKeeps`). Lines are numbered from the log's first one,
  dropped or not: an append keeps every line it does not drop under its number (`Follows`), and the
  lines of the sequence get the next ones (`Behind`). `EarlyInv` says that the early log has the
  first lines written, as many as fit; `LogInv`, that after `init()` they have the numbers behind
  those of the calls before it, as far as the log still has them.

- `FlavorProofs`, first part: `NoteChain`. `ChainInv` says three things that need each other: the
  events on the wire are events the model offers, transposed into the keyboard (`ListOK`); the
  synth's cursor stays in the block and follows the accepted events (`LoopOK`); and the table agrees
  with the notes' histories (`NotesOK`: every voice in use has an age of its own below the clock, a
  voice is active exactly for a sounding note and marked exactly for an ended one). Without distinct
  ages, one NOTE_END could stand for two notes. Proved from it, for any number of voices, notes and
  events: `ChainCorrect`, `NoteEndsRight`, `EventsOnTime` and the action property `OldestIsStolen`
  (of a table full of distinct ages `Target` is the least, and the new note's age is above them
  all). `SleepIsRight` and `TypeCorrect` need besides that the notes numbered so far and the
  note-ons still on the wire together stay within `MaxNotes` (`RoomInv`). `NoNoteHangs`
  (`NoHangingVoice`) follows each note from the host's on to its end: while the transpose stays, a
  voice that sounds, and a note-on still on the wire, is one the host holds or one whose end is on
  the wire behind it (`VoicesMeet`, `OnsMeet`). `SynthKeepsNoteLives` is the refinement
  (`NotesLive`): `life` is the notes' history, `rendering` is the synth's `process()`. A step of the
  loop renders and handles an event, so what it does to the notes is worked out in two halves:
  rendering, a release or a choke ends notes and nothing else (`CalmFates`), and a note-on takes a
  voice that is free, marked or, when as many notes sound as there are voices (`SoundingCount`), the
  oldest one's (`OnFates`). That the note begun is the next unborn one is `BornInv`; that it exists
  is `RoomInv`.

- `FlavorProofs`, second part: `FlavorStreams`, for every flavor of `FlavorTables`, any values and
  any number of events and jobs. What the proofs use of a flavor is `Sound` (it saves parameters and
  no meter, it modulates only what it declares, it restarts for a latency only, and saves that),
  which `EveryFlavorSound` shows of all twelve tables. `EventsAreJudged` and `LayoutStaysHonest` are
  inductive; `LatencyIsNoticed` needs that a restart is asked for by each event that stores the
  latency, and that a load moves the baseline with it. `LoadsRestore` and `RefusedLoadsKeep` share
  `StreamInv`: what a save has taken so far lies in its window (`SaveInv`); the n-th item of a state
  that was kept is what the n-th read expects, with a value of the window (`BlobInv`); each state
  the host may hand over is foreign, tagged or plain, and readable as such; a load under way has
  given every settable id it has passed a value of the save, unless something else has set it since
  (`TaggedInv`), or has gathered such values and stored some of them (`PlainInv`, `StoreInv`); and a
  preset's values are unseen only until the rescan (`UnseenInv`).

`RejectionIsClean`, `NoteEndsRight`, `OldestIsStolen`, `SleepIsRight` and the `OverlapReal` half of
`OverlapsDetected` are proved and no run checks them: the proof is stronger than what a run would
show.

Every invariant, action property and refinement of the runs is proved. Liveness (`EditsReachHost`,
`FeedsSettle`, `ReturnsUnlessStalled`, `ResizesLand`, `FallsAsleep`) stays with TLC: fairness and
ENABLED are out of the prover's reach, as are RECURSIVE operators, which the modules avoid.

## 6. What is not modelled

- The checks P06 (an event smaller than its header) and P10 (32- and 64-bit buffers mixed in a
  block): each looks at one event or one block and keeps nothing.
- Of the synths: modulation, volume, the channel, the sample formats and the sidechain envelope; and
  the audio of the delay, host-check and pass-through flavors.
- Preset-discovery factory methods of `entry.cpp`: they hold no `OtherCallScope`, so an
  entry call that overlaps them is not E04. Overlap is understood as the code does, from the addition to
  a depth counter to its subtraction; what lies outside that window no counter can see.
- Re-entrant lifecycle calls from inside the flavor's `activate()`; the wrapper's query calls in
  that window are modelled (`beingActivated`).
- Use after `destroy()`, which the documentation lists as undetectable from inside.
- Of the three views: creating, laying out and drawing controls, fonts and clipboard. The Win32 and
  macOS views run their callbacks on the main thread; only their ticks and sliders are modelled.
- A block that overlaps the `activate()` after a forced stop, or `start_processing()` that overlaps a
  `deactivate()`: only a host that breaks the calling rules gets there, and what a torn snapshot
  holds is not defined.
- `HostServices` lets the host have a provider or an instance, not both, and an instance where there
  are no sample files (`Scanning`): the two share the early log and nothing else, and their product
  is too large to check. Of the wrapper's sequence checks only L01, L02 and an inactive call's line
  (L09) stand for lines of the instance's log there; the monitor's throttle, which leaves out
  repeated lines, is in `ViolationRegistry`. In `DeclareReturns` the file location is declared
  wherever its directory exists; on Windows the code leaves it out for the indexer named
  clap-validator.
- A refused `try_push()` of a NOTE_END, by which the synth loses one, and any refused push to the host's
  output list: `NoteChain` and `GuiParamQueue` have a host that takes every event.
- Conversion of values to text and back, display formats, descriptors, the registry's constant tables and the
  text of host information, which keep no state.

## 7. Plan

What is left, the most valuable first:

1. Modulation and the channel in `NoteChain`, and P06 among its event checks.
2. `HostServices` with a provider and an instance at once, on a larger machine.
