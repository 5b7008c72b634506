--------------------------- MODULE PluginLifecycle --------------------------
(***************************************************************************)
(* The clap_plugin trampolines of wrapper/plugin.cpp over the lifecycle    *)
(* state of ContractMonitor (wrapper/contract.h), driven by a host that    *)
(* may call anything at any time.                                          *)
(*                                                                         *)
(* One action is one trampoline.  Two of them stay open across other       *)
(* calls and are split where the flavor's virtual runs: activate() (the    *)
(* [being-activated] window, in which the flavor may be queried from the   *)
(* same thread) and process() (which runs on the audio thread while the    *)
(* main thread goes on calling).                                           *)
(*                                                                         *)
(* Next to the monitor's state the module keeps a ledger that knows only   *)
(* what the host did and what it was answered: `view`, the state the host  *)
(* is entitled to believe, and `due`, the violations the catalogue         *)
(* docs/host-contract-violations.md charges it with.  No guard of the      *)
(* code's actions reads the ledger.                                        *)
(***************************************************************************)
EXTENDS Integers

CONSTANTS
  Layouts,           \* port layouts the flavor can be switched between
  DefaultLayout,     \* the one it is constructed with
  NoLayout,          \* the empty snapshot of a plugin never activated
  Frames,            \* frame counts a host passes (bounds and blocks)
  Times,             \* steady_time values a host passes; -1 is "not available"
  CallbacksInInit,   \* request_callback() calls the flavor's init() makes
  Overlap,           \* may lifecycle calls overlap a running process()?
  MaxOffences        \* bound: calls that report on one instance

ASSUME LifecycleAssumption ==
  /\ DefaultLayout \in Layouts
  /\ NoLayout \notin Layouts
  /\ Frames \subseteq Nat
  /\ Times \subseteq Int
  /\ CallbacksInInit \in Nat
  /\ Overlap \in BOOLEAN
  /\ MaxOffences \in Nat

(* The codes of CVP_VIOLATION_CODES these trampolines can report.          *)
Code == {"L01", "L02", "L03", "L04", "L05", "L06", "L07", "L08", "L09",
         "L10", "L11", "L12", "L13", "P01", "P02", "P05", "P07", "P09",
         "AP01", "NP01", "AC01", "CA01", "LT01", "VI01"}

VARIABLES
  alive,             \* the instance exists (created and not destroyed)
  initialized, active, processing, beingActivated, inProcess,
  pendingCallbacks,  \* _pendingCallbacks
  bounds,            \* _minFrames and _maxFrames
  activation,        \* the arguments of the activate() call being served
  steady,            \* _steadyValid and _steadyEnd
  layout,            \* the layout the flavor declares now
  snapshot,          \* the layout captured at activate()
  counters,          \* _counters
  offences,          \* calls that reported (only for the bound)
  view, due          \* the host's ledger

monitor == <<initialized, active, processing, beingActivated, inProcess>>
caches  == <<bounds, activation, steady, snapshot>>
vars == <<alive, monitor, pendingCallbacks, caches, layout, counters,
          offences, view, due>>
-----------------------------------------------------------------------------
\* Helpers

Larger(a, b) == IF a >= b THEN a ELSE b

NoCounts == [c \in Code |-> 0]

(* ContractMonitor::report() called n times for each code of S.            *)
ReportTimes(S, n) ==
  /\ counters' = [c \in Code |-> IF c \in S THEN counters[c] + n
                                            ELSE counters[c]]
  /\ offences' = IF S = {} \/ n = 0 THEN offences ELSE offences + 1
  /\ offences' <= MaxOffences

Report(S) == ReportTimes(S, 1)

(* The ledger: one charge per rule a call breaks.                          *)
Charge(S) ==
  due' = [c \in Code |-> IF c \in S THEN due[c] + 1 ELSE due[c]]

When(P, c) == IF P THEN {c} ELSE {}

NoBounds == [min |-> 0, max |-> 0]
NoClock == -1
NewView == [init |-> FALSE, act |-> FALSE, proc |-> FALSE,
            opening |-> FALSE, block |-> FALSE, asked |-> FALSE,
            min |-> 0, max |-> 0, clock |-> NoClock, ports |-> DefaultLayout]

(* The frame counts the host may use after activate(min, max): an unusable *)
(* bound is raised to the smallest usable one (L13 "clamped").             *)
Usable(min, max) ==
  [min |-> Larger(1, min), max |-> Larger(Larger(1, min), max)]
LegalFrames(n, min, max) ==
  Usable(min, max).min <= n /\ n <= Usable(min, max).max

MainIdle == alive /\ ~beingActivated
Serial == Overlap \/ ~inProcess
-----------------------------------------------------------------------------
\* The instance

Init ==
  /\ alive = TRUE
  /\ initialized = FALSE /\ active = FALSE /\ processing = FALSE
  /\ beingActivated = FALSE /\ inProcess = FALSE
  /\ pendingCallbacks = 0
  /\ bounds = NoBounds /\ activation = NoBounds
  /\ steady = [valid |-> FALSE, end |-> 0]
  /\ layout = DefaultLayout /\ snapshot = NoLayout
  /\ counters = NoCounts /\ offences = 0
  /\ view = NewView /\ due = NoCounts

(* The factory's create_plugin() after a destroy(): a new Plugin object.   *)
CreatePlugin ==
  /\ ~alive
  /\ alive' = TRUE
  /\ initialized' = FALSE /\ active' = FALSE /\ processing' = FALSE
  /\ beingActivated' = FALSE /\ inProcess' = FALSE
  /\ pendingCallbacks' = 0
  /\ bounds' = NoBounds /\ activation' = NoBounds
  /\ steady' = [valid |-> FALSE, end |-> 0]
  /\ layout' = DefaultLayout /\ snapshot' = NoLayout
  /\ counters' = NoCounts /\ offences' = 0
  /\ view' = NewView /\ due' = NoCounts

(* Plugin::sInit.  The flavor's init() runs inside it and may ask the host *)
(* for a callback; init() itself succeeds in every flavor.                 *)
SInit ==
  /\ MainIdle
  /\ IF initialized
       THEN Report({"L02"}) /\ UNCHANGED <<initialized, pendingCallbacks>>
       ELSE /\ initialized' = TRUE
            /\ pendingCallbacks' = pendingCallbacks + CallbacksInInit
            /\ Report({})
  /\ Charge(When(view.init, "L02"))
  /\ view' = IF view.init THEN view
             ELSE [view EXCEPT !.init = TRUE,
                               !.asked = view.asked \/ CallbacksInInit > 0]
  /\ UNCHANGED <<alive, active, processing, beingActivated, inProcess,
                 caches, layout>>

(* Plugin::sDestroy.  Never issued inside a call of the same instance: the *)
(* docs list use-after-free as undetectable from inside.                   *)
SDestroy ==
  /\ MainIdle /\ ~inProcess
  /\ Report(When(active, "L06"))
  /\ Charge(When(view.act, "L06"))
  /\ alive' = FALSE
  /\ UNCHANGED <<monitor, pendingCallbacks, caches, layout, view>>
-----------------------------------------------------------------------------
\* Activation

(* Plugin::sActivate up to the flavor's activate().                        *)
SActivate(min, max) ==
  /\ MainIdle /\ Serial
  /\ IF active
       THEN Report({"L03"}) /\ UNCHANGED <<beingActivated, activation>>
       ELSE LET bad == min < 1 \/ max < min IN
            /\ Report(When(bad, "L13"))
            /\ activation' =
                 IF bad THEN [min |-> Larger(min, 1),
                              max |-> Larger(max, Larger(min, 1))]
                        ELSE [min |-> min, max |-> max]
            /\ beingActivated' = TRUE
  /\ Charge(When(view.act, "L03")
            \cup When(~view.act /\ ~(1 <= min /\ min <= max), "L13"))
  /\ view' = IF view.act THEN view
             ELSE [view EXCEPT !.opening = TRUE, !.min = min, !.max = max]
  /\ UNCHANGED <<alive, initialized, active, processing, inProcess,
                 pendingCallbacks, bounds, steady, snapshot, layout>>

(* The rest of it: captureActivateSnapshot() and setActive(true) when the  *)
(* flavor agreed, endActivation() in any case.                             *)
SActivateReturn(ok) ==
  /\ alive /\ beingActivated
  /\ IF ok THEN /\ bounds' = activation
                /\ snapshot' = layout
                /\ active' = TRUE
           ELSE UNCHANGED <<bounds, snapshot, active>>
  /\ beingActivated' = FALSE
  /\ activation' = NoBounds
  /\ view' = [view EXCEPT !.opening = FALSE, !.act = ok]
  /\ UNCHANGED <<alive, initialized, processing, inProcess, pendingCallbacks,
                 steady, layout, counters, offences,
                 due>>

(* Plugin::sDeactivate                                                     *)
SDeactivate ==
  /\ MainIdle /\ Serial
  /\ IF ~active
       THEN Report({"L04"}) /\ UNCHANGED <<active, processing>>
       ELSE /\ Report(When(processing, "L05"))
            /\ processing' = FALSE
            /\ active' = FALSE
  /\ Charge(When(~view.act, "L04") \cup When(view.act /\ view.proc, "L05"))
  /\ view' = [view EXCEPT !.act = FALSE, !.proc = FALSE]
  /\ UNCHANGED <<alive, initialized, beingActivated, inProcess,
                 pendingCallbacks, caches, layout>>
-----------------------------------------------------------------------------
\* Processing

(* Mutant: reset() and start_processing() forget the steady-time baseline. *)
RebaselinedNot == steady

(* ContractMonitor::resetSteadyTime                                        *)
Rebaselined == [steady EXCEPT !.valid = FALSE]

(* Mutant: start_processing() ignores the flavor's answer.                 *)
SStartProcessingOptimistic(ok) ==
  /\ alive /\ Serial
  /\ IF ~active \/ processing
       THEN Report({"L07"}) /\ UNCHANGED <<processing, steady>>
       ELSE Report({}) /\ processing' = TRUE /\ steady' = Rebaselined
  /\ Charge(When(~(view.act /\ ~view.proc), "L07"))
  /\ view' = IF view.act /\ ~view.proc
               THEN [view EXCEPT !.proc = ok, !.clock = NoClock] ELSE view
  /\ UNCHANGED <<alive, initialized, active, beingActivated, inProcess,
                 pendingCallbacks, bounds, activation, snapshot, layout>>

(* Plugin::sStartProcessing; ok is the flavor's answer.                    *)
SStartProcessing(ok) ==
  /\ alive /\ Serial
  /\ IF ~active \/ processing
       THEN Report({"L07"}) /\ UNCHANGED <<processing, steady>>
       ELSE /\ Report({})
            /\ processing' = ok
            /\ steady' = Rebaselined
  /\ Charge(When(~(view.act /\ ~view.proc), "L07"))
  /\ view' = IF view.act /\ ~view.proc
               THEN [view EXCEPT !.proc = ok, !.clock = NoClock] ELSE view
  /\ UNCHANGED <<alive, initialized, active, beingActivated, inProcess,
                 pendingCallbacks, bounds, activation, snapshot, layout>>

(* Plugin::sStopProcessing: both checks report, the second one returns.    *)
SStopProcessing ==
  /\ alive /\ Serial
  /\ ReportTimes({"L08"}, (IF active THEN 0 ELSE 1)
                          + (IF processing THEN 0 ELSE 1))
  /\ processing' = FALSE
  /\ Charge(When(~(view.act /\ view.proc), "L08"))
  /\ view' = [view EXCEPT !.proc = FALSE]
  /\ UNCHANGED <<alive, initialized, active, beingActivated, inProcess,
                 pendingCallbacks, caches, layout>>

(* Plugin::sReset                                                          *)
SReset ==
  /\ alive /\ Serial
  /\ Report(When(~active, "L10"))
  /\ steady' = Rebaselined
  /\ Charge(When(~view.act, "L10"))
  /\ view' = [view EXCEPT !.clock = NoClock]
  /\ UNCHANGED <<alive, monitor, pendingCallbacks, bounds, activation,
                 snapshot, layout>>

(* ContractMonitor::checkSteadyTime: is the time accepted, and the         *)
(* baseline it leaves.                                                     *)
SteadyOk(t) == t < 0 \/ ~steady.valid \/ t >= steady.end

SteadyAfter(t, n) ==
  IF t < 0 THEN [steady EXCEPT !.valid = FALSE]
           ELSE [valid |-> TRUE, end |-> t + n]

(* Plugin::sProcess up to the flavor's process(): n frames at time t, with *)
(* buffers for the ports of layout l; `usable` says that every port has a  *)
(* buffer in a format it declared.  The buffers are looked at only when    *)
(* their number is right, and a block without them is refused after it     *)
(* moved the steady-time baseline.  Two layouts differ in their number of  *)
(* ports, and at most one port lacks its buffer, so P05 and P09 are        *)
(* reported once a block.                                                  *)
SProcess(n, t, l, usable) ==
  /\ alive
  /\ IF inProcess
       THEN Report({"L12"}) /\ UNCHANGED <<inProcess, steady>>
     ELSE IF ~active \/ ~processing
       THEN Report({"L09"}) /\ UNCHANGED <<inProcess, steady>>
     ELSE /\ Report(When(n < bounds.min \/ n > bounds.max, "P01")
                    \cup When(~SteadyOk(t), "P02")
                    \cup When(l # snapshot, "P05")
                    \cup When(l = snapshot /\ ~usable, "P09"))
          /\ steady' = SteadyAfter(t, n)
          /\ inProcess' = (l # snapshot \/ usable)
  /\ LET running == ~view.block /\ view.act /\ view.proc IN
     /\ Charge(When(view.block, "L12")
               \cup When(~view.block /\ ~running, "L09")
               \cup When(running /\ ~LegalFrames(n, view.min, view.max), "P01")
               \cup When(running /\ t >= 0 /\ t < view.clock, "P02")
               \cup When(running /\ l # view.ports, "P05")
               \cup When(running /\ l = view.ports /\ ~usable, "P09"))
     /\ view' = IF ~running THEN view
                ELSE [view EXCEPT !.block = l # view.ports \/ usable,
                                  !.clock = IF t < 0 THEN NoClock ELSE t + n]
  /\ UNCHANGED <<alive, initialized, active, processing, beingActivated,
                 pendingCallbacks, bounds, activation, snapshot, layout>>

(* The flavor's process() returns and ProcessGuard leaves.                 *)
SProcessReturn ==
  /\ alive /\ inProcess
  /\ inProcess' = FALSE
  /\ view' = [view EXCEPT !.block = FALSE]
  /\ UNCHANGED <<alive, initialized, active, processing, beingActivated,
                 pendingCallbacks, caches, layout, counters, offences,
                 due>>
-----------------------------------------------------------------------------
\* Calls that only inspect the lifecycle

Inspect(reported, charged) ==
  /\ Report(reported)
  /\ Charge(charged)
  /\ UNCHANGED <<alive, monitor, pendingCallbacks, caches, layout, view>>

(* Plugin::sGetExtension for any id but the violations extension's own.    *)
SGetExtension ==
  alive /\ Inspect(When(~initialized, "L01"), When(~view.init, "L01"))

(* ext/params.cpp sFlush, the overlap check.                               *)
SFlush == alive /\ Inspect(When(inProcess, "P07"), When(view.block, "P07"))

(* ext/audio_ports.cpp and ext/note_ports.cpp, count() and get().          *)
SPortScan(c) ==
  /\ alive /\ c \in {"AP01", "NP01"}
  /\ Inspect(When(active /\ ~beingActivated, c), When(view.act, c))

(* ext/latency.cpp sGet and ext/voice_info.cpp sGet.                       *)
SLatencyGet ==
  alive /\ Inspect(When(~active /\ ~beingActivated, "LT01"),
                   When(~view.act /\ ~view.opening, "LT01"))

SVoiceInfoGet ==
  alive /\ Inspect(When(~active, "VI01"), When(~view.act, "VI01"))

(* ext/configurable_audio_ports.cpp sCanApply.                             *)
SCanApply == alive /\ Inspect(When(active, "CA01"), When(view.act, "CA01"))

(* Mutant: the switch happens although it is reported.                     *)
SConfigureUnguarded(c, l) ==
  /\ alive /\ c \in {"AC01", "CA01"}
  /\ Report(When(active, c))
  /\ layout' = l
  /\ Charge(When(view.act, c))
  /\ view' = [view EXCEPT !.ports = IF view.act THEN view.ports ELSE l]
  /\ UNCHANGED <<alive, monitor, pendingCallbacks, caches>>

(* audio_ports_config select() (AC01) and configurable_audio_ports         *)
(* apply_configuration() (CA01): refused while active, else the flavor     *)
(* switches its layout.                                                    *)
SConfigure(c, l) ==
  /\ alive /\ c \in {"AC01", "CA01"}
  /\ Report(When(active, c))
  /\ layout' = IF active THEN layout ELSE l
  /\ Charge(When(view.act, c))
  /\ view' = [view EXCEPT !.ports = IF view.act THEN view.ports ELSE l]
  /\ UNCHANGED <<alive, monitor, pendingCallbacks, caches>>

(* ContractMonitor::consumePendingCallback: one on_main_thread() answers   *)
(* every request made so far.                                              *)
PendingConsumed == 0

(* Plugin::sOnMainThread                                                   *)
SOnMainThread ==
  /\ MainIdle
  /\ Report(When(pendingCallbacks = 0, "L11"))
  /\ pendingCallbacks' = PendingConsumed
  /\ Charge(When(~view.asked, "L11"))
  /\ view' = [view EXCEPT !.asked = FALSE]
  /\ UNCHANGED <<alive, monitor, caches, layout>>
-----------------------------------------------------------------------------
Next ==
  \/ CreatePlugin \/ SInit \/ SDestroy
  \/ \E min, max \in Frames : SActivate(min, max)
  \/ \E ok \in BOOLEAN : SActivateReturn(ok)
  \/ SDeactivate
  \/ \E ok \in BOOLEAN : SStartProcessing(ok)
  \/ SStopProcessing \/ SReset
  \/ \E n \in Frames, t \in Times, l \in Layouts, usable \in BOOLEAN :
       SProcess(n, t, l, usable)
  \/ SProcessReturn
  \/ SGetExtension \/ SFlush \/ SLatencyGet \/ SVoiceInfoGet \/ SCanApply
  \/ \E c \in {"AP01", "NP01"} : SPortScan(c)
  \/ \E c \in {"AC01", "CA01"}, l \in Layouts : SConfigure(c, l)
  \/ SOnMainThread

Spec == Init /\ [][Next]_vars
-----------------------------------------------------------------------------
\* Properties

FlagsOK ==
  /\ alive \in BOOLEAN /\ initialized \in BOOLEAN /\ active \in BOOLEAN
  /\ processing \in BOOLEAN /\ beingActivated \in BOOLEAN
  /\ inProcess \in BOOLEAN

CachesOK ==
  /\ pendingCallbacks \in Nat
  /\ bounds \in [min : Nat, max : Nat]
  /\ activation \in [min : Nat, max : Nat]
  /\ steady \in [valid : BOOLEAN, end : Int]
  /\ layout \in Layouts
  /\ snapshot \in Layouts \cup {NoLayout}

CountsOK ==
  /\ counters \in [Code -> Nat]
  /\ due \in [Code -> Nat]
  /\ offences \in Nat

ViewOK ==
  view \in [init : BOOLEAN, act : BOOLEAN, proc : BOOLEAN,
            opening : BOOLEAN, block : BOOLEAN, asked : BOOLEAN,
            min : Nat, max : Nat, clock : Int, ports : Layouts]

(* Type correctness of the monitor's flags, the caches, the counters and   *)
(* the ledger.                                                             *)
TypeOK == FlagsOK /\ CachesOK /\ CountsOK /\ ViewOK

(* The monitor is never wrong about the host: after any sequence of calls, *)
(* refusals and forced stops included, its lifecycle state is the one the  *)
(* host's own calls and their answers add up to.                           *)
MonitorTracksHost ==
  /\ initialized = view.init
  /\ active = view.act
  /\ processing = view.proc
  /\ beingActivated = view.opening
  /\ inProcess = view.block
  /\ pendingCallbacks > 0 <=> view.asked

(* A plugin that processes is active (docs: "processing implies active"),  *)
(* also after a deactivate() that forgot stop_processing().                *)
ProcessingImpliesActive == processing => active

(* What the audio thread compares a block with is what the flavor still    *)
(* declares and bounds a block can satisfy: no select(), apply() or        *)
(* clamped activate() leaves a stale or empty snapshot behind.             *)
SnapshotCurrent ==
  active => /\ snapshot = layout
            /\ 1 <= bounds.min /\ bounds.min <= bounds.max

(* Detection is exact: over the whole life of the instance each code is    *)
(* counted for exactly the calls that break its rule - none is missed and  *)
(* no correct call is charged.  (One stop_processing() on an inactive      *)
(* plugin is counted twice: it breaks both halves of L08.)                 *)
ExactDetection ==
  \A c \in Code :
    IF c = "L08" THEN /\ due[c] <= counters[c]
                      /\ counters[c] <= 2 * due[c]
                 ELSE counters[c] = due[c]

(* The conjuncts that make these inductive: an activation window opens     *)
(* only on an inactive plugin; the frame bounds are the ones the host      *)
(* passed, clamped; the layout moves only where the host is told so; the   *)
(* steady-time baseline is the end of the last accepted block since the    *)
(* last reset() or start_processing().                                     *)
OpeningExcludesActive == beingActivated => ~active
BoundsAgree ==
  /\ beingActivated => activation = Usable(view.min, view.max)
  /\ active => bounds = Usable(view.min, view.max)
LayoutAgrees == layout = view.ports /\ (active => snapshot = layout)
ClockAgrees ==
  /\ steady.valid <=> view.clock >= 0
  /\ steady.valid => steady.end = view.clock
  /\ view.clock >= NoClock

LifecycleInv ==
  /\ MonitorTracksHost /\ ProcessingImpliesActive /\ OpeningExcludesActive
  /\ BoundsAgree /\ LayoutAgrees /\ ClockAgrees
  /\ ExactDetection

(* A call the catalogue answers with Reject leaves no trace but its count: *)
(* lifecycle, layout, snapshot and steady-time baseline stay as they were. *)
RejectCode == {"L02", "L03", "L07", "L09", "L12", "AC01", "CA01"}
RejectionHasNoEffect ==
  [][(\E c \in RejectCode : counters'[c] > counters[c])
       => UNCHANGED <<monitor, caches, layout, pendingCallbacks>>]_vars

(* With a host that does not overlap lifecycle calls with a running block, *)
(* the flavor sees its virtuals in the order FlavorProtocol allows,        *)
(* whatever order the host calls the trampolines in.                       *)
FlavorPhase ==
  CASE ~alive -> "gone"
    [] alive /\ processing -> "processing"
    [] alive /\ active /\ ~processing -> "active"
    [] OTHER -> "idle"

Flavor == INSTANCE FlavorProtocol
            WITH phase <- FlavorPhase, inBlock <- inProcess,
                 ports <- layout, frozen <- snapshot

FlavorSpec == Flavor!ProtocolSpec
=============================================================================
