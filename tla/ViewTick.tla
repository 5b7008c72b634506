------------------------------ MODULE ViewTick ------------------------------
(***************************************************************************)
(* What a native view does on its own thread between the host's calls: the *)
(* user's hand on its sliders, and the tick every 100 ms that shows the    *)
(* transport, the parameter values and the log                             *)
(* (gui/native_view_win32.cpp, native_view_mac.mm, native_view_x11.cpp).   *)
(* Blocks, host automation and log lines of other threads come between     *)
(* any two accesses of a tick.                                             *)
(*                                                                         *)
(* The Win32 and macOS views hold native sliders, which move themselves    *)
(* under the hand and are set by the tick; the X11 view draws the values.  *)
(* The violation badge follows the monitor's total as the pane follows the *)
(* log and is left out, as are layout, fonts and the clipboard's content.  *)
(***************************************************************************)
EXTENDS TransportSeqlock, LogRings

CONSTANTS
  Sliders,       \* the parameters' controls
  NoSlider,
  Values,        \* values of a parameter and positions of its slider
  MaxVersion     \* bound: lines appended to the log

ASSUME NoSliderAssumption == NoSlider \notin Sliders

VARIABLES
  kind,               \* the platform
  value, log,         \* the parameters' storage and the instance's log
  held, handAt,       \* ledger: the slider under the hand, where the hand put each
  key,                \* the slider a key is down on
  inGesture,          \* _inGesture; for X11 the slider of _dragParam
  open, orderly,      \* ledger: gestures begun and not ended; was the order kept?
  tick,               \* where the tick is
  pos, shown, dirty,  \* slider positions, the log pane with its version, _dirty
  timer, alive        \* does the timer run, does the window exist?

feedVars == <<value, log>>
handVars == <<held, handAt, key, inGesture, open, orderly>>
screenVars == <<tick, pos, shown, dirty>>
windowVars == <<kind, timer, alive>>
vars == <<transportVars, feedVars, handVars, screenVars, windowVars>>

Init ==
  /\ TransportInit
  /\ kind \in {"win32", "mac", "x11"}
  /\ \E v \in Values : /\ value = [s \in Sliders |-> v]
                       /\ pos = value /\ handAt = value
  /\ log = EmptyLog /\ shown = EmptyLog
  /\ held = NoSlider /\ key = NoSlider /\ inGesture = {}
  /\ open = {} /\ orderly = TRUE
  /\ tick = "idle" /\ dirty = TRUE
  /\ timer = TRUE /\ alive = TRUE
-----------------------------------------------------------------------------
\* The model's side of an edit

(* A view's handler makes `calls` of guiBeginGesture ("begin"), guiSetValue *)
(* ("value"), guiEndGesture ("end"): the storage takes the value at once,  *)
(* the ledger follows the order.                                           *)
Edit(s, v, calls) ==
  LET OpenBefore(k) == IF k = 1 THEN s \in open ELSE calls[k - 1] # "end" IN
  /\ value' = [value EXCEPT ![s] = v]
  /\ orderly' = (orderly /\ \A k \in DOMAIN calls :
                              calls[k] = "begin" <=> ~OpenBefore(k))
  /\ open' = IF Last(calls) = "end" THEN open \ {s} ELSE open \cup {s}

BeginUnless(P) == IF P THEN <<>> ELSE <<"begin">>

(* The hand moves the control itself; X11 shows nothing before a redraw.   *)
HandMoves(s, v) ==
  /\ handAt' = [handAt EXCEPT ![s] = v]
  /\ IF kind = "x11" THEN dirty' = TRUE /\ UNCHANGED pos
     ELSE pos' = [pos EXCEPT ![s] = v] /\ UNCHANGED dirty
  /\ UNCHANGED <<log, tick, shown>>

AtRest == tick = "idle" /\ alive
-----------------------------------------------------------------------------
\* Win32

(* WM_HSCROLL while a thumb is dragged or a key is down.                   *)
ScrollWin32(s, v) ==
  /\ Edit(s, v, BeginUnless(s \in inGesture) \o <<"value">>)
  /\ HandMoves(s, v)
  /\ inGesture' = inGesture \cup {s}

(* Mutant: the end of a scroll leaves the slider in its gesture.           *)
EndTrackWin32Sticky(s) ==
  /\ IF s \in inGesture
     THEN Edit(s, value[s], <<"end">>)
     ELSE Edit(s, pos[s], <<"begin", "value", "end">>)
  /\ UNCHANGED <<inGesture, handAt, log, screenVars>>

(* TB_ENDTRACK: the end of a drag or of a key press; without a gesture the *)
(* position is sent in one of its own.                                     *)
EndTrackWin32(s) ==
  /\ IF s \in inGesture
     THEN Edit(s, value[s], <<"end">>)
     ELSE Edit(s, pos[s], <<"begin", "value", "end">>)
  /\ inGesture' = inGesture \ {s}
  /\ UNCHANGED <<handAt, log, screenVars>>

HandWin32 ==
  /\ kind = "win32"
  /\ \/ \E s \in Sliders, v \in Values :
          \/ held \in {NoSlider, s} /\ held' = s /\ ScrollWin32(s, v) /\ UNCHANGED key
          \/ key \in {NoSlider, s} /\ key' = s /\ ScrollWin32(s, v) /\ UNCHANGED held
     \/ held # NoSlider /\ EndTrackWin32(held) /\ held' = NoSlider /\ UNCHANGED key
     \/ key # NoSlider /\ EndTrackWin32(key) /\ key' = NoSlider /\ UNCHANGED held

(* hide() stops the timer, show() starts it.                               *)
ShowHideWin32 ==
  /\ kind = "win32" /\ AtRest
  /\ timer' \in BOOLEAN
  /\ UNCHANGED <<transportVars, feedVars, handVars, screenVars, kind, alive>>
-----------------------------------------------------------------------------
\* macOS

(* sliderChanged: by the event that is current, a mouse button going down  *)
(* or the mouse dragged, the button going up, or a key.                    *)
SliderChangedMac(event, s, v) ==
  /\ Edit(s, v, CASE event = "drag" -> BeginUnless(s \in inGesture) \o <<"value">>
                  [] event = "up"   -> BeginUnless(s \in inGesture) \o <<"value", "end">>
                  [] event = "key"  -> <<"begin", "value", "end">>)
  /\ HandMoves(s, v)
  /\ inGesture' = CASE event = "drag" -> inGesture \cup {s}
                    [] event = "up"   -> inGesture \ {s}
                    [] event = "key"  -> inGesture

HandMac ==
  /\ kind = "mac"
  /\ \E s \in Sliders, v \in Values :
       \/ held \in {NoSlider, s} /\ held' = s /\ SliderChangedMac("drag", s, v)
       \/ held = s /\ held' = NoSlider /\ SliderChangedMac("up", s, v)
       \/ held = NoSlider /\ SliderChangedMac("key", s, v) /\ UNCHANGED held
  /\ UNCHANGED key
-----------------------------------------------------------------------------
\* X11

(* ButtonPress on a track: the gesture begins with the value there.        *)
MouseDownX11(s, v) ==
  /\ inGesture' = {s}
  /\ Edit(s, v, <<"begin", "value">>)
  /\ HandMoves(s, v)

MouseDragX11(s, v) ==
  /\ s \in inGesture
  /\ Edit(s, v, <<"value">>) /\ HandMoves(s, v)
  /\ UNCHANGED inGesture

MouseUpX11(s, v) ==
  /\ s \in inGesture
  /\ Edit(s, v, <<"value", "end">>) /\ HandMoves(s, v)
  /\ inGesture' = {}

HandX11 ==
  /\ kind = "x11"
  /\ \E s \in Sliders, v \in Values :
       \/ held = NoSlider /\ held' = s /\ MouseDownX11(s, v)
       \/ held = s /\ MouseDragX11(s, v) /\ UNCHANGED held
       \/ held = s /\ held' = NoSlider /\ MouseUpX11(s, v)
  /\ UNCHANGED key
-----------------------------------------------------------------------------
\* The tick, each access to a feed a step

TickBegin ==
  /\ AtRest /\ timer
  /\ tick' = "transport"
  /\ LoadBefore
  /\ UNCHANGED <<writerVars, feedVars, handVars, pos, shown, dirty, windowVars>>

(* guiTransport() returns.                                                 *)
TickTransport ==
  /\ tick = "transport" /\ Accept
  /\ tick' = IF kind = "x11" THEN "version" ELSE "values"
  /\ UNCHANGED <<writerVars, feedVars, handVars, pos, shown, dirty, windowVars>>

(* Mutant: sliders are set whether or not they are being moved.            *)
TickValuesAll ==
  /\ tick = "values" /\ kind # "x11"
  /\ pos' = value
  /\ tick' = "version"
  /\ UNCHANGED <<transportVars, feedVars, handVars, shown, dirty, windowVars>>

(* Win32, macOS: sliders outside a gesture take the parameters' values.    *)
TickValues ==
  /\ tick = "values" /\ kind # "x11"
  /\ pos' = [s \in Sliders |-> IF s \in inGesture THEN pos[s] ELSE value[s]]
  /\ tick' = "version"
  /\ UNCHANGED <<transportVars, feedVars, handVars, shown, dirty, windowVars>>

(* Mutant: the number of lines is compared, which a full log keeps.        *)
TickVersionByLength ==
  /\ tick = "version" /\ kind # "x11"
  /\ shown' = [shown EXCEPT !.version = log.version]
  /\ tick' = IF Len(log.lines) # Len(shown.lines) THEN "snapshot" ELSE "idle"
  /\ UNCHANGED <<transportVars, feedVars, handVars, pos, dirty, windowVars>>

(* Win32, macOS: the pane is rewritten when the log's version has moved.   *)
TickVersion ==
  /\ tick = "version" /\ kind # "x11"
  /\ shown' = [shown EXCEPT !.version = log.version]
  /\ tick' = IF log.version # shown.version THEN "snapshot" ELSE "idle"
  /\ UNCHANGED <<transportVars, feedVars, handVars, pos, dirty, windowVars>>

(* X11: a version that has moved asks for a redraw.                        *)
TickVersionX11 ==
  /\ tick = "version" /\ kind = "x11"
  /\ shown' = [shown EXCEPT !.version = log.version]
  /\ dirty' = (dirty \/ log.version # shown.version)
  /\ tick' = "values"
  /\ UNCHANGED <<transportVars, feedVars, handVars, pos, windowVars>>

(* X11: so does a parameter that has moved since it was drawn.             *)
TickValuesX11 ==
  /\ tick = "values" /\ kind = "x11"
  /\ tick' = IF dirty \/ value # pos THEN "redraw" ELSE "idle"
  /\ dirty' = FALSE
  /\ UNCHANGED <<transportVars, feedVars, handVars, pos, shown, windowVars>>

RedrawX11 ==
  /\ tick = "redraw"
  /\ pos' = value
  /\ tick' = "snapshot"
  /\ UNCHANGED <<transportVars, feedVars, handVars, shown, dirty, windowVars>>

(* The pane takes the lines of the log.                                    *)
TickSnapshot ==
  /\ tick = "snapshot"
  /\ shown' = [shown EXCEPT !.lines = log.lines]
  /\ tick' = "idle"
  /\ UNCHANGED <<transportVars, feedVars, handVars, pos, dirty, windowVars>>

Tick == \/ TickBegin \/ TickTransport
        \/ TickValues \/ TickVersion
        \/ TickVersionX11 \/ TickValuesX11 \/ RedrawX11
        \/ TickSnapshot
        \/ (\/ \E w \in Words : CopyWord(w)
            \/ LoadAfter \/ Retry)
           /\ UNCHANGED <<writerVars, feedVars, handVars, screenVars, windowVars>>
-----------------------------------------------------------------------------
\* The rest of the plugin and the host

Hand == /\ AtRest
        /\ HandWin32 \/ HandMac \/ HandX11
        /\ UNCHANGED <<transportVars, windowVars>>

(* Another thread logs, or "Copy Log" does after it has taken the lines.   *)
LogLine ==
  /\ log.version < MaxVersion
  /\ log' = Appended(log, log.version + 1)
  /\ UNCHANGED <<transportVars, value, handVars, screenVars, windowVars>>

(* A block applies a parameter event of the host.                          *)
Automate(s, v) ==
  /\ value' = [value EXCEPT ![s] = v]
  /\ UNCHANGED <<transportVars, log, handVars, screenVars, windowVars>>

(* The host takes the window away: no more ticks, no more mouse.           *)
WindowGone ==
  /\ AtRest
  /\ alive' = FALSE /\ timer' = FALSE
  /\ UNCHANGED <<transportVars, feedVars, handVars, screenVars, kind>>

StoreTransport ==
  Publish /\ UNCHANGED <<readerVars, feedVars, handVars, screenVars, windowVars>>

Next == \/ Tick \/ Hand \/ ShowHideWin32 \/ LogLine \/ WindowGone
        \/ \E s \in Sliders, v \in Values : Automate(s, v)
        \/ StoreTransport

(* The timer fires as long as it runs; a block that has begun to store its *)
(* transport finishes.                                                     *)
Fairness == /\ WF_vars(Tick)
            /\ WF_vars(StoreTransport /\ Storing)

Spec == Init /\ [][Next]_vars /\ Fairness
-----------------------------------------------------------------------------
(* The host sees gestures as clap/ext/params.h wants them: begun once,     *)
(* values only inside, ended once; and none is open when the user's hands  *)
(* are off the view, whatever mixture of mouse and keys moved the slider.  *)
(* A window that goes away under a drag leaves its gesture open.           *)
GesturesOrderly ==
  /\ orderly
  /\ alive /\ held = NoSlider /\ key = NoSlider => open = {}

(* While the host sees a parameter in touch, its control stays where the   *)
(* hand put it: neither automation nor an older queued value moves it.     *)
SliderInHand ==
  kind # "x11" => \A s \in open : alive => pos[s] = handAt[s]

(* Once transport, values and log rest, a view with a running timer shows  *)
(* the last record, the values (of sliders not in the hand) and the last   *)
(* lines: no update that fell between two accesses of a tick is missed.    *)
FeedsSettle ==
  LET feeds == <<writerVars, feedVars, timer, inGesture>>
      Settled == /\ tick = "idle"
                 /\ \A w \in Words : out[w] = published
                 /\ shown.lines = log.lines
                 /\ \A s \in Sliders \ inGesture : pos[s] = value[s]
  IN  <>[][FALSE]_feeds => []<>(timer => Settled)
=============================================================================
