------------------------------ MODULE GuiEditor -----------------------------
(***************************************************************************)
(* The editor of the GUI flavor on X11: the checks of wrapper/ext/gui.cpp, *)
(* the GuiProvider methods of plugins/gui/gui_plugin.cpp and the view of   *)
(* gui/native_view_x11.cpp, with its UI thread and its self-pipe.          *)
(*                                                                         *)
(* The host's main thread may call the gui functions in any order.  A call *)
(* that talks to the UI thread is split where that thread can come         *)
(* between: the command is pushed, a byte is written, and destroy() joins. *)
(* Width and height are one number, and show() and hide() one command, the *)
(* view treats them alike.  `opened`, `due` and `wanted` are the host's    *)
(* own record of its calls and the answers; no guard of the code's actions *)
(* reads them.                                                             *)
(***************************************************************************)
EXTENDS Integers, Sequences, SequencesExt

CONSTANTS
  Sizes,           \* sizes the host asks for
  DefaultSize,     \* kDefaultWidth and the default height
  MinSize,         \* kMinWidth and minHeightFor()
  Scales,          \* scales the host sets; 0 stands for an unusable one
  Kinds,           \* commands the host causes: subset of {"resize", "map"}
  Chunk,           \* sizeof(drainBuf)
  MaxCommands,     \* bound: commands over all views
  MaxViews,        \* bound: views created
  MaxOffences      \* bound: calls that report

ASSUME EditorAssumption ==
  /\ Sizes \subseteq Nat
  /\ DefaultSize \in Nat \ {0} /\ MinSize \in Nat \ {0}
  /\ Scales \subseteq Nat
  /\ Kinds \subseteq {"resize", "map"}
  /\ Chunk \in Nat \ {0}
  /\ MaxCommands \in Nat /\ MaxViews \in Nat /\ MaxOffences \in Nat

VARIABLES
  guiCreated, guiFloating, counters,   \* the monitor's part
  view,            \* _view is set
  scale,           \* the plugin's _scale
  size,            \* the view's _widthPx and _heightPx
  joinable,        \* the view has started its thread, and its pipe is open
  pipe,            \* bytes in the pipe
  commands,        \* _commands
  main,            \* the main thread: where it is, and the command it pushes
  ui, taken,       \* the UI thread: where it is, and its local commands
  window, dead,    \* size of the X window; _windowDead
  events,          \* events of the window in the X connection
  opened, due,     \* ledger: the gui exists; violations the host committed
  wanted,          \* ledger: the size the view has to have
  issued, done,    \* commands of this view pushed, and executed
  pushes, views, offences              \* counters for the bounds

monitor == <<guiCreated, guiFloating>>
uiVars  == <<ui, taken, window, dead, events, done>>
channel == <<pipe, commands, issued, pushes>>
ledger  == <<opened, wanted>>
judging == <<counters, due, offences>>
editorVars == <<monitor, view, scale, size, joinable, channel, main, uiVars,
                ledger, judging, views>>

Code == {"G01", "G02", "G03", "G04"}
Max2(a, b) == IF a >= b THEN a ELSE b
When(P, c) == IF P THEN {c} ELSE {}
Command(kind, w) == [kind |-> kind, size |-> w, id |-> issued + 1]
Idle == [at |-> "idle", kind |-> "quit", size |-> 0]
Stage == {"idle", "push", "write", "join"}

EditorInit ==
  /\ guiCreated = FALSE /\ guiFloating = FALSE
  /\ counters = [c \in Code |-> 0] /\ due = [c \in Code |-> 0]
  /\ view = FALSE /\ scale = 1 /\ size = 0 /\ joinable = FALSE
  /\ pipe = 0 /\ commands = <<>> /\ main = Idle
  /\ ui = "none" /\ taken = <<>> /\ window = 0 /\ dead = FALSE
  /\ events = <<>>
  /\ opened = FALSE /\ wanted = 0 /\ issued = 0 /\ done = 0
  /\ pushes = 0 /\ views = 0 /\ offences = 0
-----------------------------------------------------------------------------
\* The checks of the wrapper

MainIdle == main.at = "idle"

(* ContractMonitor::report() for each code of S, and the ledger's charge.  *)
Judge(S, charged) ==
  /\ counters' = [c \in Code |-> counters[c] + (IF c \in S THEN 1 ELSE 0)]
  /\ due' = [c \in Code |-> due[c] + (IF c \in charged THEN 1 ELSE 0)]
  /\ offences' = offences + (IF S = {} THEN 0 ELSE 1)
  /\ offences' <= MaxOffences

(* Mutant: floating-only functions are let through.                        *)
RefusalLenient(need) ==
  CASE ~guiCreated                           -> {"G01"}
    [] guiCreated /\ need = "embedded"       -> When(guiFloating, "G04")
    [] OTHER                                 -> {}

(* requireCreated(), then requireEmbedded() or requireFloating(): what a   *)
(* call that needs `window` reports; it goes on when that is nothing.      *)
Refusal(need) ==
  CASE ~guiCreated                           -> {"G01"}
    [] guiCreated /\ need = "embedded"       -> When(guiFloating, "G04")
    [] guiCreated /\ need = "floating"       -> When(~guiFloating, "G04")
    [] OTHER                                 -> {}

(* What the catalogue charges; the flavor's windows are embedded.          *)
Offence(need) ==
  CASE ~opened                       -> {"G01"}
    [] opened /\ need = "floating"   -> {"G04"}
    [] OTHER                         -> {}

Checked(need) == Judge(Refusal(need), Offence(need))
Passed(need) == Refusal(need) = {}
-----------------------------------------------------------------------------
\* The gui functions of the host's main thread

(* sCreate and guiCreate(): only embedded windows of the platform's api.   *)
SCreate(floating, supported) ==
  /\ MainIdle
  /\ Judge(When(guiCreated, "G02"), When(opened, "G02"))
  /\ LET ok == ~guiCreated /\ ~floating /\ supported /\ ~view IN
     IF ok
       THEN /\ views < MaxViews /\ views' = views + 1
            /\ view' = TRUE /\ size' = DefaultSize * scale
            /\ guiCreated' = TRUE /\ guiFloating' = floating
            /\ opened' = TRUE /\ wanted' = DefaultSize * scale
       ELSE UNCHANGED <<views, view, size, monitor, ledger>>
  /\ UNCHANGED <<scale, joinable, channel, main, uiVars>>

(* The view and all it owns are gone; sDestroy clears the monitor's state. *)
Gone ==
  /\ view' = FALSE /\ joinable' = FALSE /\ size' = 0
  /\ pipe' = 0 /\ commands' = <<>> /\ issued' = 0 /\ pushes' = pushes
  /\ ui' = "none" /\ taken' = <<>> /\ window' = 0 /\ dead' = FALSE
  /\ events' = <<>> /\ done' = 0
  /\ guiCreated' = FALSE /\ guiFloating' = FALSE
  /\ opened' = FALSE /\ wanted' = 0
  /\ main' = Idle

(* Mutant: the view is torn down under its running thread.                 *)
SDestroyDetaches ==
  /\ MainIdle
  /\ Judge(When(~guiCreated, "G03"), When(~opened, "G03"))
  /\ view' = FALSE /\ joinable' = FALSE
  /\ guiCreated' = FALSE /\ guiFloating' = FALSE /\ opened' = FALSE
  /\ UNCHANGED <<scale, size, channel, main, uiVars, wanted, views>>

(* sDestroy, guiDestroy() and the view's destructor: with a thread, Quit   *)
(* is pushed and the thread is joined.                                     *)
SDestroy ==
  /\ MainIdle
  /\ Judge(When(~guiCreated, "G03"), When(~opened, "G03"))
  /\ IF view /\ joinable
       THEN /\ main' = [at |-> "push", kind |-> "quit", size |-> 0]
            /\ UNCHANGED <<view, joinable, size, channel, uiVars, monitor,
                           ledger>>
       ELSE Gone
  /\ UNCHANGED <<scale, views>>

(* std::thread::join() returns when the thread has ended.                  *)
Join ==
  /\ main.at = "join" /\ ui = "ended"
  /\ Gone
  /\ UNCHANGED <<scale, views, judging>>

(* sSetScale, guiSetScale() and the view's setScale(): an attached view    *)
(* keeps its size.                                                         *)
SSetScale(s) ==
  /\ MainIdle /\ Checked("created")
  /\ IF Passed("created")
       THEN /\ scale' = IF s > 0 THEN s ELSE 1
            /\ IF view /\ ~joinable
                 THEN size' = DefaultSize * scale' /\ wanted' = size'
                 ELSE UNCHANGED <<size, wanted>>
       ELSE UNCHANGED <<scale, size, wanted>>
  /\ UNCHANGED <<monitor, view, joinable, channel, main, uiVars, opened,
                 views>>

(* sSetParent, guiSetParent() and attach(): the thread starts once, if the *)
(* parent is usable and a pipe can be had.                                 *)
SSetParent(ok) ==
  /\ MainIdle /\ Checked("embedded")
  /\ IF Passed("embedded") /\ view /\ ~joinable /\ ok
       THEN joinable' = TRUE /\ ui' = "opening"
       ELSE UNCHANGED <<joinable, ui>>
  /\ UNCHANGED <<monitor, view, scale, size, channel, main, taken, window,
                 dead, events, done, ledger, views>>

(* Mutant: a size that is the view's already is not sent.                  *)
SSetSizeIfChanged(w) ==
  /\ MainIdle /\ Checked("embedded") /\ "resize" \in Kinds
  /\ IF Passed("embedded") /\ view
       THEN /\ size' = Max2(w, MinSize * scale) /\ wanted' = size'
            /\ IF joinable /\ size' # size
                 THEN /\ pushes < MaxCommands
                      /\ main' = [at |-> "push", kind |-> "resize",
                                  size |-> size']
                 ELSE UNCHANGED main
       ELSE UNCHANGED <<size, wanted, main>>
  /\ UNCHANGED <<monitor, view, scale, joinable, channel, uiVars, opened,
                 views>>

(* sSetSize, guiSetSize() and setSize(): the size is clamped, stored, and  *)
(* sent to the thread if there is one.                                     *)
SSetSize(w) ==
  /\ MainIdle /\ Checked("embedded") /\ "resize" \in Kinds
  /\ IF Passed("embedded") /\ view
       THEN /\ size' = Max2(w, MinSize * scale) /\ wanted' = size'
            /\ IF joinable
                 THEN /\ pushes < MaxCommands
                      /\ main' = [at |-> "push", kind |-> "resize",
                                  size |-> size']
                 ELSE UNCHANGED main
       ELSE UNCHANGED <<size, wanted, main>>
  /\ UNCHANGED <<monitor, view, scale, joinable, channel, uiVars, opened,
                 views>>

(* sShow and sHide down to show() and hide().                              *)
SShowHide ==
  /\ MainIdle /\ Checked("created") /\ "map" \in Kinds
  /\ IF Passed("created") /\ view /\ joinable
       THEN /\ pushes < MaxCommands
            /\ main' = [at |-> "push", kind |-> "map", size |-> 0]
       ELSE UNCHANGED main
  /\ UNCHANGED <<monitor, view, scale, size, joinable, channel, uiVars,
                 ledger, views>>

(* The functions that change nothing: get_size() needs a gui, can_resize(),*)
(* get_resize_hints() and adjust_size() an embedded one, set_transient()   *)
(* and suggest_title() a floating one.                                     *)
SInspect(need) ==
  /\ MainIdle /\ Checked(need)
  /\ UNCHANGED <<monitor, view, scale, size, joinable, channel, main, uiVars,
                 ledger, views>>

(* Mutant: the newest command is put in front.                             *)
PushedFirst == <<Command(main.kind, main.size)>> \o commands

(* _commands.push_back(), under the mutex.                                 *)
Pushed == Append(commands, Command(main.kind, main.size))

(* pushCommand(): the command, ...                                         *)
PushCommand ==
  /\ main.at = "push"
  /\ commands' = Pushed
  /\ issued' = issued + 1
  /\ pushes' = IF main.kind = "quit" THEN pushes ELSE pushes + 1
  /\ main' = [main EXCEPT !.at = "write"]
  /\ UNCHANGED <<monitor, view, scale, size, joinable, pipe, uiVars, ledger,
                 judging, views>>

(* ... and the byte that wakes the thread.  The pipe holds 64 KiB, far     *)
(* more than MaxCommands.                                                  *)
WriteByte ==
  /\ main.at = "write"
  /\ pipe' = pipe + 1
  /\ main' = IF main.kind = "quit" THEN [main EXCEPT !.at = "join"] ELSE Idle
  /\ UNCHANGED <<monitor, view, scale, size, joinable, commands, issued,
                 pushes, uiVars, ledger, judging, views>>
-----------------------------------------------------------------------------
\* The UI thread

outside == <<monitor, view, scale, joinable, main, ledger, judging, views,
             issued, pushes>>

(* XOpenDisplay() fails and the thread ends, or the window is created with *)
(* the size the view has by then.                                          *)
UiOpen(ok) ==
  /\ ui = "opening"
  /\ IF ok THEN ui' = "select" /\ window' = size
           ELSE ui' = "ended" /\ UNCHANGED window
  /\ UNCHANGED <<outside, size, pipe, commands, taken, dead, events, done>>

(* select() returns with bytes in the pipe, with X events, or after 100 ms.*)
UiSelect ==
  /\ ui = "select"
  /\ ui' = IF pipe > 0 THEN "read" ELSE "swap"
  /\ UNCHANGED <<outside, size, pipe, commands, taken, window, dead, events,
                 done>>

(* read() from the blocking pipe, again and again until it comes short.    *)
UiRead ==
  /\ ui = "read" /\ pipe > 0
  /\ IF pipe >= Chunk THEN pipe' = pipe - Chunk /\ UNCHANGED ui
                      ELSE pipe' = 0 /\ ui' = "swap"
  /\ UNCHANGED <<outside, size, commands, taken, window, dead, events, done>>

(* processCommands(): the swap under the mutex.                            *)
UiSwap ==
  /\ ui = "swap"
  /\ taken' = commands /\ commands' = <<>>
  /\ ui' = IF commands = <<>> THEN "events" ELSE "execute"
  /\ UNCHANGED <<outside, size, pipe, window, dead, events, done>>

(* Mutant: Quit is only a command like the others.                         *)
UiExecuteNoQuit ==
  /\ ui = "execute" /\ taken # <<>>
  /\ LET c == Head(taken) IN
     IF c.kind = "resize" /\ ~dead
       THEN /\ window' = c.size
            /\ events' = IF window = c.size THEN events
                         ELSE Append(events, c.size)
       ELSE UNCHANGED <<window, events>>
  /\ taken' = Tail(taken) /\ done' = done + 1
  /\ ui' = IF Len(taken) = 1 THEN "events" ELSE ui
  /\ UNCHANGED <<outside, size, pipe, commands, dead>>

(* ... and one command after the other.  XResizeWindow() makes the server  *)
(* send a ConfigureNotify if it changes the size; Quit ends the thread.    *)
UiExecute ==
  /\ ui = "execute" /\ taken # <<>>
  /\ LET c == Head(taken) IN
     /\ ui' = CASE c.kind = "quit"                    -> "ended"
               [] c.kind # "quit" /\ Len(taken) = 1   -> "events"
               [] OTHER                               -> ui
     /\ IF c.kind = "resize" /\ ~dead
          THEN /\ window' = c.size
               /\ events' = IF window = c.size THEN events
                            ELSE Append(events, c.size)
          ELSE UNCHANGED <<window, events>>
  /\ taken' = Tail(taken) /\ done' = done + 1
  /\ UNCHANGED <<outside, size, pipe, commands, dead>>

Destroyed == 0

(* Mutant: the event is looked at and left in the queue.                   *)
UiEventPeek ==
  /\ ui = "events" /\ ~dead /\ events # <<>>
  /\ IF Head(events) = Destroyed THEN dead' = TRUE /\ UNCHANGED size
                                 ELSE size' = Head(events) /\ UNCHANGED dead
  /\ UNCHANGED <<outside, ui, events, pipe, commands, taken, window, done>>

(* processXEvents(): ConfigureNotify is the view's size from now on;       *)
(* DestroyNotify (0) leaves the view without a window.                     *)
UiEvent ==
  /\ ui = "events" /\ ~dead /\ events # <<>>
  /\ IF Head(events) = Destroyed THEN dead' = TRUE /\ UNCHANGED size
                                 ELSE size' = Head(events) /\ UNCHANGED dead
  /\ events' = Tail(events)
  /\ UNCHANGED <<outside, ui, pipe, commands, taken, window, done>>

UiEventsDone ==
  /\ ui = "events" /\ (dead \/ events = <<>>)
  /\ ui' = "select"
  /\ UNCHANGED <<outside, size, pipe, commands, taken, window, dead, events,
                 done>>

Looping == ui \in {"select", "read", "swap", "execute", "events"}

(* The host destroys the parent window, and the server with it the view's. *)
HostDestroysParent ==
  /\ Looping /\ ~dead /\ ~Contains(events, Destroyed)
  /\ events' = Append(events, Destroyed)
  /\ UNCHANGED <<outside, ui, size, pipe, commands, taken, window, dead, done>>
-----------------------------------------------------------------------------
MainStep == PushCommand \/ WriteByte \/ Join

UiStep ==
  \/ \E ok \in BOOLEAN : UiOpen(ok)
  \/ UiSelect \/ UiRead \/ UiSwap \/ UiExecute
  \/ UiEvent \/ UiEventsDone

EditorNext ==
  \/ \E floating, supported \in BOOLEAN : SCreate(floating, supported)
  \/ SDestroy \/ SShowHide
  \/ \E s \in Scales : SSetScale(s)
  \/ \E ok \in BOOLEAN : SSetParent(ok)
  \/ \E w \in Sizes : SSetSize(w)
  \/ \E need \in {"created", "embedded", "floating"} : SInspect(need)
  \/ MainStep \/ UiStep \/ HostDestroysParent

(* Both threads keep running while they can; nothing makes the host call.  *)
EditorFairness == WF_editorVars(MainStep) /\ WF_editorVars(UiStep)

EditorSpec == EditorInit /\ [][EditorNext]_editorVars /\ EditorFairness
-----------------------------------------------------------------------------
\* Properties

Commands ==
  Seq([kind : {"resize", "map", "quit"}, size : Nat, id : Nat \ {0}])

(* Types of the monitor's part, the view, both threads and the ledger.     *)
TypeOK ==
  /\ guiCreated \in BOOLEAN /\ guiFloating \in BOOLEAN
  /\ counters \in [Code -> Nat] /\ due \in [Code -> Nat]
  /\ view \in BOOLEAN /\ joinable \in BOOLEAN /\ dead \in BOOLEAN
  /\ scale \in Nat \ {0} /\ size \in Nat /\ window \in Nat /\ wanted \in Nat
  /\ pipe \in Nat /\ commands \in Commands /\ taken \in Commands
  /\ main \in [at : Stage, kind : {"resize", "map", "quit"}, size : Nat]
  /\ ui \in {"none", "opening", "select", "read", "swap", "execute",
             "events", "ended"}
  /\ events \in Seq(Nat) /\ opened \in BOOLEAN
  /\ issued \in Nat /\ done \in Nat

(* The monitor's idea of the gui, the flavor's view and what the host has  *)
(* been answered are one, and each code counts exactly the calls that      *)
(* break its rule, refused creations and repeated destructions included.   *)
GuiJudgedRightly ==
  /\ counters = due
  /\ guiCreated = opened /\ view = opened
  /\ ~guiFloating

(* native_view.h: "destruction is safe whether or not attach() was ever    *)
(* called": the UI thread never runs without its view and its pipe.        *)
ViewOutlivesThread ==
  ui \notin {"none", "ended"} => view /\ joinable

(* The UI thread executes the commands of a view in the order of the       *)
(* host's calls, none twice, and none is lost while it runs.               *)
Waiting == taken \o commands
CommandsInOrder ==
  ui # "ended" => /\ Len(Waiting) = issued - done
                  /\ \A i \in DOMAIN Waiting : Waiting[i].id = done + i

(* When both threads have come to rest the window has the size the host    *)
(* set last and get_size() answers it, although each ConfigureNotify of an *)
(* earlier resize has overwritten the size in between.                     *)
BothAtRest ==
  /\ MainIdle /\ ui = "select" /\ ~dead
  /\ Waiting = <<>> /\ events = <<>>
SizeAgrees == BothAtRest => size = wanted /\ window = wanted

(* native_view.h: "destruction is safe whether or not attach() was ever    *)
(* called": a call of the host into the editor comes back.                 *)
CallsReturn == ~MainIdle ~> MainIdle

(* The one way for a call not to come back, and for a resize not to reach  *)
(* the window: the UI thread has read a multiple of Chunk bytes and waits  *)
(* in read() for another one.                                              *)
Stalled == ui = "read" /\ pipe = 0
ReturnsUnlessStalled == ~MainIdle ~> MainIdle \/ Stalled
ResizesLand == (Looping /\ commands # <<>>) ~> commands = <<>> \/ Stalled
=============================================================================
