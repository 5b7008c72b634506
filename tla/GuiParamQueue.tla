---------------------------- MODULE GuiParamQueue ---------------------------
(***************************************************************************)
(* The path of a parameter edit from the GUI thread to the host: the       *)
(* GuiModel methods of plugins/gui/gui_plugin.cpp, the ParamEventQueue of  *)
(* wrapper/param_queue.h and its drain in process() and params.flush().    *)
(*                                                                         *)
(* One parameter stands for all of them: the queue never looks at the id.  *)
(* A step is one access to the parameter's atomic, one critical section of *)
(* the queue's mutex or one call of the host.  The host keeps the rules of *)
(* clap/ext/params.h: process(), flush() and deactivate() do not overlap.  *)
(***************************************************************************)
EXTENDS Integers, Sequences, SequencesExt

CONSTANTS
  Values,          \* parameter values
  NoValue,         \* a block or flush without an event for the parameter
  InitialValue,
  MaxEdits,        \* bound: items the GUI pushes
  MaxWrites,       \* bound: blocks and flushes in which the host writes
  MaxCycles        \* bound: activations

ASSUME QueueAssumption ==
  /\ InitialValue \in Values /\ NoValue \notin Values
  /\ MaxEdits \in Nat /\ MaxWrites \in Nat /\ MaxCycles \in Nat

VARIABLES
  value,           \* the parameter's atomic<double>
  items,           \* _items: the queue
  batch,           \* the items the running drain() has swapped out
  gui,             \* where the GUI thread is: idle, pushing or asking
  edit,            \* the value of the running guiSetValue()
  gesture,         \* the user holds a control
  drain,           \* where the draining call is
  active,
  asked,           \* request_flush() was called and not yet answered
  hostValue, hostGesture,      \* what the host has been told
  pushed,          \* ghost: items pushed; an item is known by its number
  delivered,       \* ghost: the number of the last item forwarded
  dropped,         \* ghost: clear() has thrown items away
  unbalanced,      \* ghost: the host got an event outside its gesture
  writes, cycles   \* counters for the bounds

guiVars   == <<gui, edit, gesture>>
hostVars  == <<active, asked, hostValue, hostGesture>>
ghostVars == <<pushed, delivered, dropped, unbalanced>>
bounds    == <<writes, cycles>>
vars == <<value, items, batch, guiVars, drain, hostVars, ghostVars, bounds>>

Kind == {"begin", "value", "end"}
Item == [kind : Kind, value : Values, id : 1 .. MaxEdits]

Init ==
  /\ value = InitialValue /\ hostValue = InitialValue
  /\ items = <<>> /\ batch = <<>>
  /\ gui = "idle" /\ edit = InitialValue /\ gesture = FALSE
  /\ drain = "idle" /\ active = FALSE /\ asked = FALSE /\ hostGesture = FALSE
  /\ pushed = 0 /\ delivered = 0
  /\ dropped = FALSE /\ unbalanced = FALSE
  /\ writes = 0 /\ cycles = 0
-----------------------------------------------------------------------------
\* The GUI thread

(* Mutant: the newest item is put in front.                                *)
PushFront(kind, v) ==
  /\ items' = <<[kind |-> kind, value |-> v, id |-> pushed + 1]>> \o items
  /\ pushed' = pushed + 1

(* ParamEventQueue::push                                                   *)
Push(kind, v) ==
  /\ items' = Append(items, [kind |-> kind, value |-> v, id |-> pushed + 1])
  /\ pushed' = pushed + 1

(* guiBeginGesture(): the user grabs a control.                            *)
GuiBeginGesture ==
  /\ gui = "idle" /\ ~gesture /\ pushed < MaxEdits
  /\ gesture' = TRUE
  /\ Push("begin", value)
  /\ gui' = "asking"
  /\ UNCHANGED <<value, batch, edit, drain, hostVars, delivered, dropped,
                 unbalanced, bounds>>

(* guiSetValue(): the value is stored at once, so the UI does not snap     *)
(* back, ...                                                               *)
GuiStoreValue(v) ==
  /\ gui = "idle" /\ gesture /\ pushed < MaxEdits
  /\ value' = v /\ edit' = v
  /\ gui' = "pushing"
  /\ UNCHANGED <<items, batch, gesture, drain, hostVars, pushed, delivered,
                 dropped, unbalanced, bounds>>

(* Mutant: request_flush() goes out before the push, and not again.        *)
GuiPushValueSilently ==
  /\ gui = "pushing"
  /\ Push("value", edit)
  /\ gui' = "idle"
  /\ UNCHANGED <<value, batch, edit, gesture, drain, hostVars, delivered,
                 dropped, unbalanced, bounds>>

(* ... then queued for the host, ...                                       *)
GuiPushValue ==
  /\ gui = "pushing"
  /\ Push("value", edit)
  /\ gui' = "asking"
  /\ UNCHANGED <<value, batch, edit, gesture, drain, hostVars, delivered,
                 dropped, unbalanced, bounds>>

(* guiEndGesture()                                                         *)
GuiEndGesture ==
  /\ gui = "idle" /\ gesture /\ pushed < MaxEdits
  /\ gesture' = FALSE
  /\ Push("end", value)
  /\ gui' = "asking"
  /\ UNCHANGED <<value, batch, edit, drain, hostVars, delivered, dropped,
                 unbalanced, bounds>>

(* ... and last, in all three, host.request_flush().                       *)
GuiRequestFlush ==
  /\ gui = "asking"
  /\ asked' = TRUE
  /\ gui' = "idle"
  /\ UNCHANGED <<value, items, batch, edit, gesture, drain, active,
                 hostValue, hostGesture, ghostVars, bounds>>
-----------------------------------------------------------------------------
\* process() and params.flush()

(* The host's own events are applied first.  A flush is legal in any state *)
(* and a block while active; both drain alike, so either answers a request.*)
ApplyInput(v) ==
  /\ drain = "idle" /\ (v # NoValue => writes < MaxWrites)
  /\ (v # NoValue \/ asked \/ items # <<>>)
  /\ asked' = FALSE
  /\ IF v = NoValue
       THEN UNCHANGED <<value, hostValue, writes>>
       ELSE /\ value' = v /\ hostValue' = v
            /\ writes' = writes + 1
  /\ drain' = "swapping"
  /\ UNCHANGED <<items, batch, guiVars, active, hostGesture, pushed,
                 delivered, dropped, unbalanced, cycles>>

(* Mutant: the pending items are copied, not swapped out.                  *)
DrainCopy ==
  /\ drain = "swapping"
  /\ batch' = items
  /\ UNCHANGED items
  /\ drain' = IF items = <<>> THEN "idle" ELSE "applying"
  /\ UNCHANGED <<value, guiVars, hostVars, ghostVars, bounds>>

(* ParamEventQueue::drain: the swap under the mutex.                       *)
DrainSwap ==
  /\ drain = "swapping"
  /\ batch' = items /\ items' = <<>>
  /\ drain' = IF items = <<>> THEN "idle" ELSE "applying"
  /\ UNCHANGED <<value, guiVars, hostVars, ghostVars, bounds>>

(* Mutant: the item is forwarded without being applied.                    *)
DrainApplyNothing ==
  /\ drain = "applying"
  /\ drain' = "forwarding"
  /\ UNCHANGED <<value, items, batch, guiVars, hostVars, ghostVars, bounds>>

(* apply(): the value of the item is stored.                               *)
DrainApply ==
  /\ drain = "applying"
  /\ value' = IF Head(batch).kind = "value" THEN Head(batch).value ELSE value
  /\ drain' = "forwarding"
  /\ UNCHANGED <<items, batch, guiVars, hostVars, ghostVars, bounds>>

(* out->try_push(): the host sees the item.                                *)
DrainForward ==
  /\ drain = "forwarding"
  /\ LET it == Head(batch) IN
     /\ hostValue' = IF it.kind = "value" THEN it.value ELSE hostValue
     /\ hostGesture' = IF it.kind = "value" THEN hostGesture
                       ELSE it.kind = "begin"
     /\ unbalanced' = (unbalanced \/ hostGesture = (it.kind = "begin"))
     /\ delivered' = it.id
  /\ batch' = Tail(batch)
  /\ drain' = IF Len(batch) = 1 THEN "idle" ELSE "applying"
  /\ UNCHANGED <<value, items, guiVars, active, asked, pushed, dropped, bounds>>
-----------------------------------------------------------------------------
\* Activation

Activate ==
  /\ ~active /\ drain = "idle" /\ cycles < MaxCycles
  /\ active' = TRUE /\ cycles' = cycles + 1
  /\ UNCHANGED <<value, items, batch, guiVars, drain, asked, hostValue,
                 hostGesture, ghostVars, writes>>

(* GuiPlugin::deactivate drops what is queued.                             *)
Deactivate ==
  /\ active /\ drain = "idle"
  /\ active' = FALSE
  /\ items' = <<>>
  /\ dropped' = (dropped \/ items # <<>>)
  /\ UNCHANGED <<value, batch, guiVars, drain, asked, hostValue,
                 hostGesture, pushed, delivered, unbalanced, bounds>>
-----------------------------------------------------------------------------
GuiStep ==
  \/ GuiBeginGesture \/ GuiEndGesture
  \/ \E v \in Values : GuiStoreValue(v)
  \/ GuiPushValue \/ GuiRequestFlush

DrainStep == DrainSwap \/ DrainApply \/ DrainForward

Next ==
  \/ GuiStep \/ DrainStep
  \/ \E v \in Values \cup {NoValue} : ApplyInput(v)
  \/ Activate \/ Deactivate

(* The GUI thread finishes the call it is in, a drain runs to its end, and *)
(* params.h makes the host answer a request_flush() with a block or flush. *)
Fairness ==
  /\ WF_vars(GuiPushValue \/ GuiRequestFlush)
  /\ WF_vars(DrainStep)
  /\ WF_vars(asked /\ ApplyInput(NoValue))

Spec == Init /\ [][Next]_vars /\ Fairness
-----------------------------------------------------------------------------
\* Properties

(* Types of the queue, the threads' stages and the host's knowledge.       *)
TypeOK ==
  /\ value \in Values /\ edit \in Values /\ hostValue \in Values
  /\ items \in Seq(Item) /\ batch \in Seq(Item)
  /\ gui \in {"idle", "pushing", "asking"}
  /\ drain \in {"idle", "swapping", "applying", "forwarding"}
  /\ drain \in {"applying", "forwarding"} <=> batch # <<>>
  /\ pushed \in 0 .. MaxEdits /\ delivered \in 0 .. MaxEdits

(* Every item is forwarded at most once and in the order of the gestures;  *)
(* none is lost but by the clear() of deactivate().                        *)
Underway == batch \o items
InOrder ==
  /\ \A i, j \in DOMAIN Underway : i < j => Underway[i].id < Underway[j].id
  /\ \A i \in DOMAIN Underway : delivered < Underway[i].id
  /\ ~dropped => Len(Underway) = pushed - delivered

(* Whatever the threads do to the value in between, once all of it has     *)
(* come to rest the host and the plugin agree on the parameter.            *)
AtRest == gui = "idle" /\ drain = "idle" /\ items = <<>>
HostAgrees == AtRest /\ ~dropped => hostValue = value /\ hostGesture = gesture

(* The host gets values and ends only inside a gesture, and no gesture     *)
(* within a gesture, as long as deactivate() dropped nothing.              *)
GesturesBalanced == ~dropped => ~unbalanced

(* No edit stays behind: whatever is queued is forwarded or dropped, the   *)
(* request_flush() that follows each push sees to it.                      *)
EditsReachHost == items # <<>> ~> items = <<>>
=============================================================================
