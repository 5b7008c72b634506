------------------------ MODULE GuiParamQueueProofs ------------------------
(***************************************************************************)
(* The edits of the GUI reach the host in order, in their gestures and     *)
(* with the value the plug-in keeps: for any values, any number of edits   *)
(* and host events, and any interleaving of GUI thread and drain.          *)
(***************************************************************************)
EXTENDS GuiParamQueue, TLAPS

Entry == [kind : Kind, value : Values, id : Int]

(* Types, and what the GUI thread may still do.                            *)
QueueTypes ==
  /\ value \in Values /\ edit \in Values /\ hostValue \in Values
  /\ items \in Seq(Entry) /\ batch \in Seq(Entry)
  /\ gui \in {"idle", "pushing", "asking"}
  /\ drain \in {"idle", "swapping", "applying", "forwarding"}
  /\ drain \in {"applying", "forwarding"} <=> batch # <<>>
  /\ gesture \in BOOLEAN /\ hostGesture \in BOOLEAN
  /\ dropped \in BOOLEAN /\ unbalanced \in BOOLEAN
  /\ pushed \in Int /\ delivered \in Int
  /\ gui = "pushing" => gesture

(* The numbers: the queue holds the last ones pushed, the batch such       *)
(* between those and the ones delivered, all of them if nothing is lost.   *)
Numbered ==
  /\ \A i \in 1 .. Len(items) : items[i].id = (pushed - Len(items)) + i
  /\ \A i \in 1 .. Len(batch) : /\ delivered < batch[i].id
                                /\ batch[i].id <= pushed - Len(items)
                                /\ ~dropped => batch[i].id = delivered + i
  /\ \A i, j \in 1 .. Len(batch) : i < j => batch[i].id < batch[j].id
  /\ delivered <= pushed - Len(items)
  /\ ~dropped => Len(batch) + Len(items) = pushed - delivered

(* Is the gesture open once the items of s are through, if it was before?  *)
After(s, open) == IF s = <<>> THEN open ELSE s[Len(s)].kind # "end"

(* Every item of s begins a gesture exactly if none is open before it.     *)
Chained(s, open) ==
  \A i \in 1 .. Len(s) :
    (s[i].kind = "begin") <=> ~(IF i = 1 THEN open ELSE s[i - 1].kind # "end")

(* From the gesture the host knows of, through the batch and the queue, to *)
(* the one of the user.                                                    *)
GesturesChained ==
  ~dropped =>
    /\ Chained(batch, hostGesture)
    /\ Chained(items, After(batch, hostGesture))
    /\ gesture = After(items, After(batch, hostGesture))
    /\ ~unbalanced

Valueless(s, from) == \A i \in from .. Len(s) : s[i].kind # "value"

(* When no newer edit is on its way, the batch decides: behind its last    *)
(* value the host has the plug-in's, and that value itself is stored       *)
(* before it is forwarded.                                                 *)
ValuesMeet ==
  ~dropped /\ gui # "pushing" /\ Valueless(items, 1) =>
    /\ Valueless(batch, 1) => value = hostValue
    /\ drain = "forwarding" /\ batch[1].kind = "value" /\ Valueless(batch, 2)
         => value = batch[1].value

QueueInv == QueueTypes /\ Numbered /\ GesturesChained /\ ValuesMeet
-----------------------------------------------------------------------------
\* Sequences

LEMMA Appending ==
  ASSUME NEW S, NEW s \in Seq(S), NEW e \in S
  PROVE  /\ Append(s, e) \in Seq(S) /\ Append(s, e) # <<>>
         /\ Len(Append(s, e)) = Len(s) + 1 /\ Len(s) \in Nat
         /\ \A i \in 1 .. Len(s) : Append(s, e)[i] = s[i]
         /\ Append(s, e)[Len(s) + 1] = e
<1>1. /\ Append(s, e) \in Seq(S) /\ Len(s) \in Nat
      /\ Len(Append(s, e)) = Len(s) + 1
  OBVIOUS
<1>2. \A i \in 1 .. Len(s) : Append(s, e)[i] = s[i]
  OBVIOUS
<1>3. Append(s, e)[Len(s) + 1] = e
  OBVIOUS
<1>4. Append(s, e) # <<>>
  <2>1. Len(<<>>) = 0
    OBVIOUS
  <2> QED BY <1>1, <2>1
<1> QED BY <1>1, <1>2, <1>3, <1>4

LEMMA EmptyLength ==
  ASSUME NEW S, NEW s \in Seq(S)
  PROVE  Len(s) \in Nat /\ (s = <<>> <=> Len(s) = 0)
OBVIOUS

LEMMA TakingOff ==
  ASSUME NEW S, NEW s \in Seq(S), s # <<>>
  PROVE  /\ Tail(s) \in Seq(S) /\ Len(Tail(s)) = Len(s) - 1
         /\ Head(s) = s[1] /\ s[1] \in S
         /\ Len(s) \in Nat \ {0}
         /\ \A i \in 1 .. Len(s) - 1 : Tail(s)[i] = s[i + 1]
         /\ Tail(s) = <<>> <=> Len(s) = 1
<1>1. Len(s) \in Nat \ {0}
  OBVIOUS
<1>2. Tail(s) \in Seq(S) /\ Len(Tail(s)) = Len(s) - 1
  OBVIOUS
<1>3. Tail(s) = <<>> <=> Len(Tail(s)) = 0
  BY <1>2, EmptyLength
<1> QED BY <1>1, <1>2, <1>3

LEMMA EmptyTyped == ASSUME NEW S PROVE <<>> \in Seq(S) /\ Len(<<>>) = 0
OBVIOUS
-----------------------------------------------------------------------------
LEMMA QueueInit == Init => QueueInv
<1> SUFFICES ASSUME Init PROVE QueueInv
  OBVIOUS
<1>1. items = <<>> /\ batch = <<>> /\ <<>> \in Seq(Entry) /\ Len(<<>>) = 0
  BY EmptyTyped DEF Init
<1>2. QueueTypes
  <2>1. gesture \in BOOLEAN /\ hostGesture \in BOOLEAN
    BY DEF Init
  <2>2. dropped \in BOOLEAN /\ unbalanced \in BOOLEAN
    BY DEF Init
  <2>3. drain \in {"applying", "forwarding"} <=> batch # <<>>
    BY <1>1 DEF Init
  <2> QED BY <1>1, <2>1, <2>2, <2>3, QueueAssumption DEF Init, QueueTypes
<1>3. Numbered
  BY <1>1 DEF Init, Numbered
<1>4. GesturesChained
  <2>1. Chained(batch, hostGesture) /\ Chained(items, After(batch, hostGesture))
    BY <1>1 DEF Chained
  <2>2. gesture = After(items, After(batch, hostGesture))
    BY <1>1 DEF Init, After
  <2> QED BY <2>1, <2>2 DEF Init, GesturesChained
<1>5. ValuesMeet
  BY <1>1 DEF Init, ValuesMeet
<1> QED BY <1>2, <1>3, <1>4, <1>5 DEF QueueInv

(* What an item behind the queue does to each part of the invariant.       *)
LEMMA Pushing ==
  ASSUME QueueInv, NEW kind \in Kind, NEW v \in Values, Push(kind, v),
         batch' = batch, drain' = drain, value' = value,
         hostValue' = hostValue, hostGesture' = hostGesture,
         dropped' = dropped, delivered' = delivered,
         unbalanced' = unbalanced,
         kind = "begin" <=> ~gesture,
         gesture' = (kind # "end"),
         gui' # "pushing", gui = "pushing" => kind = "value"
  PROVE  /\ items' \in Seq(Entry) /\ pushed' \in Int
         /\ Numbered' /\ GesturesChained' /\ ValuesMeet'
<1> DEFINE e == [kind |-> kind, value |-> v, id |-> pushed + 1]
<1>t. QueueTypes
  BY DEF QueueInv
<1>1. e \in Entry /\ items' = Append(items, e) /\ pushed' = pushed + 1
  BY <1>t DEF Push, QueueTypes, Entry
<1>2. /\ items' \in Seq(Entry) /\ items' # <<>>
      /\ Len(items') = Len(items) + 1 /\ Len(items) \in Nat
      /\ \A i \in 1 .. Len(items) : items'[i] = items[i]
      /\ items'[Len(items) + 1] = e
  BY <1>1, <1>t, Appending DEF QueueTypes
<1>b. Len(batch) \in Nat /\ (items = <<>> <=> Len(items) = 0)
  BY <1>t, EmptyLength DEF QueueTypes
<1>p. pushed \in Int /\ pushed' = pushed + 1 /\ e.id = pushed + 1
      /\ e.kind = kind
  BY <1>1, <1>t DEF QueueTypes
<1> HIDE DEF e
<1>3. Numbered'
  <2> USE DEF Numbered
  <2>0. pushed' - Len(items') = pushed - Len(items)
    BY <1>2, <1>p
  <2>1. \A i \in 1 .. Len(items)' : (items[i].id = (pushed - Len(items)) + i)'
    <3> SUFFICES ASSUME NEW i \in 1 .. Len(items')
                 PROVE  items'[i].id = (pushed' - Len(items')) + i
      OBVIOUS
    <3>1. CASE i = Len(items) + 1
      BY <3>1, <2>0, <1>2, <1>p
    <3>2. CASE i # Len(items) + 1
      <4>1. i \in 1 .. Len(items)
        BY <3>2, <1>2
      <4> QED BY <4>1, <2>0, <1>2 DEF QueueInv
    <3> QED BY <3>1, <3>2
  <2>2. ~dropped' => Len(batch') + Len(items') = pushed' - delivered'
    BY <1>2, <1>p, <1>b, <1>t DEF QueueInv, QueueTypes
  <2> QED BY <2>0, <2>1, <2>2 DEF QueueInv
<1>4. GesturesChained'
  <2> SUFFICES ASSUME ~dropped'
               PROVE  /\ Chained(items', After(batch, hostGesture))
                      /\ gesture' = After(items', After(batch, hostGesture))
    BY DEF GesturesChained, QueueInv, Chained, After
  <2>1. /\ Chained(items, After(batch, hostGesture))
        /\ gesture = After(items, After(batch, hostGesture))
    BY DEF QueueInv, GesturesChained
  <2>2. gesture' = After(items', After(batch, hostGesture))
    BY <1>2, <1>p DEF After
  <2>3. ASSUME NEW i \in 1 .. Len(items')
        PROVE  (items'[i].kind = "begin")
                 <=> ~(IF i = 1 THEN After(batch, hostGesture)
                       ELSE items'[i - 1].kind # "end")
    <3>1. CASE i = Len(items) + 1 /\ i = 1
      <4>1. items = <<>>
        BY <3>1, <1>2, <1>b
      <4>2. gesture = After(batch, hostGesture)
        BY <4>1, <2>1 DEF After
      <4> QED BY <3>1, <4>2, <1>2, <1>p
    <3>2. CASE i = Len(items) + 1 /\ i # 1
      <4>1. items # <<>> /\ i - 1 = Len(items) /\ i - 1 \in 1 .. Len(items)
        BY <3>2, <1>2, <1>b
      <4>2. gesture = (items[Len(items)].kind # "end")
        BY <4>1, <2>1 DEF After
      <4>3. items'[i - 1] = items[Len(items)]
        BY <4>1, <1>2
      <4> QED BY <3>2, <4>2, <4>3, <1>2, <1>p
    <3>3. CASE i # Len(items) + 1
      <4>1. i \in 1 .. Len(items) /\ (i # 1 => i - 1 \in 1 .. Len(items))
        BY <3>3, <1>2
      <4>2. items'[i] = items[i] /\ (i # 1 => items'[i - 1] = items[i - 1])
        BY <4>1, <1>2
      <4> QED BY <4>1, <4>2, <2>1 DEF Chained
    <3> QED BY <3>1, <3>2, <3>3
  <2> QED BY <2>2, <2>3 DEF Chained
<1>5. ValuesMeet'
  <2> SUFFICES ASSUME ~dropped', Valueless(items', 1)
               PROVE  /\ Valueless(batch, 1) => value = hostValue
                      /\ /\ drain = "forwarding" /\ batch[1].kind = "value"
                         /\ Valueless(batch, 2)
                         => value = batch[1].value
    BY DEF ValuesMeet, Valueless
  <2>1. kind # "value" /\ gui # "pushing"
    <3>1. Len(items) + 1 \in 1 .. Len(items')
      BY <1>2
    <3> QED BY <3>1, <1>2, <1>p DEF Valueless
  <2>2. Valueless(items, 1)
    <3>1. \A i \in 1 .. Len(items) : i \in 1 .. Len(items')
      BY <1>2
    <3> QED BY <3>1, <1>2 DEF Valueless
  <2> QED BY <2>1, <2>2 DEF QueueInv, ValuesMeet
<1> QED BY <1>1, <1>2, <1>3, <1>4, <1>5, <1>p

LEMMA GuiKeeps == ASSUME QueueInv, GuiStep PROVE QueueInv'
<1>t. QueueTypes
  BY DEF QueueInv
<1>1. CASE GuiBeginGesture
  <2>1. /\ items' \in Seq(Entry) /\ pushed' \in Int
        /\ Numbered' /\ GesturesChained' /\ ValuesMeet'
    BY <1>1, <1>t, Pushing DEF GuiBeginGesture, hostVars, QueueTypes, Kind
  <2> QED BY <1>1, <1>t, <2>1
          DEF GuiBeginGesture, hostVars, QueueTypes, QueueInv
<1>2. CASE GuiEndGesture
  <2>1. /\ items' \in Seq(Entry) /\ pushed' \in Int
        /\ Numbered' /\ GesturesChained' /\ ValuesMeet'
    BY <1>2, <1>t, Pushing DEF GuiEndGesture, hostVars, QueueTypes, Kind
  <2> QED BY <1>2, <1>t, <2>1
          DEF GuiEndGesture, hostVars, QueueTypes, QueueInv
<1>3. CASE GuiPushValue
  <2>1. /\ items' \in Seq(Entry) /\ pushed' \in Int
        /\ Numbered' /\ GesturesChained' /\ ValuesMeet'
    BY <1>3, <1>t, Pushing DEF GuiPushValue, hostVars, QueueTypes, Kind
  <2> QED BY <1>3, <1>t, <2>1
          DEF GuiPushValue, hostVars, QueueTypes, QueueInv
<1>4. ASSUME NEW v \in Values, GuiStoreValue(v) PROVE QueueInv'
  <2>1. QueueTypes'
    BY <1>4, <1>t DEF GuiStoreValue, hostVars, QueueTypes
  <2>2. Numbered' /\ GesturesChained'
    BY <1>4 DEF GuiStoreValue, hostVars, QueueInv, Numbered, GesturesChained,
                Chained, After
  <2>3. ValuesMeet'
    BY <1>4 DEF GuiStoreValue, ValuesMeet
  <2> QED BY <2>1, <2>2, <2>3 DEF QueueInv
<1>5. CASE GuiRequestFlush
  <2>1. QueueTypes'
    BY <1>5, <1>t DEF GuiRequestFlush, ghostVars, QueueTypes
  <2>2. Numbered' /\ GesturesChained'
    BY <1>5 DEF GuiRequestFlush, ghostVars, QueueInv, Numbered,
                GesturesChained, Chained, After
  <2>3. ValuesMeet'
    BY <1>5 DEF GuiRequestFlush, ghostVars, QueueInv, ValuesMeet, Valueless
  <2> QED BY <2>1, <2>2, <2>3 DEF QueueInv
<1> QED BY <1>1, <1>2, <1>3, <1>4, <1>5 DEF GuiStep

(* The host's own values, and activation.                                  *)
LEMMA HostKeeps ==
  ASSUME QueueInv,
         \/ \E v \in Values \cup {NoValue} : ApplyInput(v)
         \/ Activate \/ Deactivate
  PROVE  QueueInv'
<1>t. QueueTypes
  BY DEF QueueInv
<1>1. ASSUME NEW v \in Values \cup {NoValue}, ApplyInput(v) PROVE QueueInv'
  <2>1. QueueTypes'
    BY <1>1, <1>t, QueueAssumption DEF ApplyInput, guiVars, QueueTypes
  <2>2. Numbered' /\ GesturesChained'
    BY <1>1 DEF ApplyInput, guiVars, QueueInv, Numbered, GesturesChained,
                Chained, After
  <2>3. batch = <<>> /\ batch' = batch /\ Valueless(batch, 1)
    <3>1. batch = <<>> /\ batch' = batch
      BY <1>1, <1>t DEF ApplyInput, QueueTypes
    <3> QED BY <3>1, EmptyTyped DEF Valueless
  <2>4. ValuesMeet'
    <3>1. value' = hostValue' \/ (value' = value /\ hostValue' = hostValue)
      BY <1>1 DEF ApplyInput
    <3> QED BY <1>1, <2>3, <3>1
            DEF ApplyInput, guiVars, QueueInv, ValuesMeet, Valueless
  <2> QED BY <2>1, <2>2, <2>4 DEF QueueInv
<1>2. CASE Activate
  <2>1. QueueTypes'
    BY <1>2, <1>t DEF Activate, guiVars, ghostVars, QueueTypes
  <2>2. Numbered' /\ GesturesChained'
    BY <1>2 DEF Activate, guiVars, ghostVars, QueueInv, Numbered,
                GesturesChained, Chained, After
  <2>3. ValuesMeet'
    BY <1>2 DEF Activate, guiVars, ghostVars, QueueInv, ValuesMeet, Valueless
  <2> QED BY <2>1, <2>2, <2>3 DEF QueueInv
<1>3. CASE Deactivate
  <2>1. items' = <<>> /\ <<>> \in Seq(Entry) /\ Len(items') = 0
    BY <1>3, EmptyTyped DEF Deactivate
  <2>2. batch = <<>> /\ batch' = <<>> /\ Len(<<>>) = 0
    BY <1>3, <1>t DEF Deactivate, QueueTypes
  <2>d. dropped' \in BOOLEAN
    BY <1>3, <1>t DEF Deactivate, QueueTypes
  <2>3. QueueTypes'
    BY <1>3, <1>t, <2>1, <2>2, <2>d DEF Deactivate, guiVars, QueueTypes
  <2>4. CASE items = <<>>
    <3>d. dropped' <=> dropped
      BY <1>3, <2>4 DEF Deactivate
    <3>1. items' = items /\ dropped' = dropped /\ batch' = batch
      <4>1. dropped \in BOOLEAN /\ dropped' \in BOOLEAN
        BY <1>t, <2>d DEF QueueTypes
      <4> QED BY <1>3, <2>1, <2>4, <3>d, <4>1 DEF Deactivate
    <3>2. Numbered' /\ GesturesChained'
      BY <1>3, <3>1 DEF Deactivate, guiVars, QueueInv, Numbered,
                        GesturesChained, Chained, After
    <3>3. ValuesMeet'
      BY <1>3, <3>1 DEF Deactivate, guiVars, QueueInv, ValuesMeet, Valueless
    <3> QED BY <2>3, <3>2, <3>3 DEF QueueInv
  <2>5. CASE items # <<>>
    <3>1. dropped'
      BY <1>3, <2>5 DEF Deactivate
    <3>2. Len(items) \in Nat
      BY <1>t, EmptyLength DEF QueueTypes
    <3>3. Numbered'
      BY <1>3, <1>t, <2>1, <2>2, <3>1, <3>2
         DEF Deactivate, QueueTypes, QueueInv, Numbered
    <3> QED BY <2>3, <3>1, <3>3 DEF QueueInv, GesturesChained, ValuesMeet
  <2> QED BY <2>4, <2>5
<1> QED BY <1>1, <1>2, <1>3

LEMMA DrainKeeps == ASSUME QueueInv, DrainStep PROVE QueueInv'
<1>t. QueueTypes
  BY DEF QueueInv
<1>n. /\ Len(items) \in Nat /\ Len(batch) \in Nat
      /\ items = <<>> <=> Len(items) = 0
      /\ batch = <<>> <=> Len(batch) = 0
  BY <1>t, EmptyLength DEF QueueTypes
<1>1. CASE DrainSwap
  <2>1. /\ items' = <<>> /\ <<>> \in Seq(Entry) /\ Len(<<>>) = 0
        /\ batch' = items
    BY <1>1, EmptyTyped DEF DrainSwap
  <2>2. batch = <<>>
    BY <1>1, <1>t DEF DrainSwap, QueueTypes
  <2>3. QueueTypes'
    BY <1>1, <1>t, <2>1
       DEF DrainSwap, guiVars, hostVars, ghostVars, QueueTypes
  <2>4. Numbered'
    BY <1>1, <1>t, <1>n, <2>1, <2>2
       DEF DrainSwap, ghostVars, QueueTypes, QueueInv, Numbered
  <2>5. GesturesChained'
    BY <1>1, <2>1, <2>2 DEF DrainSwap, guiVars, hostVars, ghostVars, QueueInv,
                            GesturesChained, Chained, After
  <2>6. ValuesMeet'
    <3> SUFFICES ASSUME ~dropped, gui # "pushing", Valueless(items, 1)
                 PROVE  value = hostValue
      BY <1>1, <2>1 DEF DrainSwap, guiVars, hostVars, ghostVars, ValuesMeet,
                        Valueless
    <3> QED BY <2>1, <2>2 DEF QueueInv, ValuesMeet, Valueless
  <2> QED BY <2>3, <2>4, <2>5, <2>6 DEF QueueInv
<1>2. CASE DrainApply
  <2>1. batch # <<>>
    BY <1>2, <1>t DEF DrainApply, QueueTypes
  <2>2. Head(batch) = batch[1] /\ batch[1] \in Entry
    BY <1>t, <2>1, TakingOff DEF QueueTypes
  <2>3. QueueTypes'
    BY <1>2, <1>t, <2>1, <2>2
       DEF DrainApply, guiVars, hostVars, ghostVars, QueueTypes, Entry
  <2>4. Numbered' /\ GesturesChained'
    BY <1>2 DEF DrainApply, guiVars, hostVars, ghostVars, QueueInv, Numbered,
                GesturesChained, Chained, After
  <2>5. ValuesMeet'
    <3> SUFFICES ASSUME ~dropped, gui # "pushing", Valueless(items, 1)
                 PROVE  /\ Valueless(batch, 1) => value' = hostValue
                        /\ batch[1].kind = "value" => value' = batch[1].value
      BY <1>2 DEF DrainApply, guiVars, hostVars, ghostVars, ValuesMeet,
                  Valueless
    <3>1. Valueless(batch, 1) => batch[1].kind # "value"
      BY <1>n, <2>1 DEF Valueless
    <3> QED BY <1>2, <2>2, <3>1 DEF DrainApply, QueueInv, ValuesMeet
  <2> QED BY <2>3, <2>4, <2>5 DEF QueueInv
<1>3. CASE DrainForward
  <2>1. batch # <<>>
    BY <1>3, <1>t DEF DrainForward, QueueTypes
  <2>2. /\ batch' \in Seq(Entry) /\ Len(batch') = Len(batch) - 1
        /\ Head(batch) = batch[1] /\ batch[1] \in Entry
        /\ \A i \in 1 .. Len(batch) - 1 : batch'[i] = batch[i + 1]
        /\ batch' = <<>> <=> Len(batch) = 1
    BY <1>3, <1>t, <2>1, TakingOff DEF DrainForward, QueueTypes
  <2>3. batch[1].kind \in Kind /\ batch[1].value \in Values
        /\ batch[1].id \in Int
    BY <2>2 DEF Entry
  <2>4. /\ items' = items /\ value' = value /\ pushed' = pushed
        /\ dropped' = dropped /\ gesture' = gesture /\ gui' = gui
        /\ edit' = edit /\ delivered' = batch[1].id
        /\ hostValue' = IF batch[1].kind = "value" THEN batch[1].value
                        ELSE hostValue
    BY <1>3, <2>2 DEF DrainForward, guiVars
  <2>g. /\ hostGesture' = IF batch[1].kind = "value" THEN hostGesture
                          ELSE batch[1].kind = "begin"
        /\ unbalanced' =
             (unbalanced \/ hostGesture = (batch[1].kind = "begin"))
    BY <1>3, <2>2 DEF DrainForward
  <2>5. QueueTypes'
    <3>1. hostGesture' \in BOOLEAN /\ unbalanced' \in BOOLEAN
      BY <1>t, <2>g DEF QueueTypes
    <3>2. drain' = IF batch' = <<>> THEN "idle" ELSE "applying"
      BY <1>3, <2>2 DEF DrainForward
    <3> QED BY <1>t, <2>2, <2>3, <2>4, <3>1, <3>2 DEF QueueTypes
  <2>6. Numbered'
    <3>1. \A i \in 1 .. Len(batch') : /\ i + 1 \in 1 .. Len(batch)
                                      /\ 1 \in 1 .. Len(batch) /\ 1 < i + 1
                                      /\ batch'[i] = batch[i + 1]
      BY <1>n, <2>2
    <3>2. /\ 1 \in 1 .. Len(batch)
          /\ batch[1].id <= pushed - Len(items)
          /\ ~dropped => batch[1].id = delivered + 1
      BY <1>n, <2>1 DEF QueueInv, Numbered
    <3>3. \A i \in 1 .. Len(batch') :
            /\ delivered' < batch'[i].id
            /\ batch'[i].id <= pushed' - Len(items')
            /\ ~dropped' => batch'[i].id = delivered' + i
      <4> SUFFICES ASSUME NEW i \in 1 .. Len(batch')
                   PROVE  /\ batch[1].id < batch[i + 1].id
                          /\ batch[i + 1].id <= pushed - Len(items)
                          /\ ~dropped => batch[i + 1].id = batch[1].id + i
        BY <2>4, <3>1
      <4>1. i + 1 \in 1 .. Len(batch) /\ 1 < i + 1 /\ 1 \in 1 .. Len(batch)
        BY <3>1
      <4>2. /\ batch[1].id < batch[i + 1].id
            /\ batch[i + 1].id <= pushed - Len(items)
            /\ ~dropped => batch[i + 1].id = delivered + (i + 1)
        BY <4>1 DEF QueueInv, Numbered
      <4>3. delivered \in Int /\ i \in Int
        BY <1>t, <1>n, <2>2 DEF QueueTypes
      <4> QED BY <3>2, <4>2, <4>3
    <3>4. \A i, j \in 1 .. Len(batch') :
            i < j => batch'[i].id < batch'[j].id
      BY <3>1 DEF QueueInv, Numbered
    <3>5. ~dropped' => Len(batch') + Len(items') = pushed' - delivered'
      <4>1. ~dropped => /\ Len(batch) + Len(items) = pushed - delivered
                        /\ batch[1].id = delivered + 1
        BY <3>2 DEF QueueInv, Numbered
      <4>2. delivered \in Int /\ pushed \in Int
        BY <1>t DEF QueueTypes
      <4> QED BY <1>n, <2>2, <2>4, <4>1, <4>2
    <3>6. \A i \in 1 .. Len(items') :
            items'[i].id = (pushed' - Len(items')) + i
      BY <2>4 DEF QueueInv, Numbered
    <3> QED BY <2>4, <3>2, <3>3, <3>4, <3>5, <3>6 DEF Numbered
  <2>7. GesturesChained'
    <3> SUFFICES ASSUME ~dropped
                 PROVE  /\ Chained(batch', hostGesture')
                        /\ Chained(items, After(batch', hostGesture'))
                        /\ gesture = After(items, After(batch', hostGesture'))
                        /\ ~unbalanced'
      BY <2>4 DEF GesturesChained
    <3>1. /\ Chained(batch, hostGesture)
          /\ Chained(items, After(batch, hostGesture))
          /\ gesture = After(items, After(batch, hostGesture))
          /\ ~unbalanced
      BY DEF QueueInv, GesturesChained
    <3>2. (batch[1].kind = "begin") <=> ~hostGesture
      BY <1>n, <2>1, <3>1 DEF Chained
    <3>3. hostGesture' <=> (batch[1].kind # "end")
      BY <2>3, <2>g, <3>2 DEF Kind
    <3>4. ~unbalanced'
      BY <1>t, <2>g, <3>1, <3>2 DEF QueueTypes
    <3>5. After(batch', hostGesture') <=> After(batch, hostGesture)
      <4>1. CASE Len(batch) = 1
        BY <4>1, <2>1, <2>2, <3>3 DEF After
      <4>2. CASE Len(batch) # 1
        <5>1. batch' # <<>> /\ batch'[Len(batch')] = batch[Len(batch)]
          BY <4>2, <1>n, <2>1, <2>2
        <5> QED BY <5>1, <2>1 DEF After
      <4> QED BY <4>1, <4>2
    <3>6. Chained(batch', hostGesture')
      <4> SUFFICES ASSUME NEW i \in 1 .. Len(batch')
                   PROVE  (batch'[i].kind = "begin")
                            <=> ~(IF i = 1 THEN hostGesture'
                                  ELSE batch'[i - 1].kind # "end")
        BY DEF Chained
      <4>1. /\ i + 1 \in 1 .. Len(batch) /\ i + 1 # 1 /\ (i + 1) - 1 = i
            /\ batch'[i] = batch[i + 1]
            /\ i # 1 => batch'[i - 1] = batch[i]
        BY <1>n, <2>2
      <4>2. (batch[i + 1].kind = "begin") <=> ~(batch[i].kind # "end")
        BY <3>1, <4>1 DEF Chained
      <4> QED BY <3>3, <4>1, <4>2
    <3>7. After(batch', hostGesture') = After(batch, hostGesture)
      BY <1>t, <2>5, <3>5 DEF After, QueueTypes
    <3> QED BY <3>1, <3>4, <3>6, <3>7
  <2>8. ValuesMeet'
    <3> SUFFICES ASSUME ~dropped, gui # "pushing", Valueless(items, 1),
                        Valueless(batch', 1)
                 PROVE  value = hostValue'
      BY <1>3, <2>4 DEF DrainForward, ValuesMeet, Valueless
    <3>1. Valueless(batch, 2)
      <4> SUFFICES ASSUME NEW i \in 2 .. Len(batch)
                   PROVE  batch[i].kind # "value"
        BY DEF Valueless
      <4>1. i - 1 \in 1 .. Len(batch') /\ batch'[i - 1] = batch[i]
        BY <1>n, <2>2
      <4> QED BY <4>1 DEF Valueless
    <3>2. CASE batch[1].kind = "value"
      BY <1>3, <2>4, <3>1, <3>2 DEF DrainForward, QueueInv, ValuesMeet
    <3>3. CASE batch[1].kind # "value"
      <4>1. Valueless(batch, 1)
        BY <1>n, <3>1, <3>3 DEF Valueless
      <4> QED BY <2>4, <3>3, <4>1 DEF QueueInv, ValuesMeet
    <3> QED BY <3>2, <3>3
  <2> QED BY <2>5, <2>6, <2>7, <2>8 DEF QueueInv
<1> QED BY <1>1, <1>2, <1>3 DEF DrainStep

LEMMA QueueNext == QueueInv /\ [Next]_vars => QueueInv'
<1> SUFFICES ASSUME QueueInv, [Next]_vars PROVE QueueInv'
  OBVIOUS
<1>1. CASE UNCHANGED vars
  <2>1. QueueTypes' /\ Numbered'
    BY <1>1 DEF vars, guiVars, hostVars, ghostVars, QueueInv, QueueTypes,
                Numbered
  <2>2. GesturesChained'
    BY <1>1 DEF vars, guiVars, hostVars, ghostVars, QueueInv,
                GesturesChained, Chained, After
  <2>3. ValuesMeet'
    BY <1>1 DEF vars, guiVars, hostVars, ghostVars, QueueInv, ValuesMeet,
                Valueless
  <2> QED BY <2>1, <2>2, <2>3 DEF QueueInv
<1> QED BY <1>1, GuiKeeps, HostKeeps, DrainKeeps DEF Next
-----------------------------------------------------------------------------
(* Numbers, gestures and values along the batch and the queue stay         *)
(* consistent (param_queue.h's push(), drain() and clear(), and the GUI's  *)
(* callers in gui_plugin.cpp).                                             *)
THEOREM QueueCorrect == Spec => []QueueInv
BY QueueInit, QueueNext, PTL DEF Spec

(* Every item is forwarded once, in the order pushed, and none is lost but *)
(* by deactivate() (ParamEventQueue::push, drain and clear).               *)
THEOREM EditsInOrder == Spec => []InOrder
<1>1. QueueInv => InOrder
  <2> SUFFICES ASSUME QueueInv PROVE InOrder
    OBVIOUS
  <2>t. items \in Seq(Entry) /\ batch \in Seq(Entry)
        /\ pushed \in Int /\ delivered \in Int
    BY DEF QueueInv, QueueTypes
  <2>1. /\ Len(Underway) = Len(batch) + Len(items)
        /\ DOMAIN Underway = 1 .. Len(batch) + Len(items)
        /\ Len(batch) \in Nat /\ Len(items) \in Nat
    BY <2>t DEF Underway
  <2>2. /\ \A i \in 1 .. Len(batch) : Underway[i] = batch[i]
        /\ \A i \in Len(batch) + 1 .. Len(batch) + Len(items) :
             Underway[i] = items[i - Len(batch)]
    BY <2>t DEF Underway
  <2>3. \A i \in 1 .. Len(batch) :
          /\ delivered < Underway[i].id
          /\ Underway[i].id <= pushed - Len(items)
    BY <2>2 DEF QueueInv, Numbered
  <2>4. \A i \in Len(batch) + 1 .. Len(batch) + Len(items) :
          Underway[i].id = (pushed - Len(items)) + (i - Len(batch))
    <3> SUFFICES ASSUME NEW i \in Len(batch) + 1 .. Len(batch) + Len(items)
                 PROVE  Underway[i].id
                          = (pushed - Len(items)) + (i - Len(batch))
      OBVIOUS
    <3>1. i - Len(batch) \in 1 .. Len(items)
      BY <2>1
    <3> QED BY <2>2, <3>1 DEF QueueInv, Numbered
  <2>5. delivered <= pushed - Len(items)
    BY DEF QueueInv, Numbered
  <2>6. \A i \in DOMAIN Underway : delivered < Underway[i].id
    <3> SUFFICES ASSUME NEW i \in 1 .. Len(batch) + Len(items)
                 PROVE  delivered < Underway[i].id
      BY <2>1
    <3>1. CASE i \in 1 .. Len(batch)
      BY <2>3, <3>1
    <3>2. CASE i \notin 1 .. Len(batch)
      <4>1. i \in Len(batch) + 1 .. Len(batch) + Len(items)
        BY <2>1, <3>2
      <4> QED BY <2>1, <2>4, <2>5, <2>t, <4>1
    <3> QED BY <3>1, <3>2
  <2>7. \A i, j \in DOMAIN Underway :
          i < j => Underway[i].id < Underway[j].id
    <3> SUFFICES ASSUME NEW i \in 1 .. Len(batch) + Len(items),
                        NEW j \in 1 .. Len(batch) + Len(items), i < j
                 PROVE  Underway[i].id < Underway[j].id
      BY <2>1
    <3>1. CASE j \in 1 .. Len(batch)
      <4>1. i \in 1 .. Len(batch)
        BY <2>1, <3>1
      <4> QED BY <2>2, <3>1, <4>1 DEF QueueInv, Numbered
    <3>2. CASE j \notin 1 .. Len(batch)
      <4>1. j \in Len(batch) + 1 .. Len(batch) + Len(items)
        BY <2>1, <3>2
      <4>2. Underway[j].id = (pushed - Len(items)) + (j - Len(batch))
        BY <2>4, <4>1
      <4>3. CASE i \in 1 .. Len(batch)
        <5>1. Underway[i] \in Entry
          BY <2>2, <2>t, <4>3
        <5>2. Underway[i].id \in Int
          BY <5>1 DEF Entry
        <5>3. Underway[i].id <= pushed - Len(items)
          BY <2>3, <4>3
        <5> QED BY <2>1, <2>t, <4>1, <4>2, <5>2, <5>3
      <4>4. CASE i \notin 1 .. Len(batch)
        <5>1. i \in Len(batch) + 1 .. Len(batch) + Len(items)
          BY <2>1, <4>4
        <5>2. Underway[i].id = (pushed - Len(items)) + (i - Len(batch))
          BY <2>4, <5>1
        <5> QED BY <2>1, <2>t, <4>2, <5>2
      <4> QED BY <4>3, <4>4
    <3> QED BY <3>1, <3>2
  <2>8. ~dropped => Len(Underway) = pushed - delivered
    BY <2>1 DEF QueueInv, Numbered
  <2> QED BY <2>6, <2>7, <2>8 DEF InOrder
<1> QED BY <1>1, QueueCorrect, PTL

(* At rest the host and the plug-in agree on value and gesture.            *)
THEOREM HostAndPluginAgree == Spec => []HostAgrees
<1>1. QueueInv => HostAgrees
  <2> SUFFICES ASSUME QueueInv, AtRest, ~dropped
               PROVE  hostValue = value /\ hostGesture = gesture
    BY DEF HostAgrees
  <2>1. items = <<>> /\ batch = <<>> /\ gui # "pushing"
    BY DEF QueueInv, QueueTypes, AtRest
  <2>2. Valueless(items, 1) /\ Valueless(batch, 1)
    BY <2>1, EmptyTyped DEF Valueless
  <2>3. hostGesture = gesture
    BY <2>1 DEF QueueInv, GesturesChained, After
  <2>4. hostValue = value
    BY <2>1, <2>2 DEF QueueInv, ValuesMeet
  <2> QED BY <2>3, <2>4
<1> QED BY <1>1, QueueCorrect, PTL

(* The host never gets an event outside its gesture, unless deactivate()   *)
(* dropped the rest of one.                                                *)
THEOREM GesturesStayBalanced == Spec => []GesturesBalanced
<1>1. QueueInv => GesturesBalanced
  BY DEF QueueInv, GesturesChained, GesturesBalanced
<1> QED BY <1>1, QueueCorrect, PTL
=============================================================================
