--------------------------- MODULE NativeViewProofs -------------------------
(***************************************************************************)
(* Theorems about the native views, for all sizes, scales, sliders, words  *)
(* of a transport and any number of blocks, commands and views: the        *)
(* transport snapshot and the tick that reads it, the hand on the sliders, *)
(* and the X11 editor with its UI thread.                                  *)
(***************************************************************************)
EXTENDS ViewTick, GuiEditor, SequenceTheorems, TLAPS
-----------------------------------------------------------------------------
(* The transport snapshot.                                                 *)

(* The writer: the counter is twice the number of published records, plus  *)
(* one while a record is being stored; what is stored is the new record in *)
(* the words written so far and the published one in the others.           *)
WriterInv ==
  /\ Storing => /\ block.number = published.number + 1
                /\ \A w \in Words : data[w] = IF w \in unwritten THEN data[w] ELSE block
  /\ ~Storing => /\ unwritten = {} /\ block = published
                 /\ \A w \in Words : data[w] = published

(* The reader: as long as the counter is still the even one it loaded      *)
(* first, nothing was written since, so its words are the record's.        *)
ReaderInv ==
  /\ before <= seq /\ after <= seq
  /\ before = seq /\ ~Storing => asked = published
  /\ rstage # "idle" /\ before = seq /\ ~Storing =>
       \A w \in Words \ unread : out[w] = asked
  /\ rstage = "deciding" => before <= after /\ unread = {}
  /\ rstage = "deciding" /\ Consistent => \A w \in Words : out[w] = asked
  /\ rstage = "idle" => \A w \in Words : out[w] = asked

SeqlockInv == TransportTypeOK /\ WriterInv /\ (InOrder => ReaderInv)

LEMMA Parity ==
  ASSUME NEW n \in Nat
  PROVE  /\ (n + 1) % 2 = 1 <=> n % 2 # 1
         /\ n % 2 = 0 <=> n % 2 # 1
BY SMT

LEMMA EffectiveIsTransport ==
  ASSUME NEW own \in Transports \cup {NoTransport},
         NEW heard \in SeqOf(Transports, 1)
  PROVE  Effective(own, heard) \in Transports \cup {NoTransport}
<1>1. PICK m \in 0..1 : heard \in [1..m -> Transports]
  BY DEF SeqOf
<1>2. CASE m = 0
  <2>1. heard = <<>>
    BY <1>1, <1>2, SMT
  <2> QED BY <2>1 DEF Effective
<1>3. CASE m = 1
  <2>1. Len(heard) = 1 /\ heard[1] \in Transports
    BY <1>1, <1>3, SMT
  <2> QED BY <2>1 DEF Effective, Last
<1> QED BY <1>2, <1>3

LEMMA SeqlockInit == TransportInit => SeqlockInv
<1> SUFFICES ASSUME TransportInit PROVE SeqlockInv
  OBVIOUS
<1>1. seq = 0 /\ before = 0 /\ after = 0 /\ ~Storing
  BY SMT DEF TransportInit, Storing
<1>2. TransportTypeOK
  BY DEF TransportInit, TransportTypeOK, Records
<1>3. WriterInv
  BY <1>1 DEF TransportInit, WriterInv
<1>4. ReaderInv
  BY <1>1 DEF TransportInit, ReaderInv
<1> QED BY <1>2, <1>3, <1>4 DEF SeqlockInv

LEMMA SeqlockStep == SeqlockInv /\ [TransportNext]_transportVars => SeqlockInv'
<1> SUFFICES ASSUME SeqlockInv, [TransportNext]_transportVars PROVE SeqlockInv'
  OBVIOUS
<1> USE InOrderAssumption, MaxBlocksAssumption
<1>T. /\ TransportTypeOK /\ WriterInv /\ (InOrder => ReaderInv)
      /\ seq \in Nat /\ before \in Nat /\ after \in Nat
  BY DEF SeqlockInv, TransportTypeOK
<1>1. ASSUME NEW own \in Transports \cup {NoTransport},
             NEW heard \in SeqOf(Transports, 1),
             StoreBegin(own, heard), UNCHANGED readerVars
      PROVE  SeqlockInv'
  <2>1. ~Storing /\ Storing' /\ seq' = seq + 1
    BY <1>1, <1>T, Parity DEF StoreBegin, Storing
  <2>2. Effective(own, heard) \in Transports \cup {NoTransport}
    BY EffectiveIsTransport
  <2>3. block' \in Records
    BY <1>1, <1>T, <2>2 DEF StoreBegin, TransportTypeOK, Records
  <2>4. TransportTypeOK'
    BY <1>1, <1>T, <2>1, <2>3 DEF StoreBegin, TransportTypeOK, readerVars
  <2>5. block'.number = published'.number + 1
    BY <1>1, <1>T, <2>1 DEF StoreBegin, WriterInv
  <2>6. WriterInv'
    BY <1>1, <2>1, <2>5 DEF StoreBegin, WriterInv
  <2>7. InOrder => ReaderInv'
    BY <1>1, <1>T, <2>1 DEF ReaderInv, readerVars, Consistent
  <2> QED BY <2>4, <2>6, <2>7 DEF SeqlockInv
<1>2. ASSUME NEW w \in Words, StoreWord(w), UNCHANGED readerVars
      PROVE  SeqlockInv'
  <2>1. Storing /\ Storing' /\ seq' = seq
    BY <1>2, <1>T DEF StoreWord, WriterInv, Storing
  <2>2. TransportTypeOK'
    BY <1>2, <1>T DEF StoreWord, TransportTypeOK, readerVars
  <2>3. WriterInv'
    BY <1>2, <1>T, <2>1 DEF StoreWord, WriterInv, TransportTypeOK
  <2>4. InOrder => ReaderInv'
    BY <1>2, <1>T, <2>1 DEF ReaderInv, readerVars, Consistent
  <2> QED BY <2>2, <2>3, <2>4 DEF SeqlockInv
<1>3. ASSUME StoreEnd, UNCHANGED readerVars
      PROVE  SeqlockInv'
  <2>1. Storing /\ ~Storing' /\ seq' = seq + 1
    BY <1>3, <1>T, Parity DEF StoreEnd, Storing
  <2>2. TransportTypeOK'
    BY <1>3, <1>T, <2>1 DEF StoreEnd, TransportTypeOK, readerVars
  <2>3. WriterInv'
    BY <1>3, <1>T, <2>1 DEF StoreEnd, WriterInv
  <2>4. InOrder => ReaderInv'
    BY <1>3, <1>T, <2>1 DEF ReaderInv, readerVars, Consistent
  <2> QED BY <2>2, <2>3, <2>4 DEF SeqlockInv
<1>W. ASSUME UNCHANGED writerVars
      PROVE  WriterInv' /\ (Storing' <=> Storing) /\ seq' = seq
  BY <1>W, <1>T DEF WriterInv, writerVars, Storing
<1>4. ASSUME LoadBefore, UNCHANGED writerVars
      PROVE  SeqlockInv'
  <2>1. TransportTypeOK'
    BY <1>4, <1>T DEF LoadBefore, TransportTypeOK, writerVars
  <2>2. InOrder => ReaderInv'
    BY <1>4, <1>T, <1>W DEF LoadBefore, ReaderInv, writerVars
  <2> QED BY <2>1, <2>2, <1>4, <1>W DEF SeqlockInv
<1>5. ASSUME NEW w \in Words, CopyWord(w), UNCHANGED writerVars
      PROVE  SeqlockInv'
  <2>1. TransportTypeOK'
    BY <1>5, <1>T DEF CopyWord, TransportTypeOK, writerVars
  <2>2. ASSUME InOrder PROVE ReaderInv'
    <3>1. rstage = "copying"
      BY <1>5, <1>T, <2>2 DEF CopyWord, ReaderInv, TransportTypeOK
    <3>2. before = seq /\ ~Storing =>
            \A v \in Words \ unread' : out'[v] = asked
      BY <1>5, <1>T, <2>2, <3>1 DEF CopyWord, ReaderInv, WriterInv, TransportTypeOK
    <3> QED BY <1>5, <1>T, <1>W, <2>2, <3>1, <3>2 DEF CopyWord, ReaderInv, writerVars
  <2> QED BY <2>1, <2>2, <1>5, <1>W DEF SeqlockInv
<1>6. ASSUME LoadAfter, UNCHANGED writerVars
      PROVE  SeqlockInv'
  <2>1. TransportTypeOK'
    BY <1>6, <1>T DEF LoadAfter, TransportTypeOK, writerVars
  <2>2. ASSUME InOrder PROVE ReaderInv'
    <3>1. unread = {} /\ rstage = "copying" /\ after' = seq
      BY <1>6, <2>2 DEF LoadAfter
    <3>2. Consistent' => before = seq /\ ~Storing
      BY <1>6, <1>T, <3>1, Parity DEF LoadAfter, Consistent, Storing
    <3>3. Consistent' => \A w \in Words : out[w] = asked
      BY <1>T, <2>2, <3>1, <3>2 DEF ReaderInv
    <3> QED BY <1>6, <1>T, <1>W, <2>2, <3>1, <3>3 DEF LoadAfter, ReaderInv, writerVars
  <2> QED BY <2>1, <2>2, <1>6, <1>W DEF SeqlockInv
<1>7. ASSUME Accept, UNCHANGED writerVars
      PROVE  SeqlockInv'
  <2>1. TransportTypeOK'
    BY <1>7, <1>T DEF Accept, TransportTypeOK, writerVars
  <2>2. InOrder => ReaderInv'
    BY <1>7, <1>T, <1>W DEF Accept, ReaderInv, writerVars
  <2> QED BY <2>1, <2>2, <1>7, <1>W DEF SeqlockInv
<1>8. ASSUME UNCHANGED transportVars
      PROVE  SeqlockInv'
  <2>1. TransportTypeOK'
    BY <1>8, <1>T DEF TransportTypeOK, transportVars, writerVars, readerVars
  <2>2. InOrder => ReaderInv'
    BY <1>8, <1>T, <1>W
    DEF ReaderInv, Consistent, transportVars, writerVars, readerVars
  <2> QED BY <2>1, <2>2, <1>8, <1>W DEF SeqlockInv, transportVars
<1> QED
  BY <1>1, <1>2, <1>3, <1>4, <1>5, <1>6, <1>7, <1>8
  DEF TransportNext, Publish, Reading, Retry

(* The counter, the record and the reader's copy agree, for all values of  *)
(* the constants.                                                          *)
THEOREM SeqlockCorrect == TransportSpec => []SeqlockInv
BY SeqlockInit, SeqlockStep, PTL DEF TransportSpec

(* guiTransport() never returns a torn record, nor one older than the one  *)
(* published when its last attempt began, for any number of words.         *)
THEOREM TransportIsUntorn == TransportSpec => []TransportUntorn
<1>1. SeqlockInv => TransportUntorn
  BY DEF SeqlockInv, ReaderInv, TransportUntorn
<1> QED BY SeqlockCorrect, <1>1, PTL
-----------------------------------------------------------------------------
(* The tick and the hand.                                                  *)

(* The tick reads the transport by the seqlock's protocol, an attempt open *)
(* exactly while it is at it.                                              *)
FeedInv == rstage = "idle" <=> tick # "transport"

LEMMA TickReadsBySeqlock ==
  FeedInv /\ [Next]_vars => FeedInv' /\ [TransportNext]_transportVars
<1> SUFFICES ASSUME FeedInv, [Next]_vars
             PROVE  FeedInv' /\ [TransportNext]_transportVars
  OBVIOUS
<1> USE DEF FeedInv, transportVars
<1>1. CASE UNCHANGED <<transportVars, tick>>
  BY <1>1 DEF readerVars
<1>2. CASE TickBegin
  BY <1>2 DEF TickBegin, AtRest, LoadBefore, TransportNext
<1>3. CASE TickTransport
  <2>1. tick' # "transport" /\ Accept /\ UNCHANGED writerVars
    BY <1>3 DEF TickTransport
  <2> QED BY <2>1 DEF Accept, TransportNext, Reading
<1>4. CASE \/ TickValues \/ TickVersion \/ TickVersionX11 \/ TickValuesX11
           \/ RedrawX11 \/ TickSnapshot
  <2>1. tick # "transport" /\ tick' # "transport" /\ UNCHANGED transportVars
    BY <1>4 DEF TickValues, TickVersion, TickVersionX11, TickValuesX11, RedrawX11,
                TickSnapshot
  <2> QED BY <2>1 DEF readerVars
<1>5. ASSUME (\E w \in Words : CopyWord(w)) \/ LoadAfter \/ Retry,
             UNCHANGED <<writerVars, screenVars>>
      PROVE  FeedInv' /\ [TransportNext]_transportVars
  <2>1. tick' = tick
    BY <1>5 DEF screenVars
  <2>2. rstage # "idle" /\ rstage' # "idle"
    BY <1>5 DEF CopyWord, LoadAfter, Retry, LoadBefore
  <2> QED BY <1>5, <2>1, <2>2 DEF TransportNext, Reading
<1>6. CASE Hand
  <2>1. tick' = tick /\ UNCHANGED transportVars
    BY <1>6 DEF Hand, HandWin32, HandMac, HandX11, ScrollWin32, EndTrackWin32,
                SliderChangedMac, MouseDownX11, MouseDragX11, MouseUpX11, HandMoves,
                screenVars
  <2> QED BY <1>1, <2>1
<1>7. CASE \/ ShowHideWin32 \/ LogLine \/ WindowGone
           \/ \E s \in Sliders, v \in Values : Automate(s, v)
  BY <1>1, <1>7 DEF ShowHideWin32, LogLine, WindowGone, Automate, screenVars
<1>8. CASE StoreTransport
  BY <1>8 DEF StoreTransport, TransportNext, readerVars, screenVars
<1>9. CASE UNCHANGED vars
  BY <1>1, <1>9 DEF vars, screenVars
<1> QED BY <1>2, <1>3, <1>4, <1>5, <1>6, <1>7, <1>8, <1>9 DEF Next, Tick

LEMMA FeedInvInit == Init => FeedInv /\ TransportInit
BY DEF Init, FeedInv, TransportInit

(* The view and the blocks, with all that comes between them, implement    *)
(* the seqlock: every step is one of its steps or leaves it alone.         *)
THEOREM TickRefinesSeqlock == Spec => TransportSpec
BY FeedInvInit, TickReadsBySeqlock, PTL DEF Spec, TransportSpec

(* The transport a view shows is one record, never a mixture of two, and   *)
(* not older than the one published when the tick began to read it.        *)
THEOREM TickShowsUntorn == Spec => []TransportUntorn
BY TickRefinesSeqlock, TransportIsUntorn, PTL

(* The gestures the host has seen begun and not ended are those the view   *)
(* is in, each of a slider under the hand or of the key that is down; on   *)
(* the views with native sliders its control is where the hand put it.     *)
HandInv ==
  /\ orderly
  /\ open = inGesture
  /\ open \subseteq Sliders /\ open \subseteq {held, key}
  /\ held \in Sliders \cup {NoSlider} /\ key \in Sliders \cup {NoSlider}
  /\ kind # "win32" => key = NoSlider
  /\ value \in [Sliders -> Values] /\ pos \in [Sliders -> Values]
  /\ handAt \in [Sliders -> Values]
  /\ tick = "redraw" => kind = "x11"
  /\ kind # "x11" => \A s \in open : pos[s] = handAt[s]

(* The ledger's verdict on each pattern of calls.                          *)
LEMMA EditOrder ==
  ASSUME orderly, NEW s, NEW v, NEW calls, Edit(s, v, calls),
         \/ calls = <<"value">> /\ s \in open
         \/ calls = <<"end">> /\ s \in open
         \/ calls = <<"value", "end">> /\ s \in open
         \/ calls = <<"begin", "value">> /\ s \notin open
         \/ calls = <<"begin", "value", "end">> /\ s \notin open
  PROVE  /\ orderly'
         /\ calls \in {<<"value">>, <<"begin", "value">>} => open' = open \cup {s}
         /\ calls \in {<<"end">>, <<"value", "end">>, <<"begin", "value", "end">>}
              => open' = open \ {s}
<1> DEFINE Fits(k) ==
      calls[k] = "begin" <=> ~(IF k = 1 THEN s \in open ELSE calls[k - 1] # "end")
<1>a. (\A k \in DOMAIN calls : Fits(k)) => orderly'
  BY DEF Edit
<1>b. open' = IF Last(calls) = "end" THEN open \ {s} ELSE open \cup {s}
  BY DEF Edit
<1>1. CASE calls = <<"value">> /\ s \in open
  <2>1. Len(calls) = 1 /\ DOMAIN calls = 1..1
        /\ calls[1] = "value"
    BY <1>1
  <2>2. Last(calls) = "value"
    BY <2>1 DEF Last
  <2>3. \A k \in 1..1 : Fits(k)
    BY <1>1, <2>1
  <2> QED BY <1>1, <1>a, <1>b, <2>1, <2>2, <2>3
<1>2. CASE calls = <<"end">> /\ s \in open
  <2>1. Len(calls) = 1 /\ DOMAIN calls = 1..1
        /\ calls[1] = "end"
    BY <1>2
  <2>2. Last(calls) = "end"
    BY <2>1 DEF Last
  <2>3. \A k \in 1..1 : Fits(k)
    BY <1>2, <2>1
  <2> QED BY <1>2, <1>a, <1>b, <2>1, <2>2, <2>3
<1>3. CASE calls = <<"value", "end">> /\ s \in open
  <2>1. Len(calls) = 2 /\ DOMAIN calls = 1..2
        /\ calls[1] = "value" /\ calls[2] = "end"
    BY <1>3
  <2>2. Last(calls) = "end"
    BY <2>1 DEF Last
  <2>3. \A k \in 1..2 : Fits(k)
    BY <1>3, <2>1
  <2> QED BY <1>3, <1>a, <1>b, <2>1, <2>2, <2>3
<1>4. CASE calls = <<"begin", "value">> /\ s \notin open
  <2>1. Len(calls) = 2 /\ DOMAIN calls = 1..2
        /\ calls[1] = "begin" /\ calls[2] = "value"
    BY <1>4
  <2>2. Last(calls) = "value"
    BY <2>1 DEF Last
  <2>3. \A k \in 1..2 : Fits(k)
    BY <1>4, <2>1
  <2> QED BY <1>4, <1>a, <1>b, <2>1, <2>2, <2>3
<1>5. CASE calls = <<"begin", "value", "end">> /\ s \notin open
  <2>1. Len(calls) = 3 /\ DOMAIN calls = 1..3
        /\ calls[1] = "begin" /\ calls[2] = "value" /\ calls[3] = "end"
    BY <1>5
  <2>2. Last(calls) = "end"
    BY <2>1 DEF Last
  <2>3. \A k \in 1..3 : Fits(k)
    BY <1>5, <2>1
  <2> QED BY <1>5, <1>a, <1>b, <2>1, <2>2, <2>3
<1> QED BY <1>1, <1>2, <1>3, <1>4, <1>5

LEMMA BeginUnlessOpen ==
  ASSUME NEW P \in BOOLEAN
  PROVE  /\ BeginUnless(P) \o <<"value">>
              = IF P THEN <<"value">> ELSE <<"begin", "value">>
         /\ BeginUnless(P) \o <<"value", "end">>
              = IF P THEN <<"value", "end">> ELSE <<"begin", "value", "end">>
<1> DEFINE Calls == {"begin", "value", "end"}
<1>s. /\ <<"begin">> \in Seq(Calls) /\ <<"value">> \in Seq(Calls)
      /\ <<"value", "end">> \in Seq(Calls) /\ <<"begin", "value">> \in Seq(Calls)
      /\ <<"begin", "value", "end">> \in Seq(Calls)
  OBVIOUS
<1> HIDE DEF Calls
<1>1. CASE P
  <2>1. BeginUnless(P) = <<>>
    BY <1>1 DEF BeginUnless
  <2>2. /\ <<>> \o <<"value">> = <<"value">>
        /\ <<>> \o <<"value", "end">> = <<"value", "end">>
    BY <1>s, ConcatEmptySeq
  <2> QED BY <1>1, <2>1, <2>2
<1>2. CASE ~P
  <2>1. BeginUnless(P) = <<"begin">>
    BY <1>2 DEF BeginUnless
  <2>2. ASSUME NEW c \in Seq(Calls)
        PROVE  /\ <<"begin">> \o c \in Seq(Calls) /\ Len(<<"begin">> \o c) = Len(c) + 1
               /\ (<<"begin">> \o c)[1] = "begin"
               /\ \A i \in 1..Len(c) : (<<"begin">> \o c)[i + 1] = c[i]
    <3>1. Len(<<"begin">>) = 1 /\ <<"begin">>[1] = "begin" /\ Len(c) \in Nat
      OBVIOUS
    <3>2. /\ <<"begin">> \o c \in Seq(Calls) /\ Len(<<"begin">> \o c) = 1 + Len(c)
          /\ \A i \in 1..1 + Len(c) :
               (<<"begin">> \o c)[i] = IF i <= 1 THEN <<"begin">>[i] ELSE c[i - 1]
      BY <1>s, <3>1, ConcatProperties
    <3> QED BY <3>1, <3>2
  <2>3. <<"begin">> \o <<"value">> = <<"begin", "value">>
    <3> DEFINE b == <<"begin">> \o <<"value">>
    <3>1. b \in Seq(Calls) /\ Len(b) = 2 /\ b[1] = "begin" /\ b[2] = "value"
      BY <1>s, <2>2
    <3> HIDE DEF b
    <3>2. \A i \in 1..Len(b) : b[i] = <<"begin", "value">>[i]
      BY <3>1
    <3>3. b = <<"begin", "value">>
      BY <1>s, <3>1, <3>2, SeqEqual
    <3> QED BY <3>3 DEF b
  <2>4. <<"begin">> \o <<"value", "end">> = <<"begin", "value", "end">>
    <3> DEFINE b == <<"begin">> \o <<"value", "end">>
    <3>1. /\ b \in Seq(Calls) /\ Len(b) = 3
          /\ b[1] = "begin" /\ b[2] = "value" /\ b[3] = "end"
      BY <1>s, <2>2
    <3> HIDE DEF b
    <3>2. \A i \in 1..Len(b) : b[i] = <<"begin", "value", "end">>[i]
      BY <3>1
    <3>3. b = <<"begin", "value", "end">>
      BY <1>s, <3>1, <3>2, SeqEqual
    <3> QED BY <3>3 DEF b
  <2> QED BY <1>2, <2>1, <2>3, <2>4
<1> QED BY <1>1, <1>2

LEMMA EditBegun ==
  ASSUME NEW s, NEW v
  PROVE  /\ Edit(s, v, BeginUnless(s \in inGesture) \o <<"value">>) =>
              Edit(s, v, IF s \in inGesture THEN <<"value">> ELSE <<"begin", "value">>)
         /\ Edit(s, v, BeginUnless(s \in inGesture) \o <<"value", "end">>) =>
              Edit(s, v, IF s \in inGesture THEN <<"value", "end">>
                         ELSE <<"begin", "value", "end">>)
<1>1. /\ BeginUnless(s \in inGesture) \o <<"value">>
           = IF s \in inGesture THEN <<"value">> ELSE <<"begin", "value">>
      /\ BeginUnless(s \in inGesture) \o <<"value", "end">>
           = IF s \in inGesture THEN <<"value", "end">> ELSE <<"begin", "value", "end">>
  BY BeginUnlessOpen, (s \in inGesture) \in BOOLEAN
<1> QED BY <1>1

LEMMA EditSets ==
  ASSUME HandInv, NEW s \in Sliders, NEW v \in Values, NEW calls, Edit(s, v, calls)
  PROVE  value' \in [Sliders -> Values]
  BY DEF HandInv, Edit

(* The hand puts its slider where it wants it and moves no other.          *)
LEMMA HandPuts ==
  ASSUME HandInv, NEW s \in Sliders, NEW v \in Values, HandMoves(s, v), UNCHANGED kind
  PROVE  /\ pos' \in [Sliders -> Values] /\ handAt' \in [Sliders -> Values]
         /\ tick' = "redraw" => kind' = "x11"
         /\ kind # "x11" => \A t \in open \cup {s} : pos'[t] = handAt'[t]
<1>1. /\ handAt' = [handAt EXCEPT ![s] = v] /\ tick' = tick
      /\ kind # "x11" => pos' = [pos EXCEPT ![s] = v]
      /\ pos' = pos \/ pos' = [pos EXCEPT ![s] = v]
  BY DEF HandMoves
<1>2. /\ pos \in [Sliders -> Values] /\ handAt \in [Sliders -> Values]
      /\ open \subseteq Sliders
      /\ kind # "x11" => \A t \in open : pos[t] = handAt[t]
      /\ tick = "redraw" => kind = "x11"
  BY DEF HandInv
<1> QED BY <1>1, <1>2

LEMMA ScrollKeeps ==
  ASSUME HandInv, NEW s \in Sliders, NEW v \in Values, ScrollWin32(s, v),
         kind = "win32", UNCHANGED kind,
         \/ held \in {NoSlider, s} /\ held' = s /\ key' = key
         \/ key \in {NoSlider, s} /\ key' = s /\ held' = held
  PROVE  HandInv'
<1>0. open = inGesture /\ Edit(s, v, BeginUnless(s \in inGesture) \o <<"value">>)
  BY DEF ScrollWin32, HandInv
<1>1. Edit(s, v, IF s \in open THEN <<"value">> ELSE <<"begin", "value">>)
  BY <1>0, EditBegun
<1>2. orderly' /\ open' = open \cup {s} /\ value' \in [Sliders -> Values]
  <2>1. CASE s \in open
    BY <1>1, <2>1, EditOrder, EditSets DEF HandInv
  <2>2. CASE s \notin open
    BY <1>1, <2>2, EditOrder, EditSets DEF HandInv
  <2> QED BY <2>1, <2>2
<1>3. HandMoves(s, v) /\ inGesture' = inGesture \cup {s}
  BY DEF ScrollWin32
<1>4. /\ pos' \in [Sliders -> Values] /\ handAt' \in [Sliders -> Values]
      /\ \A t \in open \cup {s} : pos'[t] = handAt'[t]
      /\ tick' = "redraw" => kind' = "x11"
  BY <1>3, HandPuts
<1>5. NoSlider \notin open
  BY NoSliderAssumption DEF HandInv
<1>6. /\ open' = inGesture' /\ open' \subseteq Sliders /\ open' \subseteq {held', key'}
      /\ held' \in Sliders \cup {NoSlider} /\ key' \in Sliders \cup {NoSlider}
  BY <1>2, <1>3, <1>5 DEF HandInv
<1> QED BY <1>2, <1>4, <1>6 DEF HandInv

LEMMA EndTrackKeeps ==
  ASSUME HandInv, NEW s \in Sliders, EndTrackWin32(s), kind = "win32", UNCHANGED kind,
         \/ s = held /\ held' = NoSlider /\ key' = key
         \/ s = key /\ key' = NoSlider /\ held' = held
  PROVE  HandInv'
<1>1. value[s] \in Values /\ pos[s] \in Values
  BY DEF HandInv
<1>2. orderly' /\ open' = open \ {s} /\ value' \in [Sliders -> Values]
  <2>1. CASE s \in open
    <3>1. Edit(s, value[s], <<"end">>)
      BY <2>1 DEF EndTrackWin32, HandInv
    <3> QED BY <1>1, <2>1, <3>1, EditOrder, EditSets DEF HandInv
  <2>2. CASE s \notin open
    <3>1. Edit(s, pos[s], <<"begin", "value", "end">>)
      BY <2>2 DEF EndTrackWin32, HandInv
    <3> QED BY <1>1, <2>2, <3>1, EditOrder, EditSets DEF HandInv
  <2> QED BY <2>1, <2>2
<1>3. inGesture' = inGesture \ {s} /\ UNCHANGED <<handAt, pos, tick>>
  BY DEF EndTrackWin32, screenVars
<1> QED BY <1>2, <1>3 DEF HandInv

LEMMA MacKeeps ==
  ASSUME HandInv, HandMac, UNCHANGED kind
  PROVE  HandInv'
<1>1. kind = "mac" /\ key = NoSlider /\ key' = key
  BY DEF HandMac, HandInv
<1>2. PICK s \in Sliders, v \in Values :
        \/ held \in {NoSlider, s} /\ held' = s /\ SliderChangedMac("drag", s, v)
        \/ held = s /\ held' = NoSlider /\ SliderChangedMac("up", s, v)
        \/ held = NoSlider /\ SliderChangedMac("key", s, v) /\ UNCHANGED held
  BY DEF HandMac
<1>3. open = inGesture /\ open \subseteq Sliders /\ open \subseteq {held, NoSlider}
      /\ orderly /\ NoSlider \notin open /\ held \in Sliders \cup {NoSlider}
  BY <1>1, NoSliderAssumption DEF HandInv
<1>4. CASE held \in {NoSlider, s} /\ held' = s /\ SliderChangedMac("drag", s, v)
  <2>1. /\ Edit(s, v, IF s \in open THEN <<"value">> ELSE <<"begin", "value">>)
        /\ HandMoves(s, v) /\ inGesture' = inGesture \cup {s}
    BY <1>3, <1>4, EditBegun DEF SliderChangedMac
  <2>2. orderly' /\ open' = open \cup {s} /\ value' \in [Sliders -> Values]
    <3>1. CASE s \in open
      BY <1>3, <2>1, <3>1, EditOrder, EditSets
    <3>2. CASE s \notin open
      BY <1>3, <2>1, <3>2, EditOrder, EditSets
    <3> QED BY <3>1, <3>2
  <2>3. /\ open' = inGesture' /\ open' \subseteq Sliders
        /\ open' \subseteq {held', key'}
        /\ held' \in Sliders \cup {NoSlider}
    BY <1>3, <1>4, <2>1, <2>2
  <2>4. /\ pos' \in [Sliders -> Values] /\ handAt' \in [Sliders -> Values]
        /\ tick' = "redraw" => kind' = "x11"
        /\ \A t \in open \cup {s} : pos'[t] = handAt'[t]
    BY <1>1, <2>1, HandPuts
  <2> QED BY <1>1, <2>2, <2>3, <2>4 DEF HandInv
<1>5. CASE held = s /\ held' = NoSlider /\ SliderChangedMac("up", s, v)
  <2>1. /\ Edit(s, v, IF s \in open THEN <<"value", "end">>
                      ELSE <<"begin", "value", "end">>)
        /\ HandMoves(s, v) /\ inGesture' = inGesture \ {s}
    BY <1>3, <1>5, EditBegun DEF SliderChangedMac
  <2>2. orderly' /\ open' = open \ {s} /\ value' \in [Sliders -> Values]
    <3>1. CASE s \in open
      BY <1>3, <2>1, <3>1, EditOrder, EditSets
    <3>2. CASE s \notin open
      BY <1>3, <2>1, <3>2, EditOrder, EditSets
    <3> QED BY <3>1, <3>2
  <2> QED BY <1>1, <1>3, <1>5, <2>1, <2>2, HandPuts DEF HandInv
<1>6. CASE held = NoSlider /\ SliderChangedMac("key", s, v) /\ UNCHANGED held
  <2>1. s \notin open
    BY <1>3, <1>6, NoSliderAssumption
  <2>2. /\ Edit(s, v, <<"begin", "value", "end">>)
        /\ HandMoves(s, v) /\ inGesture' = inGesture
    BY <1>6 DEF SliderChangedMac
  <2>3. orderly' /\ open' = open \ {s} /\ value' \in [Sliders -> Values]
    BY <1>3, <2>1, <2>2, EditOrder, EditSets
  <2>4. /\ open' = inGesture' /\ open' \subseteq Sliders
        /\ open' \subseteq {held', key'}
        /\ held' \in Sliders \cup {NoSlider}
    BY <1>3, <1>6, <2>1, <2>2, <2>3
  <2>5. /\ pos' \in [Sliders -> Values] /\ handAt' \in [Sliders -> Values]
        /\ tick' = "redraw" => kind' = "x11"
        /\ \A t \in open \cup {s} : pos'[t] = handAt'[t]
    BY <1>1, <2>2, HandPuts
  <2> QED BY <1>1, <2>3, <2>4, <2>5 DEF HandInv
<1> QED BY <1>2, <1>4, <1>5, <1>6

LEMMA X11Keeps ==
  ASSUME HandInv, HandX11, UNCHANGED kind
  PROVE  HandInv'
<1>1. kind = "x11" /\ key = NoSlider /\ key' = key
  BY DEF HandX11, HandInv
<1>2. PICK s \in Sliders, v \in Values :
        \/ held = NoSlider /\ held' = s /\ MouseDownX11(s, v)
        \/ held = s /\ MouseDragX11(s, v) /\ UNCHANGED held
        \/ held = s /\ held' = NoSlider /\ MouseUpX11(s, v)
  BY DEF HandX11
<1>3. open = inGesture /\ open \subseteq Sliders /\ open \subseteq {held, NoSlider}
      /\ orderly /\ NoSlider \notin open /\ held \in Sliders \cup {NoSlider}
  BY <1>1, NoSliderAssumption DEF HandInv
<1>4. CASE held = NoSlider /\ held' = s /\ MouseDownX11(s, v)
  <2>1. open = {} /\ s \notin open
    BY <1>3, <1>4
  <2>2. Edit(s, v, <<"begin", "value">>) /\ HandMoves(s, v) /\ inGesture' = {s}
    BY <1>4 DEF MouseDownX11
  <2>3. orderly' /\ open' = open \cup {s} /\ value' \in [Sliders -> Values]
    BY <1>3, <2>1, <2>2, EditOrder, EditSets
  <2> QED BY <1>1, <1>3, <1>4, <2>1, <2>2, <2>3, HandPuts DEF HandInv
<1>5. CASE held = s /\ MouseDragX11(s, v) /\ UNCHANGED held
  <2>1. Edit(s, v, <<"value">>) /\ HandMoves(s, v) /\ UNCHANGED inGesture /\ s \in open
    BY <1>3, <1>5 DEF MouseDragX11
  <2>2. orderly' /\ open' = open \cup {s} /\ value' \in [Sliders -> Values]
    BY <1>3, <2>1, EditOrder, EditSets
  <2> QED BY <1>1, <1>3, <1>5, <2>1, <2>2, HandPuts DEF HandInv
<1>6. CASE held = s /\ held' = NoSlider /\ MouseUpX11(s, v)
  <2>1. /\ Edit(s, v, <<"value", "end">>) /\ HandMoves(s, v)
        /\ inGesture' = {} /\ s \in open
    BY <1>3, <1>6 DEF MouseUpX11
  <2>2. orderly' /\ open' = open \ {s} /\ value' \in [Sliders -> Values]
    BY <1>3, <2>1, EditOrder, EditSets
  <2> QED BY <1>1, <1>3, <1>6, <2>1, <2>2, HandPuts DEF HandInv
<1> QED BY <1>2, <1>4, <1>5, <1>6

LEMMA HandInvInit == Init => HandInv
<1> SUFFICES ASSUME Init PROVE HandInv
  OBVIOUS
<1>1. /\ value \in [Sliders -> Values] /\ pos = value /\ handAt = value
  BY DEF Init
<1> QED BY <1>1 DEF Init, HandInv

LEMMA HandInvStep == HandInv /\ [Next]_vars => HandInv'
<1> SUFFICES ASSUME HandInv, [Next]_vars PROVE HandInv'
  OBVIOUS
<1>1. ASSUME UNCHANGED <<value, handVars, kind, pos>>,
             tick' = "redraw" => tick = "redraw" \/ kind = "x11"
      PROVE  HandInv'
  BY <1>1 DEF handVars, HandInv
<1>2. CASE Hand
  <2>1. UNCHANGED kind
    BY <1>2 DEF Hand, windowVars
  <2>2. ASSUME HandWin32  PROVE HandInv'
    <3>1. kind = "win32"
      BY <2>2 DEF HandWin32
    <3>2. ASSUME held # NoSlider, EndTrackWin32(held), held' = NoSlider, UNCHANGED key
          PROVE  HandInv'
      <4>1. held \in Sliders
        BY <3>2 DEF HandInv
      <4> QED BY <2>1, <3>1, <3>2, <4>1, EndTrackKeeps
    <3>3. ASSUME key # NoSlider, EndTrackWin32(key), key' = NoSlider, UNCHANGED held
          PROVE  HandInv'
      <4>1. key \in Sliders
        BY <3>3 DEF HandInv
      <4> QED BY <2>1, <3>1, <3>3, <4>1, EndTrackKeeps
    <3>4. ASSUME NEW s \in Sliders, NEW v \in Values, ScrollWin32(s, v),
                 \/ held \in {NoSlider, s} /\ held' = s /\ key' = key
                 \/ key \in {NoSlider, s} /\ key' = s /\ held' = held
          PROVE  HandInv'
      BY <2>1, <3>1, <3>4, ScrollKeeps
    <3> QED BY <2>2, <3>2, <3>3, <3>4 DEF HandWin32
  <2> QED BY <1>2, <2>1, <2>2, MacKeeps, X11Keeps DEF Hand
<1>3. CASE TickValues
  <2>1. /\ pos' = [s \in Sliders |-> IF s \in inGesture THEN pos[s] ELSE value[s]]
        /\ UNCHANGED <<value, held, handAt, key, inGesture, open, orderly, kind>>
        /\ tick' = "version"
    BY <1>3 DEF TickValues, feedVars, handVars, windowVars
  <2>2. pos' \in [Sliders -> Values] /\ \A s \in open : pos'[s] = pos[s]
    BY <2>1 DEF HandInv
  <2> QED BY <2>1, <2>2 DEF HandInv
<1>4. CASE RedrawX11
  <2>1. kind = "x11"
    BY <1>4 DEF RedrawX11, HandInv
  <2> QED BY <1>4, <2>1 DEF RedrawX11, HandInv, feedVars, handVars, windowVars
<1>5. CASE \/ TickBegin \/ TickTransport \/ TickVersion \/ TickVersionX11
           \/ TickValuesX11 \/ TickSnapshot
  BY <1>1, <1>5 DEF TickBegin, TickTransport, TickVersion, TickVersionX11,
                    TickValuesX11, TickSnapshot, feedVars, windowVars
<1>6. CASE UNCHANGED <<feedVars, handVars, screenVars, windowVars>>
  BY <1>1, <1>6 DEF feedVars, screenVars, windowVars
<1>7. CASE ShowHideWin32 \/ LogLine \/ WindowGone
  BY <1>1, <1>7 DEF ShowHideWin32, LogLine, WindowGone, feedVars, screenVars,
                    windowVars
<1>8. ASSUME NEW s \in Sliders, NEW v \in Values, Automate(s, v)
      PROVE  HandInv'
  BY <1>8 DEF Automate, HandInv, handVars, screenVars, windowVars
<1> QED
  BY <1>2, <1>3, <1>4, <1>5, <1>6, <1>7, <1>8
     DEF Next, Tick, StoreTransport, vars

(* On every platform the host sees each gesture begun once, its values     *)
(* inside, and ended once, and none left when the hands are off the view.  *)
THEOREM GesturesStayOrderly == Spec => []GesturesOrderly
<1>1. HandInv => GesturesOrderly
  BY NoSliderAssumption DEF HandInv, GesturesOrderly
<1> QED BY <1>1, HandInvInit, HandInvStep, PTL DEF Spec

(* A control in touch stays where the hand put it, whatever automation or  *)
(* tick comes in between.                                                  *)
THEOREM SliderStaysInHand == Spec => []SliderInHand
<1>1. HandInv => SliderInHand
  BY DEF HandInv, SliderInHand
<1> QED BY <1>1, HandInvInit, HandInvStep, PTL DEF Spec
-----------------------------------------------------------------------------
(* The editor: the checks, the view and its thread.                        *)

(* The thread lives from attach() to the join, in a view that is there,    *)
(* and the main thread is in the middle of a call only while it lives.     *)
ThreadInv ==
  /\ joinable <=> ui # "none"
  /\ joinable => view
  /\ ~MainIdle => joinable

(* Only what may change the thread's life can change this.                 *)
EditorInv == GuiJudgedRightly /\ ThreadInv

LEMMA JudgedAlike ==
  ASSUME GuiJudgedRightly, NEW need \in {"created", "embedded", "floating"}
  PROVE  Refusal(need) = Offence(need)
  BY DEF GuiJudgedRightly, Refusal, Offence, When

LEMMA JudgeCounts ==
  ASSUME counters = due, NEW S, Judge(S, S)
  PROVE  counters' = due'
  BY DEF Judge

LEMMA EditorInvInit == EditorInit => EditorInv
<1> SUFFICES ASSUME EditorInit PROVE EditorInv
  OBVIOUS
<1>1. GuiJudgedRightly
  BY DEF EditorInit, GuiJudgedRightly
<1>2. main.at = "idle"
  BY DEF EditorInit, Idle
<1>3. ThreadInv
  BY <1>2 DEF EditorInit, ThreadInv, MainIdle
<1> QED BY <1>1, <1>3 DEF EditorInv

(* The calls of the host.                                                  *)
LEMMA CreateKeeps ==
  ASSUME EditorInv, NEW floating \in BOOLEAN, NEW supported \in BOOLEAN,
         SCreate(floating, supported)
  PROVE  EditorInv'
<1>1. counters' = due'
  BY JudgeCounts DEF EditorInv, GuiJudgedRightly, SCreate
<1> QED
  BY <1>1 DEF EditorInv, GuiJudgedRightly, ThreadInv, SCreate, MainIdle,
              monitor, ledger, uiVars

LEMMA DestroyKeeps ==
  ASSUME EditorInv, SDestroy
  PROVE  EditorInv'
<1>1. counters' = due'
  BY JudgeCounts DEF EditorInv, GuiJudgedRightly, SDestroy
<1>2. CASE view /\ joinable
  BY <1>1, <1>2 DEF EditorInv, GuiJudgedRightly, ThreadInv, SDestroy, MainIdle,
                    monitor, ledger, uiVars
<1>3. CASE ~(view /\ joinable)
  <2>1. Gone
    BY <1>3 DEF SDestroy
  <2> QED
    BY <1>1, <2>1 DEF EditorInv, GuiJudgedRightly, ThreadInv, MainIdle, Gone, Idle
<1> QED BY <1>2, <1>3

LEMMA CallKeeps ==
  ASSUME EditorInv, NEW need \in {"created", "embedded", "floating"},
         Checked(need),
         UNCHANGED <<guiCreated, guiFloating, view, opened>>,
         \/ UNCHANGED <<joinable, ui, main>>
         \/ /\ view /\ joinable' = TRUE /\ ui' # "none"
  PROVE  EditorInv'
<1>1. counters' = due'
  BY JudgeCounts, JudgedAlike DEF EditorInv, GuiJudgedRightly, Checked
<1> QED BY <1>1 DEF EditorInv, GuiJudgedRightly, ThreadInv, MainIdle

(* The other steps judge nothing and leave the monitor's state alone.      *)
LEMMA JoinKeeps ==
  ASSUME EditorInv, Join
  PROVE  EditorInv'
<1>1. Gone /\ counters' = counters /\ due' = due
  BY DEF Join, judging
<1> QED
  BY <1>1 DEF EditorInv, GuiJudgedRightly, ThreadInv, MainIdle, Gone, Idle

LEMMA ThreadStepKeeps ==
  ASSUME EditorInv,
         UNCHANGED <<guiCreated, guiFloating, view, opened, counters, due,
                     joinable>>,
         ui' = ui \/ (ui # "none" /\ ui' # "none"),
         MainIdle' \/ ~MainIdle
  PROVE  EditorInv'
  BY DEF EditorInv, GuiJudgedRightly, ThreadInv, MainIdle

LEMMA EditorInvStep == EditorInv /\ [EditorNext]_editorVars => EditorInv'
<1> SUFFICES ASSUME EditorInv, [EditorNext]_editorVars PROVE EditorInv'
  OBVIOUS
<1> USE DEF monitor, ledger, uiVars, channel
<1>1. ASSUME NEW floating \in BOOLEAN, NEW supported \in BOOLEAN,
             SCreate(floating, supported)
      PROVE  EditorInv'
  BY <1>1, CreateKeeps
<1>2. CASE SDestroy
  BY <1>2, DestroyKeeps
<1>3. CASE SShowHide
  <2>1. Checked("created") /\ UNCHANGED <<guiCreated, guiFloating, view, opened,
                                          joinable, ui>>
    BY <1>3 DEF SShowHide
  <2>2. UNCHANGED main \/ (view /\ joinable)
    BY <1>3 DEF SShowHide
  <2> QED BY <2>1, <2>2, CallKeeps DEF EditorInv, ThreadInv
<1>4. ASSUME NEW s \in Scales, SSetScale(s)  PROVE EditorInv'
  BY <1>4, CallKeeps DEF SSetScale
<1>5. ASSUME NEW ok \in BOOLEAN, SSetParent(ok)  PROVE EditorInv'
  <2>1. Checked("embedded") /\ UNCHANGED <<guiCreated, guiFloating, view, opened,
                                           main>>
    BY <1>5 DEF SSetParent
  <2>2. \/ UNCHANGED <<joinable, ui>>
        \/ /\ view /\ joinable' = TRUE /\ ui' = "opening"
    BY <1>5 DEF SSetParent
  <2> QED BY <2>1, <2>2, CallKeeps
<1>6. ASSUME NEW w \in Sizes, SSetSize(w)  PROVE EditorInv'
  <2>1. Checked("embedded") /\ UNCHANGED <<guiCreated, guiFloating, view, opened,
                                           joinable, ui>>
    BY <1>6 DEF SSetSize
  <2>2. UNCHANGED main \/ (view /\ joinable)
    BY <1>6 DEF SSetSize
  <2> QED BY <2>1, <2>2, CallKeeps DEF EditorInv, ThreadInv
<1>7. ASSUME NEW need \in {"created", "embedded", "floating"}, SInspect(need)
      PROVE  EditorInv'
  BY <1>7, CallKeeps DEF SInspect
<1>8. CASE Join
  BY <1>8, JoinKeeps
<1>9. CASE PushCommand \/ WriteByte
  BY <1>9, ThreadStepKeeps DEF PushCommand, WriteByte, MainIdle, Idle, judging
<1>10. CASE UiStep \/ HostDestroysParent
  BY <1>10, ThreadStepKeeps
     DEF UiStep, UiOpen, UiSelect, UiRead, UiSwap, UiExecute, UiEvent,
         UiEventsDone, HostDestroysParent, outside, judging, MainIdle
<1>11. CASE UNCHANGED editorVars
  BY <1>11, ThreadStepKeeps DEF editorVars, judging, MainIdle
<1> QED
  BY <1>1, <1>2, <1>3, <1>4, <1>5, <1>6, <1>7, <1>8, <1>9, <1>10, <1>11
     DEF EditorNext, MainStep

(* In any order of the host's gui calls each violation of G01 to G04 is    *)
(* counted and nothing else is: monitor, flavor and host agree on the gui. *)
THEOREM GuiIsJudgedRightly == EditorSpec => []GuiJudgedRightly
<1>1. EditorInv => GuiJudgedRightly
  BY DEF EditorInv
<1> QED BY <1>1, EditorInvInit, EditorInvStep, PTL DEF EditorSpec

(* The UI thread never runs without its view and its pipe.                 *)
THEOREM ViewOutlivesItsThread == EditorSpec => []ViewOutlivesThread
<1>1. EditorInv => ViewOutlivesThread
  BY DEF EditorInv, ThreadInv, ViewOutlivesThread
<1> QED BY <1>1, EditorInvInit, EditorInvStep, PTL DEF EditorSpec
-----------------------------------------------------------------------------
(* Types.                                                                  *)

CommandRecord == [kind : {"resize", "map", "quit"}, size : Nat, id : Nat \ {0}]
Call == [at : Stage, kind : {"resize", "map", "quit"}, size : Nat]

LEMMA JudgeType ==
  ASSUME TypeOK, NEW S, NEW charged, Judge(S, charged)
  PROVE  counters' \in [Code -> Nat] /\ due' \in [Code -> Nat]
  BY DEF TypeOK, Judge

LEMMA Product ==
  ASSUME NEW m \in Nat, NEW n \in Nat
  PROVE  m * n \in Nat
  OBVIOUS

LEMMA IdleType == Idle \in Call /\ <<>> \in Commands
  BY DEF Idle, Call, Stage, Commands

LEMMA EditorTypeInit == EditorInit => TypeOK
<1> SUFFICES ASSUME EditorInit PROVE TypeOK
  OBVIOUS
<1>1. counters \in [Code -> Nat] /\ due \in [Code -> Nat]
  BY DEF EditorInit
<1>2. main \in Call /\ commands \in Commands /\ taken \in Commands
  BY IdleType DEF EditorInit
<1>3. events \in Seq(Nat) /\ scale \in Nat \ {0}
  BY DEF EditorInit
<1>4. /\ size \in Nat /\ window \in Nat /\ wanted \in Nat /\ pipe \in Nat
      /\ issued \in Nat /\ done \in Nat
  BY DEF EditorInit
<1> QED BY <1>1, <1>2, <1>3, <1>4 DEF EditorInit, TypeOK, Call

LEMMA GoneType ==
  ASSUME TypeOK, Gone, counters' \in [Code -> Nat], due' \in [Code -> Nat],
         scale' = scale
  PROVE  TypeOK'
<1>1. main' \in Call /\ commands' \in Commands /\ taken' \in Commands
  BY IdleType DEF Gone
<1>2. scale' \in Nat \ {0}
  BY DEF TypeOK
<1>3. events' \in Seq(Nat)
  BY DEF Gone
<1>4. /\ size' \in Nat /\ window' \in Nat /\ wanted' \in Nat /\ pipe' \in Nat
      /\ issued' \in Nat /\ done' \in Nat
  BY DEF Gone
<1> QED BY <1>1, <1>2, <1>3, <1>4 DEF Gone, TypeOK, Call

LEMMA CreateType ==
  ASSUME TypeOK, NEW floating \in BOOLEAN, NEW supported \in BOOLEAN,
         SCreate(floating, supported)
  PROVE  TypeOK'
<1>1. DefaultSize * scale \in Nat
  BY Product, EditorAssumption DEF TypeOK
<1>2. size' \in Nat /\ wanted' \in Nat /\ view' \in BOOLEAN
      /\ guiCreated' \in BOOLEAN /\ guiFloating' \in BOOLEAN /\ opened' \in BOOLEAN
  BY <1>1 DEF SCreate, TypeOK, monitor, ledger
<1>3. counters' \in [Code -> Nat] /\ due' \in [Code -> Nat]
  BY JudgeType DEF SCreate
<1> QED BY <1>2, <1>3 DEF SCreate, TypeOK, channel, uiVars

LEMMA DestroyType ==
  ASSUME TypeOK, SDestroy
  PROVE  TypeOK'
<1>1. counters' \in [Code -> Nat] /\ due' \in [Code -> Nat]
  BY JudgeType DEF SDestroy
<1>2. CASE Gone
  BY <1>1, <1>2, GoneType DEF SDestroy
<1>3. CASE /\ main' = [at |-> "push", kind |-> "quit", size |-> 0]
           /\ UNCHANGED <<view, joinable, size, channel, uiVars, monitor, ledger>>
  <2>1. main' \in Call
    BY <1>3 DEF Call, Stage
  <2> QED
    BY <1>1, <1>3, <2>1 DEF SDestroy, TypeOK, Call, channel, uiVars, monitor, ledger
<1> QED BY <1>2, <1>3 DEF SDestroy

LEMMA SetScaleType ==
  ASSUME TypeOK, NEW s \in Scales, SSetScale(s)
  PROVE  TypeOK'
<1>1. scale' \in Nat \ {0}
  BY EditorAssumption DEF SSetScale, TypeOK
<1>2. DefaultSize * scale' \in Nat
  BY <1>1, Product, EditorAssumption
<1>3. size' \in Nat /\ wanted' \in Nat /\ opened' = opened
  BY <1>2 DEF SSetScale, TypeOK
<1>4. counters' \in [Code -> Nat] /\ due' \in [Code -> Nat]
  BY JudgeType DEF SSetScale, Checked
<1> QED BY <1>1, <1>3, <1>4 DEF SSetScale, TypeOK, channel, uiVars, monitor

LEMMA SetParentType ==
  ASSUME TypeOK, NEW ok \in BOOLEAN, SSetParent(ok)
  PROVE  TypeOK'
<1>1. counters' \in [Code -> Nat] /\ due' \in [Code -> Nat]
  BY JudgeType DEF SSetParent, Checked
<1>2. /\ joinable' \in BOOLEAN
      /\ ui' \in {"none", "opening", "select", "read", "swap", "execute",
                  "events", "ended"}
  BY DEF SSetParent, TypeOK
<1> QED BY <1>1, <1>2 DEF SSetParent, TypeOK, channel, monitor, ledger

(* The size setSize() stores.                                              *)
LEMMA ClampedSize ==
  ASSUME TypeOK, NEW w \in Sizes
  PROVE  Max2(w, MinSize * scale) \in Nat \ {0}
<1>1. MinSize * scale \in Nat \ {0}
  BY EditorAssumption DEF TypeOK
<1> QED BY <1>1, EditorAssumption DEF Max2

LEMMA SetSizeType ==
  ASSUME TypeOK, NEW w \in Sizes, SSetSize(w)
  PROVE  TypeOK'
<1>1. counters' \in [Code -> Nat] /\ due' \in [Code -> Nat]
  BY JudgeType DEF SSetSize, Checked
<1>2. size' \in Nat /\ wanted' \in Nat
  BY ClampedSize DEF SSetSize, TypeOK
<1>3. main' \in Call
  BY <1>2 DEF SSetSize, TypeOK, Call, Stage
<1> QED BY <1>1, <1>2, <1>3 DEF SSetSize, TypeOK, Call, channel, uiVars, monitor

LEMMA ShowHideType ==
  ASSUME TypeOK, SShowHide
  PROVE  TypeOK'
<1>1. counters' \in [Code -> Nat] /\ due' \in [Code -> Nat]
  BY JudgeType DEF SShowHide, Checked
<1>2. main' \in Call
  BY DEF SShowHide, TypeOK, Call, Stage
<1> QED BY <1>1, <1>2 DEF SShowHide, TypeOK, Call, channel, uiVars, monitor, ledger

LEMMA InspectType ==
  ASSUME TypeOK, NEW need, SInspect(need)
  PROVE  TypeOK'
<1>1. counters' \in [Code -> Nat] /\ due' \in [Code -> Nat]
  BY JudgeType DEF SInspect, Checked
<1> QED BY <1>1 DEF SInspect, TypeOK, channel, uiVars, monitor, ledger

LEMMA PushType ==
  ASSUME TypeOK, PushCommand \/ WriteByte \/ Join
  PROVE  TypeOK'
<1> USE DEF channel, uiVars, monitor, ledger, judging
<1>1. CASE PushCommand
  <2>1. Command(main.kind, main.size) \in CommandRecord
    BY DEF TypeOK, Command, CommandRecord
  <2>2. commands' \in Commands
    BY <1>1, <2>1 DEF PushCommand, Pushed, TypeOK, Commands, CommandRecord
  <2>3. main' \in Call
    BY <1>1 DEF PushCommand, TypeOK, Call, Stage
  <2> QED BY <1>1, <2>2, <2>3 DEF PushCommand, TypeOK, Call
<1>2. CASE WriteByte
  <2>1. main' \in Call
    BY <1>2 DEF WriteByte, TypeOK, Call, Stage, Idle
  <2> QED BY <1>2, <2>1 DEF WriteByte, TypeOK, Call
<1>3. CASE Join
  BY <1>3, GoneType DEF Join, TypeOK
<1> QED BY <1>1, <1>2, <1>3

LEMMA UiStepType ==
  ASSUME TypeOK, UiStep \/ HostDestroysParent
  PROVE  TypeOK'
<1> USE DEF outside, monitor, ledger, judging
<1>1. ASSUME NEW ok \in BOOLEAN, UiOpen(ok)  PROVE TypeOK'
  BY <1>1 DEF UiOpen, TypeOK
<1>2. CASE UiSelect
  BY <1>2 DEF UiSelect, TypeOK
<1>3. CASE UiRead
  BY <1>3, EditorAssumption DEF UiRead, TypeOK
<1>4. CASE UiSwap
  BY <1>4 DEF UiSwap, TypeOK, Commands
<1>5. CASE UiExecute
  <2>0. taken \in Seq(CommandRecord) /\ taken # <<>> /\ taken' = Tail(taken)
    BY <1>5 DEF UiExecute, TypeOK, Commands, CommandRecord
  <2>1. Head(taken) \in CommandRecord /\ taken' \in Seq(CommandRecord)
    BY <2>0, HeadTailProperties
  <2>a. taken' \in Commands
    BY <2>1 DEF Commands, CommandRecord
  <2>2. Head(taken).size \in Nat
    BY <2>1 DEF CommandRecord
  <2>b. events \in Seq(Nat) /\ Append(events, Head(taken).size) \in Seq(Nat)
    BY <2>2 DEF TypeOK
  <2>c. /\ window' \in {window, Head(taken).size}
        /\ events' \in {events, Append(events, Head(taken).size)}
    BY <1>5 DEF UiExecute
  <2>3. window' \in Nat /\ events' \in Seq(Nat)
    BY <2>2, <2>b, <2>c DEF TypeOK
  <2>4. done' \in Nat /\ ui' \in {"execute", "events", "ended"}
    BY <1>5 DEF UiExecute, TypeOK
  <2> QED BY <1>5, <2>a, <2>3, <2>4 DEF UiExecute, TypeOK
<1>6. CASE UiEvent
  <2>1. Head(events) \in Nat /\ Tail(events) \in Seq(Nat)
    BY <1>6 DEF UiEvent, TypeOK
  <2> QED BY <1>6, <2>1 DEF UiEvent, TypeOK
<1>7. CASE UiEventsDone
  BY <1>7 DEF UiEventsDone, TypeOK
<1>8. CASE HostDestroysParent
  <2>1. events' \in Seq(Nat)
    BY <1>8 DEF HostDestroysParent, TypeOK, Destroyed
  <2> QED BY <1>8, <2>1 DEF HostDestroysParent, TypeOK
<1> QED BY <1>1, <1>2, <1>3, <1>4, <1>5, <1>6, <1>7, <1>8 DEF UiStep

LEMMA EditorTypeStep == TypeOK /\ [EditorNext]_editorVars => TypeOK'
<1> SUFFICES ASSUME TypeOK, [EditorNext]_editorVars PROVE TypeOK'
  OBVIOUS
<1>1. CASE UNCHANGED editorVars
  BY <1>1 DEF editorVars, channel, uiVars, monitor, ledger, judging, TypeOK
<1> QED
  BY <1>1, CreateType, DestroyType, ShowHideType, SetScaleType, SetParentType,
     SetSizeType, InspectType, PushType, UiStepType DEF EditorNext, MainStep

(* Type correctness of the editor, for any sizes, scales and bounds.       *)
THEOREM EditorTypeCorrect == EditorSpec => []TypeOK
  BY EditorTypeInit, EditorTypeStep, PTL DEF EditorSpec
-----------------------------------------------------------------------------
(* The commands between the threads.                                       *)

(* What is left of two queues when the second grows, ...                   *)
LEMMA GrownQueue ==
  ASSUME NEW S, NEW t \in Seq(S), NEW q \in Seq(S), NEW c \in S
  PROVE  /\ Len(t \o Append(q, c)) = Len(t \o q) + 1
         /\ \A i \in 1..Len(t \o q) : (t \o Append(q, c))[i] = (t \o q)[i]
         /\ (t \o Append(q, c))[Len(t \o q) + 1] = c
<1>1. /\ Append(q, c) \in Seq(S) /\ Len(Append(q, c)) = Len(q) + 1
      /\ \A i \in 1..Len(q) : Append(q, c)[i] = q[i]
      /\ Append(q, c)[Len(q) + 1] = c
  BY AppendProperties
<1>2. /\ Len(t \o q) = Len(t) + Len(q)
      /\ \A i \in 1..Len(t) + Len(q) :
           (t \o q)[i] = IF i <= Len(t) THEN t[i] ELSE q[i - Len(t)]
  BY ConcatProperties
<1>3. /\ Len(t \o Append(q, c)) = Len(t) + Len(q) + 1
      /\ \A i \in 1..Len(t) + Len(q) + 1 :
           (t \o Append(q, c))[i] = IF i <= Len(t) THEN t[i]
                                    ELSE Append(q, c)[i - Len(t)]
  <2>1. /\ Len(t \o Append(q, c)) = Len(t) + Len(Append(q, c))
        /\ \A i \in 1..Len(t) + Len(Append(q, c)) :
             (t \o Append(q, c))[i] = IF i <= Len(t) THEN t[i]
                                      ELSE Append(q, c)[i - Len(t)]
    BY <1>1, ConcatProperties
  <2>2. Len(t) + Len(Append(q, c)) = Len(t) + Len(q) + 1
    BY <1>1
  <2> QED BY <2>1, <2>2
<1>4. Len(t) \in Nat /\ Len(q) \in Nat
  OBVIOUS
<1>5. ASSUME NEW i \in 1..Len(t \o q)
      PROVE  (t \o Append(q, c))[i] = (t \o q)[i]
  <2>1. CASE i <= Len(t)
    BY <1>2, <1>3, <1>4, <2>1
  <2>2. CASE ~(i <= Len(t))
    <3>1. i - Len(t) \in 1..Len(q) /\ i \in 1..Len(t) + Len(q) + 1
      BY <1>2, <1>4, <2>2
    <3> QED BY <1>1, <1>2, <1>3, <2>2, <3>1
  <2> QED BY <2>1, <2>2
<1>6. (t \o Append(q, c))[Len(t) + Len(q) + 1] = c
  <2>1. /\ Len(t) + Len(q) + 1 \in 1..Len(t) + Len(q) + 1
        /\ ~(Len(t) + Len(q) + 1 <= Len(t))
        /\ Len(t) + Len(q) + 1 - Len(t) = Len(q) + 1
    BY <1>4
  <2> QED BY <1>1, <1>3, <2>1
<1> QED BY <1>2, <1>3, <1>5, <1>6

(* ... and when the first loses its head.                                  *)
LEMMA ShrunkQueue ==
  ASSUME NEW S, NEW t \in Seq(S), NEW q \in Seq(S), t # <<>>
  PROVE  /\ Len(t \o q) = Len(Tail(t) \o q) + 1
         /\ (t \o q)[1] = Head(t)
         /\ \A i \in 1..Len(Tail(t) \o q) : (Tail(t) \o q)[i] = (t \o q)[i + 1]
<1>1. /\ Tail(t) \in Seq(S) /\ Len(Tail(t)) = Len(t) - 1
      /\ \A i \in 1..Len(Tail(t)) : Tail(t)[i] = t[i + 1]
  BY HeadTailProperties
<1>2. /\ Len(t \o q) = Len(t) + Len(q)
      /\ \A i \in 1..Len(t) + Len(q) :
           (t \o q)[i] = IF i <= Len(t) THEN t[i] ELSE q[i - Len(t)]
  BY ConcatProperties
<1>3. /\ Len(Tail(t) \o q) = Len(Tail(t)) + Len(q)
      /\ \A i \in 1..Len(Tail(t)) + Len(q) :
           (Tail(t) \o q)[i] = IF i <= Len(Tail(t)) THEN Tail(t)[i]
                               ELSE q[i - Len(Tail(t))]
  BY <1>1, ConcatProperties
<1>4. Len(t) \in Nat \ {0} /\ Len(q) \in Nat /\ Head(t) = t[1]
  OBVIOUS
<1>5. ASSUME NEW i \in 1..Len(Tail(t) \o q)
      PROVE  (Tail(t) \o q)[i] = (t \o q)[i + 1]
  <2>1. i \in 1..Len(Tail(t)) + Len(q) /\ i + 1 \in 1..Len(t) + Len(q)
    BY <1>1, <1>3, <1>4
  <2>2. CASE i <= Len(t) - 1
    <3>1. i + 1 <= Len(t) /\ i \in 1..Len(Tail(t))
      BY <1>1, <1>4, <2>1, <2>2
    <3> QED BY <1>1, <1>2, <1>3, <2>1, <2>2, <3>1
  <2>3. CASE ~(i <= Len(t) - 1)
    <3>1. ~(i + 1 <= Len(t)) /\ i + 1 - Len(t) = i - Len(Tail(t))
      BY <1>1, <1>4, <2>1, <2>3
    <3> QED BY <1>1, <1>2, <1>3, <2>1, <2>3, <3>1
  <2> QED BY <2>2, <2>3
<1>6. (t \o q)[1] = t[1]
  <2>1. 1 \in 1..Len(t) + Len(q) /\ 1 <= Len(t)
    BY <1>4
  <2> QED BY <1>2, <2>1
<1> QED BY <1>1, <1>2, <1>3, <1>4, <1>5, <1>6

(* The UI thread holds commands of its own only while it executes them;    *)
(* an empty queue before the thread has started.                           *)
OrderInv ==
  /\ taken # <<>> /\ ui # "ended" => ui = "execute"
  /\ ui = "none" => commands = <<>>
  /\ CommandsInOrder

LEMMA WaitingType ==
  ASSUME TypeOK
  PROVE  /\ taken \in Seq(CommandRecord) /\ commands \in Seq(CommandRecord)
         /\ Waiting \in Seq(CommandRecord)
<1>1. taken \in Seq(CommandRecord) /\ commands \in Seq(CommandRecord)
  BY DEF TypeOK, Commands, CommandRecord
<1> QED BY <1>1, ConcatProperties DEF Waiting

LEMMA OrderInvInit == EditorInit => OrderInv
<1> SUFFICES ASSUME EditorInit PROVE OrderInv
  OBVIOUS
<1>1. taken = <<>> /\ commands = <<>> /\ issued = 0 /\ done = 0 /\ ui = "none"
  BY DEF EditorInit
<1>2. Waiting = <<>>
  BY <1>1, ConcatEmptySeq DEF Waiting
<1>3. CommandsInOrder
  BY <1>1, <1>2 DEF CommandsInOrder
<1> QED BY <1>1, <1>3 DEF OrderInv

(* Pushing puts the command last, ...                                      *)
LEMMA PushGrows ==
  ASSUME TypeOK, PushCommand
  PROVE  /\ Len(Waiting') = Len(Waiting) + 1
         /\ \A i \in 1..Len(Waiting) : Waiting'[i] = Waiting[i]
         /\ Waiting'[Len(Waiting) + 1] = Command(main.kind, main.size)
<1>1. taken \in Seq(CommandRecord) /\ commands \in Seq(CommandRecord)
  BY WaitingType
<1>2. Command(main.kind, main.size) \in CommandRecord
  BY DEF TypeOK, Command, CommandRecord
<1>3. Waiting' = taken \o Append(commands, Command(main.kind, main.size))
  BY DEF PushCommand, Pushed, Waiting, uiVars
<1> QED BY <1>1, <1>2, <1>3, GrownQueue DEF Waiting

(* ... the swap changes nothing of what waits, ...                         *)
LEMMA SwapKeepsWaiting ==
  ASSUME TypeOK, taken = <<>>, taken' = commands, commands' = <<>>
  PROVE  Waiting' = Waiting
<1>1. commands \in Seq(CommandRecord)
  BY WaitingType
<1>2. commands \o <<>> = commands /\ <<>> \o commands = commands
  BY <1>1, ConcatEmptySeq
<1> QED BY <1>2 DEF Waiting

(* ... and executing takes the first.                                      *)
LEMMA ExecuteShrinks ==
  ASSUME TypeOK, UiExecute
  PROVE  /\ Len(Waiting) = Len(Waiting') + 1
         /\ Waiting[1] = Head(taken)
         /\ \A i \in 1..Len(Waiting') : Waiting'[i] = Waiting[i + 1]
<1>1. taken \in Seq(CommandRecord) /\ commands \in Seq(CommandRecord)
  BY WaitingType
<1>2. taken # <<>> /\ Waiting' = Tail(taken) \o commands
  BY DEF UiExecute, Waiting
<1> QED BY <1>1, <1>2, ShrunkQueue DEF Waiting

LEMMA CommandsPushed ==
  ASSUME TypeOK, OrderInv, PushCommand, ui # "none"
  PROVE  OrderInv'
<1>1. /\ Len(Waiting') = Len(Waiting) + 1
      /\ \A i \in 1..Len(Waiting) : Waiting'[i] = Waiting[i]
      /\ Waiting'[Len(Waiting) + 1] = Command(main.kind, main.size)
  BY PushGrows
<1>2. Len(Waiting) \in Nat /\ issued \in Nat /\ done \in Nat
      /\ Waiting' \in Seq(CommandRecord) /\ Waiting \in Seq(CommandRecord)
  <2>0. TypeOK'
    BY PushType
  <2>1. commands' \in Seq(CommandRecord) /\ taken' \in Seq(CommandRecord)
    BY <2>0 DEF TypeOK, Commands, CommandRecord
  <2> QED BY <2>1, WaitingType, ConcatProperties DEF TypeOK, Waiting
<1>3. Command(main.kind, main.size).id = issued + 1
  BY DEF Command
<1>4. ui' = ui /\ taken' = taken /\ issued' = issued + 1 /\ done' = done
  BY DEF PushCommand, uiVars
<1>5. CommandsInOrder'
  <2> SUFFICES ASSUME ui # "ended"
               PROVE  /\ Len(Waiting') = issued' - done'
                      /\ \A i \in DOMAIN Waiting' : Waiting'[i].id = done' + i
    BY <1>4 DEF CommandsInOrder
  <2>1. Len(Waiting) = issued - done
        /\ \A i \in 1..Len(Waiting) : Waiting[i].id = done + i
    BY <1>2 DEF OrderInv, CommandsInOrder
  <2>2. DOMAIN Waiting' = 1..Len(Waiting) + 1
    BY <1>1, <1>2
  <2>3. ASSUME NEW i \in 1..Len(Waiting) + 1
        PROVE  Waiting'[i].id = done + i
    <3>1. CASE i \in 1..Len(Waiting)
      BY <1>1, <2>1, <3>1
    <3>2. CASE i = Len(Waiting) + 1
      BY <1>1, <1>2, <1>3, <2>1, <3>2
    <3> QED BY <1>2, <3>1, <3>2
  <2> QED BY <1>1, <1>2, <1>4, <2>1, <2>2, <2>3
<1> QED BY <1>4, <1>5 DEF OrderInv

LEMMA CommandsExecuted ==
  ASSUME TypeOK, OrderInv, UiExecute
  PROVE  OrderInv'
<1>1. /\ Len(Waiting) = Len(Waiting') + 1
      /\ \A i \in 1..Len(Waiting') : Waiting'[i] = Waiting[i + 1]
  BY ExecuteShrinks
<1>2. /\ Waiting' \in Seq(CommandRecord) /\ Waiting \in Seq(CommandRecord)
      /\ issued \in Nat /\ done \in Nat
  <2>1. UiStep
    BY DEF UiStep
  <2>2. TypeOK'
    BY <2>1, UiStepType
  <2>3. commands' \in Seq(CommandRecord) /\ taken' \in Seq(CommandRecord)
    BY <2>2 DEF TypeOK, Commands, CommandRecord
  <2> QED BY <2>3, WaitingType, ConcatProperties DEF TypeOK, Waiting
<1>3. ui = "execute" /\ done' = done + 1 /\ issued' = issued
      /\ ui' \in {"ended", "events", "execute"}
  BY DEF UiExecute, outside
<1>4. taken' # <<>> /\ ui' # "ended" => ui' = "execute"
  <2>1. taken \in Seq(CommandRecord) /\ taken # <<>> /\ taken' = Tail(taken)
    BY WaitingType DEF UiExecute
  <2>2. Len(taken) = 1 => taken' = <<>>
    BY <2>1
  <2> QED BY <2>2, <1>3 DEF UiExecute
<1>5. CommandsInOrder'
  <2>1. /\ Len(Waiting) = issued - done
        /\ \A i \in 1..Len(Waiting) : Waiting[i].id = done + i
    BY <1>2, <1>3 DEF OrderInv, CommandsInOrder
  <2>2. DOMAIN Waiting' = 1..Len(Waiting') /\ Len(Waiting') \in Nat
    BY <1>2
  <2>3. ASSUME NEW i \in 1..Len(Waiting')
        PROVE  Waiting'[i].id = done' + i
    <3>1. i + 1 \in 1..Len(Waiting)
      BY <1>1, <2>2
    <3>2. Waiting'[i].id = done + (i + 1)
      BY <1>1, <2>1, <3>1
    <3> QED BY <3>2, <1>2, <1>3
  <2> QED BY <1>1, <1>2, <1>3, <2>1, <2>2, <2>3 DEF CommandsInOrder
<1> QED BY <1>3, <1>4, <1>5 DEF OrderInv

(* Any other step leaves the queues as they are.                           *)
LEMMA OrderUndisturbed ==
  ASSUME OrderInv, Waiting' = Waiting, issued' = issued, done' = done,
         taken' # <<>> /\ ui' # "ended" => ui' = "execute",
         ui' = "none" => ui = "none" /\ commands' = commands,
         ui = "ended" => ui' = "ended"
  PROVE  OrderInv'
  BY DEF OrderInv, CommandsInOrder

LEMMA OrderInvStep ==
  TypeOK /\ EditorInv /\ OrderInv /\ [EditorNext]_editorVars => OrderInv'
<1> SUFFICES ASSUME TypeOK, EditorInv, OrderInv, [EditorNext]_editorVars
             PROVE  OrderInv'
  OBVIOUS
<1> USE DEF channel, uiVars
<1>1. ASSUME Gone  PROVE OrderInv'
  <2>1. Waiting' = <<>>
    BY <1>1, ConcatEmptySeq DEF Gone, Waiting
  <2> QED BY <1>1, <2>1 DEF Gone, OrderInv, CommandsInOrder
<1>2. ASSUME UNCHANGED <<channel, uiVars>>  PROVE OrderInv'
  BY <1>2, OrderUndisturbed DEF Waiting, OrderInv
<1>3. ASSUME NEW floating \in BOOLEAN, NEW supported \in BOOLEAN,
             SCreate(floating, supported)
      PROVE  OrderInv'
  BY <1>2, <1>3 DEF SCreate
<1>4. CASE SDestroy
  BY <1>1, <1>2, <1>4 DEF SDestroy
<1>5. CASE SShowHide
  BY <1>2, <1>5 DEF SShowHide
<1>6. ASSUME NEW s \in Scales, SSetScale(s)  PROVE OrderInv'
  BY <1>2, <1>6 DEF SSetScale
<1>7. ASSUME NEW ok \in BOOLEAN, SSetParent(ok)  PROVE OrderInv'
  <2>1. ui' = ui \/ (ui = "none" /\ ui' = "opening")
    BY <1>7 DEF SSetParent, EditorInv, ThreadInv
  <2>2. UNCHANGED <<channel, taken, done>>
    BY <1>7 DEF SSetParent
  <2>3. taken' # <<>> /\ ui' # "ended" => ui' = "execute"
    BY <2>1, <2>2 DEF OrderInv
  <2> QED BY <2>1, <2>2, <2>3, OrderUndisturbed DEF Waiting
<1>8. ASSUME NEW w \in Sizes, SSetSize(w)  PROVE OrderInv'
  BY <1>2, <1>8 DEF SSetSize
<1>9. ASSUME NEW need, SInspect(need)  PROVE OrderInv'
  BY <1>2, <1>9 DEF SInspect
<1>10. CASE PushCommand
  <2>1. ui # "none"
    BY <1>10 DEF PushCommand, EditorInv, ThreadInv, MainIdle
  <2> QED BY <1>10, <2>1, CommandsPushed
<1>11. CASE WriteByte
  BY <1>11, OrderUndisturbed DEF WriteByte, Waiting, OrderInv
<1>12. CASE Join
  BY <1>1, <1>12 DEF Join
<1>13. CASE UiExecute
  BY <1>13, CommandsExecuted
<1>14. CASE UiSwap
  <2>1. ui = "swap" /\ taken = <<>>
    BY <1>14 DEF UiSwap, OrderInv
  <2>2. Waiting' = Waiting
    BY <1>14, <2>1, SwapKeepsWaiting DEF UiSwap
  <2>3. taken' # <<>> => ui' = "execute"
    BY <1>14 DEF UiSwap
  <2> QED BY <1>14, <2>1, <2>2, <2>3, OrderUndisturbed DEF UiSwap, outside
<1>15. CASE \/ \E ok \in BOOLEAN : UiOpen(ok)
            \/ UiSelect \/ UiRead \/ UiEvent \/ UiEventsDone
            \/ HostDestroysParent
  <2>1. UNCHANGED <<taken, commands, issued, done>>
    BY <1>15 DEF UiOpen, UiSelect, UiRead, UiEvent, UiEventsDone,
                 HostDestroysParent, outside
  <2>2. /\ taken' # <<>> /\ ui' # "ended" => ui' = "execute"
        /\ ui' # "none" \/ ui' = ui
        /\ ui = "ended" => ui' = "ended"
    BY <1>15, <2>1 DEF UiOpen, UiSelect, UiRead, UiEvent, UiEventsDone,
                       HostDestroysParent, OrderInv
  <2> QED BY <2>1, <2>2, OrderUndisturbed DEF Waiting
<1>16. CASE UNCHANGED editorVars
  BY <1>2, <1>16 DEF editorVars
<1> QED
  BY <1>3, <1>4, <1>5, <1>6, <1>7, <1>8, <1>9, <1>10, <1>11, <1>12, <1>13,
     <1>14, <1>15, <1>16 DEF EditorNext, MainStep, UiStep

(* The UI thread executes a view's commands in the order of the host's     *)
(* calls, each once, and loses none while it runs, for any number of them. *)
THEOREM CommandsStayInOrder == EditorSpec => []CommandsInOrder
<1>1. OrderInv => CommandsInOrder
  BY DEF OrderInv
<1> QED
  BY <1>1, EditorTypeInit, EditorTypeStep, EditorInvInit, EditorInvStep,
     OrderInvInit, OrderInvStep, PTL DEF EditorSpec
-----------------------------------------------------------------------------
(* The size between the host, the view and the window.                     *)

Sends == main.at = "push" /\ main.kind = "resize"
Resizing == \E i \in DOMAIN Waiting : Waiting[i].kind = "resize"

(* The size the host set last is where the next thread to act will look    *)
(* for it: in the call under way, else in the last resize that waits, else *)
(* in the window; and the view's own size follows the window's by the last *)
(* event of the connection.                                                *)
SentSize == Sends => main.size = wanted

QueuedSize ==
  ~Sends =>
    \A i \in DOMAIN Waiting :
      /\ Waiting[i].kind = "resize"
      /\ \A j \in DOMAIN Waiting : j > i => Waiting[j].kind # "resize"
      => Waiting[i].size = wanted

WindowSize == ~Sends /\ ~Resizing /\ Looping /\ ~dead => window = wanted

FreshSize ==
  ui \in {"none", "opening"} => size = wanted /\ ~dead /\ events = <<>>

ViewSize ==
  Looping /\ ~dead /\ ~Contains(events, Destroyed) =>
    IF events = <<>> THEN size \in {window, wanted} ELSE Last(events) = window

SizeInv ==
  ui # "ended" => SentSize /\ QueuedSize /\ WindowSize /\ FreshSize /\ ViewSize

LEMMA SizeInvInit == EditorInit => SizeInv
<1> SUFFICES ASSUME EditorInit PROVE SizeInv
  OBVIOUS
<1>1. /\ taken = <<>> /\ commands = <<>> /\ ui = "none" /\ events = <<>> /\ ~dead
      /\ size = wanted /\ main.at = "idle"
  BY DEF EditorInit, Idle
<1>2. Waiting = <<>>
  BY <1>1, ConcatEmptySeq DEF Waiting
<1>3. ~Sends /\ ~Looping
  BY <1>1 DEF Sends, Looping
<1>4. QueuedSize
  BY <1>2 DEF QueuedSize
<1> QED
  BY <1>1, <1>3, <1>4 DEF SizeInv, SentSize, WindowSize, FreshSize, ViewSize

(* A view without a thread has no commands.                                *)
LEMMA FreshQueue ==
  ASSUME OrderInv, ui = "none"
  PROVE  Waiting = <<>>
<1>1. taken = <<>> /\ commands = <<>>
  BY DEF OrderInv
<1> QED BY <1>1, ConcatEmptySeq DEF Waiting

LEMMA SizeWithoutThread ==
  ASSUME ui' = "none", Waiting' = <<>>, size' = wanted', ~dead', events' = <<>>,
         ~Sends'
  PROVE  SizeInv'
<1>1. ~Looping'
  BY DEF Looping
<1>2. QueuedSize'
  BY DEF QueuedSize
<1> QED BY <1>1, <1>2 DEF SizeInv, SentSize, WindowSize, FreshSize, ViewSize

(* A call leaves the queue, the window and the thread as they are.         *)
LEMMA SizeCalled ==
  ASSUME SizeInv, UNCHANGED <<Waiting, ui, window, dead, events>>,
         \/ UNCHANGED <<main, size, wanted>>
         \/ ~Sends /\ ~Sends' /\ UNCHANGED <<size, wanted>>
         \/ Sends' /\ main'.size = wanted' /\ size' = wanted'
  PROVE  SizeInv'
<1> SUFFICES ASSUME ui # "ended" PROVE SizeInv'
  BY DEF SizeInv
<1> USE DEF SizeInv
<1>1. SentSize'
  BY DEF SentSize, Sends
<1>2. QueuedSize'
  BY DEF QueuedSize, Sends
<1>3. WindowSize'
  BY DEF WindowSize, Sends, Resizing, Looping
<1>4. FreshSize'
  BY DEF FreshSize
<1>5. ViewSize'
  BY DEF ViewSize, Looping
<1> QED BY <1>1, <1>2, <1>3, <1>4, <1>5

LEMMA SizePushed ==
  ASSUME TypeOK, EditorInv, OrderInv, SizeInv, PushCommand
  PROVE  SizeInv'
<1>1. /\ Len(Waiting') = Len(Waiting) + 1
      /\ \A i \in 1..Len(Waiting) : Waiting'[i] = Waiting[i]
      /\ Waiting'[Len(Waiting) + 1] = Command(main.kind, main.size)
  BY PushGrows
<1>2. Waiting \in Seq(CommandRecord) /\ Waiting' \in Seq(CommandRecord)
  <2>1. TypeOK'
    BY PushType
  <2>2. commands' \in Seq(CommandRecord) /\ taken' \in Seq(CommandRecord)
    BY <2>1 DEF TypeOK, Commands, CommandRecord
  <2> QED BY <2>2, WaitingType, ConcatProperties DEF Waiting
<1>3. /\ DOMAIN Waiting = 1..Len(Waiting) /\ DOMAIN Waiting' = 1..Len(Waiting) + 1
      /\ Len(Waiting) \in Nat
  BY <1>1, <1>2
<1>4. /\ main.at = "push" /\ main'.at = "write" /\ ~Sends'
      /\ UNCHANGED <<ui, size, window, dead, events, wanted>>
  BY DEF PushCommand, Sends, uiVars, ledger, TypeOK
<1>5. Waiting'[Len(Waiting) + 1].kind = main.kind
      /\ Waiting'[Len(Waiting) + 1].size = main.size
  BY <1>1 DEF Command
<1> SUFFICES ASSUME ui # "ended" PROVE SizeInv'
  BY <1>4 DEF SizeInv
<1>6. SentSize /\ QueuedSize /\ WindowSize /\ FreshSize /\ ViewSize
  BY DEF SizeInv
<1>7. QueuedSize'
  <2> SUFFICES ASSUME NEW i \in 1..Len(Waiting) + 1,
                      Waiting'[i].kind = "resize",
                      \A j \in 1..Len(Waiting) + 1 :
                        j > i => Waiting'[j].kind # "resize"
               PROVE  Waiting'[i].size = wanted
    BY <1>3, <1>4 DEF QueuedSize
  <2>1. CASE main.kind = "resize"
    <3>1. i = Len(Waiting) + 1
      BY <1>3, <1>5, <2>1
    <3>2. main.size = wanted
      BY <1>4, <1>6, <2>1 DEF SentSize, Sends
    <3> QED BY <1>5, <3>1, <3>2
  <2>2. CASE main.kind # "resize"
    <3>1. i \in 1..Len(Waiting)
      BY <1>3, <1>5, <2>2
    <3>2. \A j \in 1..Len(Waiting) : j > i => Waiting[j].kind # "resize"
      BY <1>1, <1>3
    <3>3. ~Sends
      BY <2>2 DEF Sends
    <3>4. Waiting[i].size = wanted
      BY <1>1, <1>3, <1>6, <3>1, <3>2, <3>3 DEF QueuedSize
    <3> QED BY <1>1, <3>1, <3>4
  <2> QED BY <2>1, <2>2
<1>8. WindowSize'
  <2> SUFFICES ASSUME ~Resizing', Looping, ~dead PROVE window = wanted
    BY <1>4 DEF WindowSize, Looping
  <2>1. main.kind # "resize"
    BY <1>3, <1>5 DEF Resizing
  <2>2. ~Resizing
    BY <1>1, <1>3 DEF Resizing
  <2> QED BY <1>6, <2>1, <2>2 DEF WindowSize, Sends
<1>9. SentSize' /\ FreshSize' /\ ViewSize'
  BY <1>4, <1>6 DEF SentSize, FreshSize, ViewSize, Looping
<1> QED BY <1>7, <1>8, <1>9 DEF SizeInv

(* What an event more, or one less, does to the connection.                *)
LEMMA EventAdded ==
  ASSUME NEW s \in Seq(Nat), NEW e \in Nat
  PROVE  /\ Append(s, e) # <<>> /\ Last(Append(s, e)) = e
         /\ Contains(s, Destroyed) => Contains(Append(s, e), Destroyed)
         /\ e = Destroyed => Contains(Append(s, e), Destroyed)
<1>1. /\ Len(Append(s, e)) = Len(s) + 1 /\ Append(s, e)[Len(s) + 1] = e
      /\ \A i \in 1..Len(s) : Append(s, e)[i] = s[i]
      /\ Append(s, e) # <<>> /\ Len(s) \in Nat
  BY AppendProperties
<1>2. Last(Append(s, e)) = e
  BY <1>1 DEF Last
<1>3. Len(s) + 1 \in 1..Len(Append(s, e))
  BY <1>1
<1> QED BY <1>1, <1>2, <1>3 DEF Contains

LEMMA EventRead ==
  ASSUME NEW s \in Seq(Nat), s # <<>>, ~Contains(Tail(s), Destroyed),
         Head(s) # Destroyed
  PROVE  /\ ~Contains(s, Destroyed)
         /\ Tail(s) # <<>> => Last(Tail(s)) = Last(s)
         /\ Tail(s) = <<>> => Head(s) = Last(s)
<1>1. /\ Tail(s) \in Seq(Nat) /\ Len(Tail(s)) = Len(s) - 1
      /\ \A i \in 1..Len(Tail(s)) : Tail(s)[i] = s[i + 1]
      /\ Head(s) = s[1] /\ Len(s) \in Nat \ {0}
  BY HeadTailProperties
<1>2. ASSUME NEW i \in 1..Len(s)
      PROVE  s[i] # Destroyed
  <2>1. CASE i = 1
    BY <1>1, <2>1
  <2>2. CASE i # 1
    <3>1. i - 1 \in 1..Len(Tail(s)) /\ (i - 1) + 1 = i
      BY <1>1, <2>2
    <3>2. Tail(s)[i - 1] = s[i]
      BY <1>1, <3>1
    <3> QED BY <3>1, <3>2 DEF Contains
  <2> QED BY <2>1, <2>2
<1>3. ASSUME Tail(s) # <<>>
      PROVE  Last(Tail(s)) = Last(s)
  <2>1. Len(Tail(s)) \in 1..Len(Tail(s))
    BY <1>1, <1>3
  <2>2. Tail(s)[Len(Tail(s))] = s[Len(s)]
    BY <1>1, <2>1
  <2> QED BY <2>2 DEF Last
<1>4. ASSUME Tail(s) = <<>>
      PROVE  Head(s) = Last(s)
  <2>1. Len(s) = 1
    BY <1>1, <1>4
  <2> QED BY <1>1, <2>1 DEF Last
<1> QED BY <1>2, <1>3, <1>4 DEF Contains

LEMMA SizeExecuted ==
  ASSUME TypeOK, EditorInv, OrderInv, SizeInv, UiExecute
  PROVE  SizeInv'
<1> DEFINE c == Head(taken)
<1>1. /\ Len(Waiting) = Len(Waiting') + 1
      /\ Waiting[1] = c
      /\ \A i \in 1..Len(Waiting') : Waiting'[i] = Waiting[i + 1]
  BY ExecuteShrinks
<1>2. Waiting \in Seq(CommandRecord) /\ Waiting' \in Seq(CommandRecord)
  <2>1. TypeOK'
    BY UiStepType DEF UiStep
  <2>2. commands' \in Seq(CommandRecord) /\ taken' \in Seq(CommandRecord)
    BY <2>1 DEF TypeOK, Commands, CommandRecord
  <2> QED BY <2>2, WaitingType, ConcatProperties DEF Waiting
<1>3. /\ DOMAIN Waiting = 1..Len(Waiting) /\ DOMAIN Waiting' = 1..Len(Waiting')
      /\ Len(Waiting) = Len(Waiting') + 1 /\ Len(Waiting') \in Nat
  BY <1>1, <1>2
<1>4. c.size \in Nat /\ events \in Seq(Nat) /\ window \in Nat
  <2>1. taken \in Seq(CommandRecord) /\ taken # <<>>
    BY WaitingType DEF UiExecute
  <2>2. c \in CommandRecord
    BY <2>1, HeadTailProperties
  <2>3. c.size \in Nat
    BY <2>2 DEF CommandRecord
  <2> QED BY <2>3 DEF TypeOK
<1>5. /\ ui = "execute" /\ ui' \in {"execute", "events", "ended"}
      /\ UNCHANGED <<main, size, wanted, dead>>
  BY DEF UiExecute, outside, ledger
<1>6. Looping /\ (Sends' <=> Sends)
  BY <1>5 DEF Looping, Sends
<1>7. IF c.kind = "resize" /\ ~dead
        THEN /\ window' = c.size
             /\ events' = IF window = c.size THEN events
                          ELSE Append(events, c.size)
        ELSE UNCHANGED <<window, events>>
  BY DEF UiExecute
<1>8. SentSize /\ QueuedSize /\ WindowSize /\ FreshSize /\ ViewSize
  BY <1>5 DEF SizeInv
<1>9. SentSize' /\ FreshSize'
  BY <1>5, <1>6, <1>8 DEF SentSize, FreshSize
<1>10. QueuedSize'
  <2> SUFFICES ASSUME ~Sends, NEW i \in 1..Len(Waiting'),
                      Waiting'[i].kind = "resize",
                      \A j \in 1..Len(Waiting') :
                        j > i => Waiting'[j].kind # "resize"
               PROVE  Waiting'[i].size = wanted
    BY <1>3, <1>5, <1>6 DEF QueuedSize
  <2>1. i + 1 \in 1..Len(Waiting) /\ Waiting[i + 1].kind = "resize"
    BY <1>1, <1>3
  <2>2. ASSUME NEW j \in 1..Len(Waiting), j > i + 1
        PROVE  Waiting[j].kind # "resize"
    <3>1. j - 1 \in 1..Len(Waiting') /\ j - 1 > i /\ (j - 1) + 1 = j
      BY <1>3, <2>2
    <3>2. Waiting'[j - 1] = Waiting[j]
      BY <1>1, <3>1
    <3> QED BY <3>1, <3>2
  <2>3. Waiting[i + 1].size = wanted
    BY <1>3, <1>8, <2>1, <2>2 DEF QueuedSize
  <2> QED BY <1>1, <2>3
<1>11. WindowSize'
  <2> SUFFICES ASSUME ~Sends, ~Resizing', ~dead PROVE window' = wanted
    BY <1>5, <1>6 DEF WindowSize
  <2>1. ASSUME NEW j \in 1..Len(Waiting), j > 1
        PROVE  Waiting[j].kind # "resize"
    <3>1. j - 1 \in 1..Len(Waiting') /\ (j - 1) + 1 = j
      BY <1>3, <2>1
    <3>2. Waiting'[j - 1] = Waiting[j]
      BY <1>1, <3>1
    <3> QED BY <1>3, <3>1, <3>2 DEF Resizing
  <2>2. CASE c.kind = "resize"
    <3>1. 1 \in 1..Len(Waiting)
      BY <1>3
    <3>2. Waiting[1].size = wanted
      BY <1>1, <1>3, <1>8, <2>1, <2>2, <3>1 DEF QueuedSize
    <3> QED BY <1>1, <1>7, <2>2, <3>2
  <2>3. CASE c.kind # "resize"
    <3>1. ~Resizing
      BY <1>1, <1>3, <2>1, <2>3 DEF Resizing
    <3> QED BY <1>6, <1>7, <1>8, <2>3, <3>1 DEF WindowSize
  <2> QED BY <2>2, <2>3
<1>12. ViewSize'
  <2> SUFFICES ASSUME ~dead, ~Contains(events', Destroyed)
               PROVE  IF events' = <<>> THEN size \in {window', wanted}
                      ELSE Last(events') = window'
    BY <1>5 DEF ViewSize
  <2>1. CASE UNCHANGED <<window, events>>
    BY <1>6, <1>8, <2>1 DEF ViewSize
  <2>2. CASE window' = c.size /\ events' = Append(events, c.size)
    BY <1>4, <2>2, EventAdded
  <2> QED BY <1>7, <2>1, <2>2
<1> QED BY <1>9, <1>10, <1>11, <1>12 DEF SizeInv

LEMMA SizeEvent ==
  ASSUME TypeOK, SizeInv, UiEvent
  PROVE  SizeInv'
<1>1. /\ ui = "events" /\ ui' = ui /\ ~dead /\ events \in Seq(Nat) /\ events # <<>>
      /\ events' = Tail(events)
      /\ UNCHANGED <<main, wanted, window, taken, commands>>
      /\ IF Head(events) = Destroyed THEN dead' = TRUE /\ UNCHANGED size
                                     ELSE size' = Head(events) /\ UNCHANGED dead
  BY DEF UiEvent, outside, ledger, TypeOK
<1>2. Looping /\ (Sends' <=> Sends) /\ Waiting' = Waiting
  BY <1>1 DEF Looping, Sends, Waiting
<1>3. SentSize /\ QueuedSize /\ WindowSize /\ ViewSize
  BY <1>1 DEF SizeInv
<1>4. SentSize' /\ QueuedSize' /\ FreshSize'
  BY <1>1, <1>2, <1>3 DEF SentSize, QueuedSize, FreshSize
<1>5. WindowSize'
  BY <1>1, <1>2, <1>3 DEF WindowSize, Resizing
<1>6. ViewSize'
  <2> SUFFICES ASSUME ~dead', ~Contains(Tail(events), Destroyed)
               PROVE  IF Tail(events) = <<>> THEN size' \in {window, wanted}
                      ELSE Last(Tail(events)) = window
    BY <1>1 DEF ViewSize
  <2>1. Head(events) # Destroyed /\ size' = Head(events)
    BY <1>1
  <2>2. /\ ~Contains(events, Destroyed)
        /\ Tail(events) # <<>> => Last(Tail(events)) = Last(events)
        /\ Tail(events) = <<>> => Head(events) = Last(events)
    BY <1>1, <2>1, EventRead
  <2>3. Last(events) = window
    BY <1>1, <1>2, <1>3, <2>2 DEF ViewSize
  <2> QED BY <2>1, <2>2, <2>3
<1> QED BY <1>4, <1>5, <1>6 DEF SizeInv

LEMMA SizeWindowMade ==
  ASSUME SizeInv, NEW ok \in BOOLEAN, UiOpen(ok)
  PROVE  SizeInv'
<1>1. /\ ui = "opening" /\ (ui' = "ended" \/ (ui' = "select" /\ window' = size))
      /\ UNCHANGED <<main, wanted, size, taken, commands, dead, events>>
  BY DEF UiOpen, outside, ledger
<1>2. SentSize /\ QueuedSize /\ size = wanted /\ ~dead /\ events = <<>>
  BY <1>1 DEF SizeInv, FreshSize
<1>3. (Sends' <=> Sends) /\ Waiting' = Waiting
  BY <1>1 DEF Sends, Waiting
<1>4. ASSUME ui' = "select" /\ window' = size
      PROVE  WindowSize' /\ FreshSize' /\ ViewSize'
  BY <1>1, <1>2, <1>4 DEF WindowSize, FreshSize, ViewSize
<1>5. SentSize' /\ QueuedSize'
  BY <1>1, <1>2, <1>3 DEF SentSize, QueuedSize
<1> QED BY <1>1, <1>4, <1>5 DEF SizeInv

(* The thread goes round its loop.                                         *)
LEMMA SizeLooped ==
  ASSUME SizeInv, Looping, Waiting' = Waiting, ui' # "none", ui' # "opening",
         UNCHANGED <<main, wanted, size, window, dead, events>>
  PROVE  SizeInv'
<1>1. Sends' <=> Sends
  BY DEF Sends
<1>2. SentSize /\ QueuedSize /\ WindowSize /\ ViewSize
  BY DEF SizeInv, Looping
<1>3. SentSize' /\ QueuedSize' /\ FreshSize'
  BY <1>1, <1>2 DEF SentSize, QueuedSize, FreshSize
<1>4. WindowSize'
  BY <1>1, <1>2 DEF WindowSize, Resizing, Looping
<1>5. ViewSize'
  BY <1>2 DEF ViewSize, Looping
<1> QED BY <1>3, <1>4, <1>5 DEF SizeInv

LEMMA SizeParentGone ==
  ASSUME TypeOK, SizeInv, HostDestroysParent
  PROVE  SizeInv'
<1>1. /\ Looping /\ ui' = ui /\ events' = Append(events, Destroyed)
      /\ UNCHANGED <<main, wanted, size, window, dead, taken, commands>>
      /\ events \in Seq(Nat) /\ Destroyed \in Nat
  BY DEF HostDestroysParent, outside, ledger, TypeOK, Destroyed
<1>2. SentSize /\ QueuedSize /\ WindowSize
  BY <1>1 DEF SizeInv, Looping
<1>3. (Sends' <=> Sends) /\ Waiting' = Waiting
  BY <1>1 DEF Sends, Waiting
<1>4. SentSize' /\ QueuedSize' /\ WindowSize'
  BY <1>1, <1>2, <1>3 DEF SentSize, QueuedSize, WindowSize, Resizing, Looping
<1>5. FreshSize'
  BY <1>1 DEF FreshSize, Looping
<1>6. Contains(events', Destroyed)
  BY <1>1, EventAdded
<1> QED BY <1>4, <1>5, <1>6 DEF SizeInv, ViewSize

LEMMA SizeInvStep ==
  TypeOK /\ EditorInv /\ OrderInv /\ SizeInv /\ [EditorNext]_editorVars => SizeInv'
<1> SUFFICES ASSUME TypeOK, EditorInv, OrderInv, SizeInv, [EditorNext]_editorVars
             PROVE  SizeInv'
  OBVIOUS
<1> USE DEF channel, uiVars, ledger
<1>1. ASSUME Gone  PROVE SizeInv'
  <2>1. Waiting' = <<>>
    BY <1>1, ConcatEmptySeq DEF Gone, Waiting
  <2>2. ~Sends'
    BY <1>1 DEF Gone, Idle, Sends
  <2> QED BY <1>1, <2>1, <2>2, SizeWithoutThread DEF Gone
<1>2. ASSUME UNCHANGED <<channel, uiVars>>
      PROVE  UNCHANGED <<Waiting, ui, window, dead, events>>
  BY <1>2 DEF Waiting
<1>3. ASSUME NEW floating \in BOOLEAN, NEW supported \in BOOLEAN,
             SCreate(floating, supported)
      PROVE  SizeInv'
  <2>1. UNCHANGED <<channel, main, uiVars>> /\ ~Sends'
    BY <1>3 DEF SCreate, MainIdle, Sends
  <2>2. CASE UNCHANGED <<size, wanted>>
    BY <1>2, <2>1, <2>2, SizeCalled
  <2>3. CASE ~view /\ size' = DefaultSize * scale /\ wanted' = DefaultSize * scale
    <3>1. ui = "none"
      BY <2>3 DEF EditorInv, ThreadInv
    <3>2. Waiting' = <<>>
      BY <2>1, <3>1, FreshQueue DEF Waiting
    <3> QED
      BY <2>1, <2>3, <3>1, <3>2, SizeWithoutThread DEF SizeInv, FreshSize
  <2> QED BY <1>3, <2>2, <2>3 DEF SCreate
<1>4. CASE SDestroy
  <2>1. CASE Gone
    BY <1>1, <2>1
  <2>2. CASE /\ main' = [at |-> "push", kind |-> "quit", size |-> 0]
             /\ UNCHANGED <<size, channel, uiVars, ledger>>
    <3>1. ~Sends /\ ~Sends'
      BY <1>4, <2>2 DEF SDestroy, MainIdle, Sends
    <3> QED BY <1>2, <2>2, <3>1, SizeCalled
  <2> QED BY <1>4, <2>1, <2>2 DEF SDestroy
<1>5. CASE SShowHide
  <2>1. ~Sends /\ ~Sends'
    BY <1>5 DEF SShowHide, MainIdle, Sends
  <2> QED BY <1>2, <1>5, <2>1, SizeCalled DEF SShowHide
<1>6. ASSUME NEW s \in Scales, SSetScale(s)  PROVE SizeInv'
  <2>1. UNCHANGED <<channel, main, uiVars>> /\ ~Sends'
    BY <1>6 DEF SSetScale, MainIdle, Sends
  <2>2. CASE UNCHANGED <<size, wanted>>
    BY <1>2, <2>1, <2>2, SizeCalled
  <2>3. CASE ~joinable /\ wanted' = size'
    <3>1. ui = "none"
      BY <2>3 DEF EditorInv, ThreadInv
    <3>2. Waiting' = <<>>
      BY <2>1, <3>1, FreshQueue DEF Waiting
    <3> QED
      BY <2>1, <2>3, <3>1, <3>2, SizeWithoutThread DEF SizeInv, FreshSize
  <2> QED BY <1>6, <2>2, <2>3 DEF SSetScale
<1>7. ASSUME NEW ok \in BOOLEAN, SSetParent(ok)  PROVE SizeInv'
  <2>1. UNCHANGED <<channel, main, size, wanted, taken, window, dead, events>>
        /\ ~Sends /\ ~Sends'
    BY <1>7 DEF SSetParent, MainIdle, Sends
  <2>2. CASE ui' = ui
    BY <2>1, <2>2, SizeCalled DEF Waiting
  <2>3. CASE ~joinable /\ ui' = "opening"
    <3>1. ui = "none"
      BY <2>3 DEF EditorInv, ThreadInv
    <3>2. Waiting' = <<>>
      BY <2>1, <3>1, FreshQueue DEF Waiting
    <3>3. QueuedSize'
      BY <3>2 DEF QueuedSize
    <3> QED
      BY <2>1, <2>3, <3>1, <3>3
         DEF SizeInv, SentSize, WindowSize, FreshSize, ViewSize, Looping
  <2> QED BY <1>7, <2>2, <2>3 DEF SSetParent
<1>8. ASSUME NEW w \in Sizes, SSetSize(w)  PROVE SizeInv'
  <2>1. UNCHANGED <<channel, uiVars>> /\ ~Sends
    BY <1>8 DEF SSetSize, MainIdle, Sends
  <2>2. CASE UNCHANGED <<size, wanted, main>>
    BY <1>2, <2>1, <2>2, SizeCalled
  <2>3. CASE /\ ~joinable /\ wanted' = size' /\ UNCHANGED main
    <3>1. ui = "none" /\ ~Sends'
      BY <2>1, <2>3 DEF EditorInv, ThreadInv, Sends
    <3>2. Waiting' = <<>>
      BY <2>1, <3>1, FreshQueue DEF Waiting
    <3> QED
      BY <2>1, <2>3, <3>1, <3>2, SizeWithoutThread DEF SizeInv, FreshSize
  <2>4. CASE /\ wanted' = size'
             /\ main' = [at |-> "push", kind |-> "resize", size |-> size']
    <3>1. Sends' /\ main'.size = wanted'
      BY <2>4 DEF Sends
    <3> QED BY <1>2, <2>1, <2>4, <3>1, SizeCalled
  <2> QED BY <1>8, <2>2, <2>3, <2>4 DEF SSetSize
<1>9. ASSUME NEW need, SInspect(need)  PROVE SizeInv'
  BY <1>2, <1>9, SizeCalled DEF SInspect
<1>10. CASE PushCommand
  BY <1>10, SizePushed
<1>11. CASE WriteByte
  <2>1. ~Sends /\ ~Sends'
    BY <1>11 DEF WriteByte, Sends, Idle, TypeOK
  <2> QED BY <1>11, <2>1, SizeCalled DEF WriteByte, Waiting
<1>12. CASE Join
  BY <1>1, <1>12 DEF Join
<1>13. CASE UiExecute
  BY <1>13, SizeExecuted
<1>14. CASE UiSwap
  <2>1. ui = "swap" /\ taken = <<>>
    BY <1>14 DEF UiSwap, OrderInv
  <2>2. Waiting' = Waiting
    BY <1>14, <2>1, SwapKeepsWaiting DEF UiSwap
  <2> QED BY <1>14, <2>1, <2>2, SizeLooped DEF UiSwap, outside, Looping
<1>15. CASE UiSelect \/ UiRead \/ UiEventsDone
  BY <1>15, SizeLooped
     DEF UiSelect, UiRead, UiEventsDone, outside, Looping, Waiting
<1>16. ASSUME NEW ok \in BOOLEAN, UiOpen(ok)  PROVE SizeInv'
  BY <1>16, SizeWindowMade
<1>17. CASE UiEvent
  BY <1>17, SizeEvent
<1>18. CASE HostDestroysParent
  BY <1>18, SizeParentGone
<1>19. CASE UNCHANGED editorVars
  BY <1>2, <1>19, SizeCalled DEF editorVars
<1> QED
  BY <1>3, <1>4, <1>5, <1>6, <1>7, <1>8, <1>9, <1>10, <1>11, <1>12, <1>13,
     <1>14, <1>15, <1>16, <1>17, <1>18, <1>19 DEF EditorNext, MainStep, UiStep

(* Whatever the host resized and whatever ConfigureNotify came in between, *)
(* at rest the window has the size set last, and get_size() answers it.    *)
THEOREM SizesAgreeAtRest == EditorSpec => []SizeAgrees
<1>1. SizeInv => SizeAgrees
  <2> SUFFICES ASSUME SizeInv, BothAtRest PROVE size = wanted /\ window = wanted
    BY DEF SizeAgrees
  <2>1. /\ main.at = "idle" /\ ui = "select" /\ ~dead /\ Waiting = <<>>
        /\ events = <<>>
    BY DEF BothAtRest, MainIdle
  <2>2. Looping /\ ~Sends /\ ~Resizing /\ ~Contains(events, Destroyed)
    BY <2>1 DEF Looping, Sends, Resizing, Contains
  <2>3. window = wanted
    BY <2>1, <2>2 DEF SizeInv, WindowSize
  <2>4. size \in {window, wanted}
    BY <2>1, <2>2 DEF SizeInv, ViewSize
  <2> QED BY <2>3, <2>4
<1> QED
  BY <1>1, EditorTypeInit, EditorTypeStep, EditorInvInit, EditorInvStep,
     OrderInvInit, OrderInvStep, SizeInvInit, SizeInvStep, PTL DEF EditorSpec
=============================================================================
