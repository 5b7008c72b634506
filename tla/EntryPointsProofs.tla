------------------------- MODULE EntryPointsProofs --------------------------
(***************************************************************************)
(* The reports E01..E04 of entry.cpp are right for any finite number of    *)
(* threads (E04 where `InOrder` holds).  The depth counters are read as    *)
(* cardinalities of the sets of calls inside (TypeOK); everything else     *)
(* follows from that reading.                                              *)
(***************************************************************************)
EXTENDS EntryPoints, FiniteSetTheorems, TLAPS

(* The two depth counters vanish exactly when no call is inside.           *)
LEMMA DepthsCount ==
  ASSUME TypeOK
  PROVE  /\ IsFiniteSet(InEntry) /\ IsFiniteSet(InOther)
         /\ entryDepth \in Nat /\ otherDepth \in Nat
         /\ entryDepth > 0 <=> InEntry # {}
         /\ otherDepth > 0 <=> InOther # {}
<1>1. IsFiniteSet(InEntry) /\ IsFiniteSet(InOther)
  BY EntryAssumption, FS_Subset DEF InEntry, InOther
<1>2. Cardinality(InEntry) \in Nat /\ Cardinality(InOther) \in Nat
  BY <1>1, FS_CardinalityType
<1>3. /\ Cardinality(InEntry) = 0 <=> InEntry = {}
      /\ Cardinality(InOther) = 0 <=> InOther = {}
  BY <1>1, FS_EmptySet
<1> QED BY <1>1, <1>2, <1>3 DEF TypeOK

(* A call that moves on within its window leaves both sets alone.          *)
LEMMA InsideStays ==
  ASSUME TypeOK, NEW t \in Threads, pc[t] \in Inside, NEW p \in Inside,
         Goto(t, p), call' = call
  PROVE  InEntry' = InEntry /\ InOther' = InOther
BY DEF TypeOK, Goto, InEntry, InOther

(* Begin and Goto on the sets of the calls inside.                         *)
LEMMA InsideGrows ==
  ASSUME TypeOK, NEW t \in Threads, NEW c \in Call, pc[t] = "idle",
         NEW p \in Inside, Goto(t, p), call' = [call EXCEPT ![t] = c]
  PROVE  /\ t \notin InEntry /\ t \notin InOther
         /\ c \in EntryCall => InEntry' = InEntry \cup {t} /\ InOther' = InOther
         /\ c = "other" => InEntry' = InEntry /\ InOther' = InOther \cup {t}
BY DEF TypeOK, Goto, InEntry, InOther, Inside, Looking, Call, EntryCall

LEMMA InsideShrinks ==
  ASSUME TypeOK, NEW t \in Threads, pc[t] = "leave", Goto(t, "idle"),
         call' = call
  PROVE  /\ call[t] \in EntryCall =>
              t \in InEntry /\ InEntry' = InEntry \ {t} /\ InOther' = InOther
         /\ call[t] = "other" =>
              t \in InOther /\ InEntry' = InEntry /\ InOther' = InOther \ {t}
BY DEF TypeOK, Goto, InEntry, InOther, Inside, Looking, Call, EntryCall

(* Report() adds one of the codes.                                         *)
LEMMA ReportTyped ==
  ASSUME TypeOK, NEW t \in Threads, NEW b, NEW code \in Codes,
         Report(t, b, code)
  PROVE  reported' \in [Threads -> SUBSET Codes]
<1>1. If(b, code) \in SUBSET Codes
  BY DEF If
<1> QED BY <1>1 DEF TypeOK, Report

-----------------------------------------------------------------------------
LEMMA TypeInit == Init => TypeOK
<1> SUFFICES ASSUME Init PROVE TypeOK
  OBVIOUS
<1>1. InEntry = {} /\ InOther = {}
  BY DEF Init, InEntry, InOther, Inside, Looking
<1>2. Cardinality({}) = 0
  BY FS_EmptySet
<1>3. entryDepth = Cardinality(InEntry) /\ otherDepth = Cardinality(InOther)
  BY <1>1, <1>2 DEF Init
<1>4. /\ pc \in [Threads -> {"idle"} \cup Inside] /\ call \in [Threads -> Call]
      /\ reported \in [Threads -> SUBSET Codes]
  BY DEF Init, Call
<1>5. /\ initCount \in Int /\ balance \in Nat /\ entryCalls \in Nat
  BY DEF Init
<1>6. met \in [Threads -> BOOLEAN] /\ clashed \in BOOLEAN
  BY Zenon DEF Init
<1> QED BY <1>3, <1>4, <1>5, <1>6 DEF TypeOK

LEMMA TypeNext == TypeOK /\ [Next]_vars => TypeOK'
<1> SUFFICES ASSUME TypeOK, [Next]_vars PROVE TypeOK'
  OBVIOUS
<1>D. /\ IsFiniteSet(InEntry) /\ IsFiniteSet(InOther)
      /\ entryDepth \in Nat /\ otherDepth \in Nat
  BY DepthsCount
<1>1. ASSUME NEW t \in Threads, NEW c \in EntryCall, EntryEnter(t, c)
      PROVE  TypeOK'
  <2>1. /\ t \notin InEntry
        /\ InEntry' = InEntry \cup {t} /\ InOther' = InOther
    BY <1>1, InsideGrows DEF EntryEnter, Begin, Inside, Looking, Call
  <2>2. Cardinality(InEntry)' = Cardinality(InEntry) + 1
    BY <1>D, <2>1, FS_AddElement
  <2>3. reported' \in [Threads -> SUBSET Codes]
    BY <1>1 DEF EntryEnter, TypeOK, If, Codes
  <2>4. met' \in [Threads -> BOOLEAN] /\ clashed' \in BOOLEAN
    BY <1>1 DEF EntryEnter, Begin, TypeOK
  <2> QED BY <1>1, <2>1, <2>2, <2>3, <2>4
          DEF EntryEnter, Begin, Goto, TypeOK, Inside, Looking, Call
<1>2. ASSUME NEW t \in Threads, OtherEnter(t) PROVE TypeOK'
  <2>1. /\ t \notin InOther
        /\ InEntry' = InEntry /\ InOther' = InOther \cup {t}
    BY <1>2, InsideGrows DEF OtherEnter, Begin, Inside, Looking, Call
  <2>2. Cardinality(InOther)' = Cardinality(InOther) + 1
    BY <1>D, <2>1, FS_AddElement
  <2>3. met' \in [Threads -> BOOLEAN] /\ clashed' \in BOOLEAN
    BY <1>2 DEF OtherEnter, Begin, TypeOK
  <2> QED BY <1>2, <2>1, <2>2, <2>3
          DEF OtherEnter, Begin, Goto, TypeOK, Inside, Looking, Call
<1>3. ASSUME NEW t \in Threads, EntryLeave(t) PROVE TypeOK'
  <2>1. /\ t \in InEntry
        /\ InEntry' = InEntry \ {t} /\ InOther' = InOther
    BY <1>3, InsideShrinks DEF EntryLeave
  <2>2. Cardinality(InEntry)' = Cardinality(InEntry) - 1
    BY <1>D, <2>1, FS_RemoveElement
  <2> QED BY <1>3, <2>1, <2>2 DEF EntryLeave, Goto, TypeOK
<1>4. ASSUME NEW t \in Threads, OtherLeave(t) PROVE TypeOK'
  <2>1. /\ t \in InOther
        /\ InEntry' = InEntry /\ InOther' = InOther \ {t}
    BY <1>4, InsideShrinks DEF OtherLeave
  <2>2. Cardinality(InOther)' = Cardinality(InOther) - 1
    BY <1>D, <2>1, FS_RemoveElement
  <2> QED BY <1>4, <2>1, <2>2 DEF OtherLeave, Goto, TypeOK
<1>5. ASSUME NEW t \in Threads, NEW p \in Inside, pc[t] \in Inside,
             Goto(t, p), call' = call, initCount' \in Int,
             reported' \in [Threads -> SUBSET Codes],
             UNCHANGED <<entryDepth, otherDepth, met, clashed, balance,
                         entryCalls>>
      PROVE  TypeOK'
  <2>1. InEntry' = InEntry /\ InOther' = InOther
    BY <1>5, InsideStays
  <2>2. pc' \in [Threads -> {"idle"} \cup Inside]
    BY <1>5 DEF TypeOK, Goto
  <2> QED BY <1>5, <2>1, <2>2 DEF TypeOK
<1>6. ASSUME NEW t \in Threads, EntryLookOthers(t) PROVE TypeOK'
  <2>1. PICK depth \in Seen(otherDepth) : Report(t, depth > 0, "E04")
    BY <1>6 DEF EntryLookOthers
  <2>2. reported' \in [Threads -> SUBSET Codes]
    BY <2>1, ReportTyped DEF Codes
  <2> QED BY <1>6, <2>2, <1>5 DEF EntryLookOthers, Inside, Looking, TypeOK
<1>7. ASSUME NEW t \in Threads, InitBump(t) PROVE TypeOK'
  <2>1. Report(t, initCount > 0, "E02")
    BY <1>7 DEF InitBump
  <2>2. reported' \in [Threads -> SUBSET Codes]
    BY <2>1, ReportTyped DEF Codes
  <2> QED BY <1>7, <2>2, <1>5 DEF InitBump, Inside, Looking, TypeOK
<1>8. ASSUME NEW t \in Threads, DeinitLoad(t) PROVE TypeOK'
  <2>1. Report(t, initCount = 0, "E03")
    BY <1>8 DEF DeinitLoad
  <2>2. reported' \in [Threads -> SUBSET Codes]
    BY <2>1, ReportTyped DEF Codes
  <2> QED BY <1>8, <2>2, <1>5 DEF DeinitLoad, Inside, Looking, TypeOK
<1>9. ASSUME NEW t \in Threads, DeinitDrop(t) PROVE TypeOK'
  BY <1>9, <1>5 DEF DeinitDrop, Inside, Looking, Codes, TypeOK
<1>10. ASSUME NEW t \in Threads, OtherLookEntries(t) PROVE TypeOK'
  <2>1. PICK depth \in Seen(entryDepth) : Report(t, depth > 0, "E04")
    BY <1>10 DEF OtherLookEntries
  <2>2. reported' \in [Threads -> SUBSET Codes]
    BY <2>1, ReportTyped DEF Codes
  <2> QED BY <1>10, <2>2, <1>5 DEF OtherLookEntries, Inside, Looking, TypeOK
<1>11. ASSUME NEW t \in Threads, OtherCheck(t) PROVE TypeOK'
  <2>1. Report(t, initCount = 0, "E01")
    BY <1>11 DEF OtherCheck
  <2>2. reported' \in [Threads -> SUBSET Codes]
    BY <2>1, ReportTyped DEF Codes
  <2> QED BY <1>11, <2>2, <1>5 DEF OtherCheck, Inside, Looking, TypeOK
<1>12. CASE UNCHANGED vars
  <2>1. InEntry' = InEntry /\ InOther' = InOther
    BY <1>12 DEF vars, InEntry, InOther
  <2> QED BY <1>12, <2>1 DEF vars, TypeOK
<1> QED BY <1>1, <1>2, <1>3, <1>4, <1>6, <1>7, <1>8, <1>9, <1>10, <1>11, <1>12
        DEF Next

(* TypeOK: in particular the depth counters of entry.cpp count the calls   *)
(* that are inside.                                                        *)
THEOREM TypeCorrect == Spec => []TypeOK
BY TypeInit, TypeNext, PTL DEF Spec

(* Each access belongs to one kind of call.                                *)
Stages ==
  \A t \in Threads :
    /\ pc[t] = "others" => call[t] \in EntryCall
    /\ pc[t] = "bump" => call[t] = "init"
    /\ pc[t] \in {"load", "drop"} => call[t] = "deinit"
    /\ pc[t] \in {"entries", "check"} => call[t] = "other"

LEMMA StagesInit == Init => Stages
BY DEF Init, Stages

LEMMA StagesNext == TypeOK /\ Stages /\ [Next]_vars => Stages'
<1> SUFFICES ASSUME TypeOK, Stages, [Next]_vars PROVE Stages'
  OBVIOUS
<1> USE DEF Stages, TypeOK, Goto, EntryCall
<1>1. ASSUME NEW t \in Threads, NEW c \in EntryCall, EntryEnter(t, c)
      PROVE  Stages'
  BY <1>1 DEF EntryEnter, Begin
<1>2. ASSUME NEW t \in Threads, OtherEnter(t) PROVE Stages'
  BY <1>2 DEF OtherEnter, Begin
<1>3. ASSUME NEW t \in Threads,
             \/ EntryLookOthers(t) \/ EntryLeave(t) \/ InitBump(t)
             \/ DeinitLoad(t) \/ DeinitDrop(t)
      PROVE  Stages'
  BY <1>3 DEF EntryLookOthers, EntryLeave, InitBump, DeinitLoad, DeinitDrop
<1>4. ASSUME NEW t \in Threads,
             OtherLookEntries(t) \/ OtherCheck(t) \/ OtherLeave(t)
      PROVE  Stages'
  BY <1>4 DEF OtherLookEntries, OtherCheck, OtherLeave
<1>5. CASE UNCHANGED vars
  BY <1>5 DEF vars
<1> QED BY <1>1, <1>2, <1>3, <1>4, <1>5 DEF Next

(* What every call knows of the calls inside with it.                      *)
Meeting ==
  \A t \in Threads : pc[t] \in Inside /\ Foes(t, call[t]) # {} => met[t]

(* Of two entry calls inside together one has reported on its way in.      *)
EntriesReported ==
  \A t, u \in InEntry : t # u => "E04" \in reported[t] \cup reported[u]

OverlapInv == Meeting /\ EntriesReported /\ OverlapReported /\ OverlapReal

LEMMA FoesSymmetric ==
  ASSUME NEW t \in Threads, NEW u \in Threads, pc[t] \in Inside,
         u \in Foes(t, call[t])
  PROVE  t \in Foes(u, call[u])
BY DEF Foes

(* A call has a foe inside exactly when the depth it looks at shows one.   *)
LEMMA DepthShowsFoe ==
  ASSUME TypeOK, NEW t \in Threads, pc[t] \in Inside
  PROVE  /\ call[t] \in EntryCall /\ otherDepth > 0 => Foes(t, call[t]) # {}
         /\ call[t] = "other" /\ entryDepth > 0 => Foes(t, call[t]) # {}
         /\ \A u \in Foes(t, call[t]) :
              /\ call[u] = "other" => otherDepth > 0
              /\ call[u] \in EntryCall => entryDepth > 0
BY DepthsCount DEF Foes, InEntry, InOther, EntryCall

(* A call that has looked goes on or leaves, and reports no overlap now.   *)
LEMMA MovingOn ==
  ASSUME TypeOK, OverlapInv, NEW t \in Threads, pc[t] \in Inside \ Looking,
         NEW p \in {"idle"} \cup (Inside \ Looking), Goto(t, p),
         call' = call, met' = met,
         \A u \in Threads : "E04" \in reported'[u] <=> "E04" \in reported[u]
  PROVE  OverlapInv'
<1>1. \A u \in Threads : pc'[u] \in Inside => pc[u] \in Inside
  BY DEF TypeOK, Goto, Inside, Looking
<1>2. \A u \in Threads : pc'[u] \in Inside \ Looking
                            => pc[u] \in Inside \ Looking
  BY DEF TypeOK, Goto, Inside, Looking
<1>3. \A u \in Threads : Foes(u, call[u])' \subseteq Foes(u, call[u])
  BY <1>1 DEF Foes
<1>4. Meeting'
  BY <1>1, <1>3 DEF OverlapInv, Meeting
<1>5. EntriesReported'
  BY <1>1 DEF OverlapInv, EntriesReported, InEntry
<1>6. Looked' \subseteq Looked
  BY <1>2 DEF Looked
<1>7. OverlapReported'
  BY <1>3, <1>6 DEF OverlapInv, OverlapReported, Looked
<1>8. OverlapReal'
  BY <1>1 DEF OverlapInv, OverlapReal
<1> QED BY <1>4, <1>5, <1>7, <1>8 DEF OverlapInv

(* A call enters: the foes it meets learn of it.                           *)
LEMMA Entering ==
  ASSUME TypeOK, OverlapInv, NEW t \in Threads, NEW c \in Call, Begin(t, c),
         NEW p \in Looking, Goto(t, p), NEW r \in SUBSET Codes,
         reported' = [reported EXCEPT ![t] = r],
         c \in EntryCall => ("E04" \in r <=> entryDepth > 0),
         c = "other" => r = {}
  PROVE  OverlapInv'
<1>1. \A u \in Threads : u # t => /\ pc'[u] = pc[u] /\ call'[u] = call[u]
                                   /\ reported'[u] = reported[u]
  BY DEF TypeOK, Begin, Goto
<1>m. /\ \A u \in Threads : u # t => met'[u] = (met[u] \/ u \in Foes(t, c))
      /\ met'[t] = (Foes(t, c) # {})
  BY DEF Begin
<1>2. /\ pc[t] = "idle" /\ pc'[t] = p /\ call'[t] = c /\ reported'[t] = r
      /\ p \in Inside /\ p \notin Inside \ Looking
  BY DEF TypeOK, Begin, Goto, Inside
<1>3. Foes(t, call[t])' = Foes(t, c)
  <2>1. Foes(t, call[t])' =
          {u \in Threads \ {t} : pc'[u] \in Inside
             /\ (call'[t] \in EntryCall \/ call'[u] \in EntryCall)}
    BY DEF Foes
  <2>2. \A u \in Threads \ {t} : pc'[u] = pc[u] /\ call'[u] = call[u]
    BY <1>1
  <2> QED BY <2>1, <2>2, <1>2 DEF Foes
<1>4. \A u \in Threads : u # t =>
        Foes(u, call[u])' \subseteq Foes(u, call[u]) \cup {t}
  BY <1>1 DEF Foes
<1>5. \A u \in Threads : u # t /\ t \in Foes(u, call[u])'
                            /\ pc[u] \in Inside => u \in Foes(t, c)
  BY <1>1, <1>2 DEF Foes
<1>6. Meeting'
  <2> SUFFICES ASSUME NEW u \in Threads, pc'[u] \in Inside,
                      Foes(u, call[u])' # {}
               PROVE  met'[u]
    BY DEF Meeting
  <2>1. CASE u = t
    BY <2>1, <1>m, <1>3
  <2>2. CASE u # t /\ t \in Foes(u, call[u])'
    BY <2>2, <1>1, <1>m, <1>5
  <2>3. CASE u # t /\ t \notin Foes(u, call[u])'
    BY <2>3, <1>1, <1>m, <1>4 DEF OverlapInv, Meeting
  <2> QED BY <2>1, <2>2, <2>3
<1>7. EntriesReported'
  <2>1. CASE c \in EntryCall
    <3>1. InEntry' = InEntry \cup {t}
      BY <2>1, <1>1, <1>2 DEF InEntry
    <3>2. InEntry # {} => "E04" \in r
      BY <2>1, DepthsCount
    <3> QED BY <3>1, <3>2, <1>1, <1>2
            DEF OverlapInv, EntriesReported, InEntry
  <2>2. CASE c = "other"
    <3>1. InEntry' = InEntry
      BY <2>2, <1>1, <1>2 DEF InEntry, EntryCall, Inside, Looking
    <3> QED BY <3>1, <1>1, <1>2
            DEF OverlapInv, EntriesReported, InEntry, Inside, Looking
  <2> QED BY <2>1, <2>2 DEF Call
<1>8. OverlapReported'
  <2>1. Looked' = Looked /\ t \notin Looked
    BY <1>1, <1>2 DEF Looked, Inside, Looking
  <2> QED BY <2>1, <1>1, <1>4 DEF OverlapInv, OverlapReported, Looked
<1>9. OverlapReal'
  <2>1. "E04" \in r => Foes(t, c) # {}
    BY DepthsCount, <1>2 DEF Foes, InEntry, Call, Inside, Looking
  <2> QED BY <2>1, <1>1, <1>2, <1>m DEF OverlapInv, OverlapReal
<1> QED BY <1>6, <1>7, <1>8, <1>9 DEF OverlapInv

(* A call looks: it sees every foe that is inside with it.                 *)
LEMMA LookingRound ==
  ASSUME TypeOK, OverlapInv, NEW t \in Threads, pc[t] \in Looking,
         NEW p \in Inside \ Looking, Goto(t, p), call' = call, met' = met,
         NEW seen \in SUBSET Codes,
         reported' = [reported EXCEPT ![t] = @ \cup seen],
         InOrder /\ call[t] \in EntryCall
           => ("E04" \in seen <=> otherDepth > 0),
         InOrder /\ call[t] = "other"
           => ("E04" \in seen <=> entryDepth > 0)
  PROVE  OverlapInv'
<1>1. \A u \in Threads : u # t => /\ pc'[u] = pc[u]
                                   /\ reported'[u] = reported[u]
  BY DEF TypeOK, Goto
<1>2. /\ pc[t] \in Inside /\ pc'[t] = p /\ p \in Inside
      /\ reported'[t] = reported[t] \cup seen
  BY DEF TypeOK, Goto, Inside
<1>3. \A u \in Threads : pc'[u] \in Inside <=> pc[u] \in Inside
  BY <1>1, <1>2
<1>4. \A u \in Threads : Foes(u, call[u])' = Foes(u, call[u])
  BY <1>3 DEF Foes
<1>5. InEntry' = InEntry
  BY <1>3 DEF InEntry
<1>6. call[t] \in Call
  BY DEF TypeOK
<1>7. Meeting'
  BY <1>3, <1>4 DEF OverlapInv, Meeting
<1>8. EntriesReported'
  BY <1>1, <1>2, <1>5 DEF OverlapInv, EntriesReported, InEntry
<1>9. InOrder => \A u \in Foes(t, call[t]) :
                   "E04" \in reported'[t] \cup reported'[u]
  <2> SUFFICES ASSUME InOrder, NEW u \in Foes(t, call[t])
               PROVE  "E04" \in reported'[t] \cup reported'[u]
    OBVIOUS
  <2>1. u \in Threads /\ u # t /\ call[u] \in Call
    BY DEF Foes, TypeOK
  <2>2. CASE call[t] \in EntryCall /\ call[u] \in EntryCall
    <3>1. t \in InEntry /\ u \in InEntry
      BY <2>1, <2>2, <1>2 DEF Foes, InEntry
    <3> QED BY <3>1, <2>1, <1>1, <1>2 DEF OverlapInv, EntriesReported
  <2>3. CASE call[t] \in EntryCall /\ call[u] = "other"
    BY <2>3, <1>2, DepthShowsFoe
  <2>4. CASE call[t] = "other"
    <3>1. call[u] \in EntryCall
      BY <2>4 DEF Foes, EntryCall
    <3> QED BY <2>4, <3>1, <1>2, DepthShowsFoe
  <2> QED BY <2>1, <2>2, <2>3, <2>4, <1>6 DEF Call
<1>10. OverlapReported'
  <2> SUFFICES ASSUME InOrder, NEW v \in Looked', NEW w \in Looked',
                      w \in Foes(v, call[v])
               PROVE  "E04" \in reported'[v] \cup reported'[w]
    BY <1>4 DEF OverlapReported, Looked
  <2>1. v \in Threads /\ w \in Threads /\ v # w
    BY DEF Looked, Foes
  <2>2. CASE v = t
    BY <2>2, <1>9
  <2>3. CASE w = t
    <3>1. pc[v] \in Inside
      BY <1>3, <2>1 DEF Looked
    <3>2. v \in Foes(t, call[t])
      BY <2>1, <2>3, <3>1, FoesSymmetric
    <3> QED BY <2>3, <3>2, <1>9
  <2>4. CASE v # t /\ w # t
    BY <2>1, <2>4, <1>1 DEF OverlapInv, OverlapReported, Looked
  <2> QED BY <2>2, <2>3, <2>4
<1>11. OverlapReal'
  <2>1. InOrder /\ "E04" \in seen => met[t]
    BY <1>2, <1>6, DepthShowsFoe DEF OverlapInv, Meeting, Call
  <2> QED BY <2>1, <1>1, <1>2, <1>3 DEF OverlapInv, OverlapReal
<1> QED BY <1>7, <1>8, <1>10, <1>11 DEF OverlapInv

LEMMA OverlapInit == Init => OverlapInv
BY DEF Init, OverlapInv, Meeting, EntriesReported, OverlapReported,
       OverlapReal, InEntry, Looked, Foes, Inside, Looking

LEMMA OverlapNext == TypeOK /\ Stages /\ OverlapInv /\ [Next]_vars => OverlapInv'
<1> SUFFICES ASSUME TypeOK, Stages, OverlapInv, [Next]_vars
             PROVE  OverlapInv'
  OBVIOUS
<1>1. ASSUME NEW t \in Threads, NEW c \in EntryCall, EntryEnter(t, c)
      PROVE  OverlapInv'
  <2>1. /\ If(entryDepth > 0, "E04") \in SUBSET Codes
        /\ "E04" \in If(entryDepth > 0, "E04") <=> entryDepth > 0
    BY DEF If, Codes
  <2>2. c \in Call /\ "others" \in Looking /\ c # "other"
    BY DEF Call, EntryCall, Looking
  <2> QED BY <1>1, <2>1, <2>2, Entering DEF EntryEnter
<1>2. ASSUME NEW t \in Threads, OtherEnter(t) PROVE OverlapInv'
  <2>1. /\ "other" \in Call /\ "entries" \in Looking /\ {} \in SUBSET Codes
        /\ "other" \notin EntryCall
    BY DEF Call, EntryCall, Looking
  <2> QED BY <1>2, <2>1, Entering DEF OtherEnter
<1>3. ASSUME NEW t \in Threads, EntryLookOthers(t) PROVE OverlapInv'
  <2>0. PICK depth \in Seen(otherDepth) : Report(t, depth > 0, "E04")
    BY <1>3 DEF EntryLookOthers
  <2>1. /\ If(depth > 0, "E04") \in SUBSET Codes
        /\ InOrder => ("E04" \in If(depth > 0, "E04") <=> otherDepth > 0)
    BY DEF If, Codes, Seen
  <2>2. PICK p \in {"bump", "load"} : Goto(t, p)
    BY <1>3 DEF EntryLookOthers
  <2>3. /\ p \in Inside \ Looking /\ pc[t] \in Looking
        /\ call[t] \in EntryCall /\ call[t] # "other"
    BY <1>3 DEF EntryLookOthers, Inside, Looking, EntryCall, Stages
  <2>4. call' = call /\ met' = met
    BY <1>3 DEF EntryLookOthers
  <2> QED BY <2>0, <2>1, <2>2, <2>3, <2>4, LookingRound DEF Report
<1>4. ASSUME NEW t \in Threads, OtherLookEntries(t) PROVE OverlapInv'
  <2>0. PICK depth \in Seen(entryDepth) : Report(t, depth > 0, "E04")
    BY <1>4 DEF OtherLookEntries
  <2>1. /\ If(depth > 0, "E04") \in SUBSET Codes
        /\ InOrder => ("E04" \in If(depth > 0, "E04") <=> entryDepth > 0)
    BY DEF If, Codes, Seen
  <2>2. /\ "check" \in Inside \ Looking /\ pc[t] \in Looking
        /\ call[t] = "other" /\ call[t] \notin EntryCall
    BY <1>4 DEF OtherLookEntries, Inside, Looking, EntryCall, Stages
  <2> QED BY <1>4, <2>0, <2>1, <2>2, LookingRound
          DEF OtherLookEntries, Report
<1>5. ASSUME NEW t \in Threads, NEW p \in {"idle"} \cup (Inside \ Looking),
             pc[t] \in Inside \ Looking, Goto(t, p), call' = call, met' = met,
             NEW seen, "E04" \notin seen,
             reported' = [reported EXCEPT ![t] = @ \cup seen]
      PROVE  OverlapInv'
  <2>1. \A u \in Threads : "E04" \in reported'[u] <=> "E04" \in reported[u]
    BY <1>5 DEF TypeOK
  <2> QED BY <1>5, <2>1, MovingOn
<1> DEFINE Onward(t) == /\ pc[t] \in Inside \ Looking
                        /\ call' = call /\ met' = met
<1>6. /\ {"idle", "leave", "drop"} \subseteq {"idle"} \cup (Inside \ Looking)
      /\ {"bump", "load", "drop", "check", "leave"} \subseteq Inside \ Looking
  BY DEF Inside, Looking
<1>7. ASSUME NEW t \in Threads, InitBump(t) PROVE OverlapInv'
  <2>1. Onward(t) /\ Goto(t, "leave") /\ "E04" \notin If(initCount > 0, "E02")
    BY <1>6, <1>7 DEF InitBump, If
  <2> QED BY <1>5, <1>6, <1>7, <2>1 DEF InitBump, Report
<1>8. ASSUME NEW t \in Threads, DeinitLoad(t) PROVE OverlapInv'
  <2>1. Onward(t) /\ "E04" \notin If(initCount = 0, "E03")
    BY <1>6, <1>8 DEF DeinitLoad, If
  <2>2. PICK p \in {"leave", "drop"} : Goto(t, p)
    BY <1>8 DEF DeinitLoad
  <2> QED BY <1>5, <1>6, <1>8, <2>1, <2>2 DEF DeinitLoad, Report
<1>9. ASSUME NEW t \in Threads, OtherCheck(t) PROVE OverlapInv'
  <2>1. Onward(t) /\ Goto(t, "leave") /\ "E04" \notin If(initCount = 0, "E01")
    BY <1>6, <1>9 DEF OtherCheck, If
  <2> QED BY <1>5, <1>6, <1>9, <2>1 DEF OtherCheck, Report
<1>10. ASSUME NEW t \in Threads,
              DeinitDrop(t) \/ EntryLeave(t) \/ OtherLeave(t)
       PROVE  OverlapInv'
  <2>1. /\ Onward(t)
        /\ \A u \in Threads : "E04" \in reported'[u] <=> "E04" \in reported[u]
    BY <1>6, <1>10 DEF DeinitDrop, EntryLeave, OtherLeave
  <2>2. PICK p \in {"idle", "leave"} : Goto(t, p)
    BY <1>10 DEF DeinitDrop, EntryLeave, OtherLeave
  <2> QED BY <1>6, <2>1, <2>2, MovingOn
<1>11. CASE UNCHANGED vars
  <2>1. /\ InEntry' = InEntry /\ Looked' = Looked
        /\ \A t \in Threads : Foes(t, call[t])' = Foes(t, call[t])
    BY <1>11 DEF vars, InEntry, Looked, Foes
  <2>2. pc' = pc /\ call' = call /\ reported' = reported /\ met' = met
    BY <1>11 DEF vars
  <2> QED BY <2>1, <2>2 DEF OverlapInv, Meeting, EntriesReported,
                            OverlapReported, OverlapReal, Looked
<1> QED BY <1>1, <1>2, <1>3, <1>4, <1>7, <1>8, <1>9, <1>10, <1>11 DEF Next

(* In a build that keeps a call's two accesses in order, E04 misses no     *)
(* overlap of two calls that have both looked while inside together, and   *)
(* is reported of no call that overlapped none.  The theorems below need   *)
(* no such order.                                                          *)
THEOREM OverlapsDetected == Spec => [](OverlapReported /\ OverlapReal)
<1>1. TypeOK /\ Stages /\ OverlapInv /\ [Next]_vars
        => (TypeOK /\ Stages /\ OverlapInv)'
  BY TypeNext, StagesNext, OverlapNext
<1>2. OverlapInv => OverlapReported /\ OverlapReal
  BY DEF OverlapInv
<1> QED BY <1>1, <1>2, TypeInit, StagesInit, OverlapInit, PTL DEF Spec

-----------------------------------------------------------------------------
(* The count, while no deinit() has overlapped an entry call: then the     *)
(* entry calls inside are all init(), and the count is ahead of the        *)
(* returned calls by those that have counted; or there is one deinit(), at *)
(* a stage that says how far it has got.                                   *)
Bumped == {t \in InEntry : pc[t] = "leave"}

OnlyInits == \A t \in InEntry : call[t] = "init"

DeinitStage(t) ==
  /\ pc[t] \in {"others", "load"} => initCount = balance
  /\ pc[t] = "drop" => initCount = balance /\ balance > 0
  /\ pc[t] = "leave" =>
       initCount = IF balance > 0 THEN balance - 1 ELSE 0

CountInv ==
  ~clashed =>
    /\ \A t, u \in InEntry : t # u => call[t] = "init"
    /\ OnlyInits => initCount = balance + Cardinality(Bumped)
    /\ \A t \in InEntry : call[t] = "deinit" => DeinitStage(t)

LEMMA BumpedFinite == TypeOK => IsFiniteSet(Bumped)
BY DepthsCount, FS_Subset DEF Bumped

LEMMA CountInit == Init => CountInv
<1> SUFFICES ASSUME Init PROVE CountInv
  OBVIOUS
<1>1. InEntry = {} /\ Bumped = {}
  BY DEF Init, InEntry, Bumped, Inside, Looking
<1> QED BY <1>1, FS_EmptySet DEF Init, CountInv

LEMMA CountNext == TypeOK /\ Stages /\ CountInv /\ [Next]_vars => CountInv'
<1> SUFFICES ASSUME TypeOK, Stages, CountInv, [Next]_vars, ~clashed'
             PROVE  CountInv'
  BY DEF CountInv
<1>0. ~clashed
  BY DEF TypeOK, Next, EntryEnter, OtherEnter, Begin, EntryLookOthers,
         EntryLeave, InitBump, DeinitLoad, DeinitDrop, OtherLookEntries,
         OtherCheck, OtherLeave, vars
<1>B. IsFiniteSet(Bumped) /\ Cardinality(Bumped) \in Nat
  BY BumpedFinite, FS_CardinalityType
<1>1. ASSUME NEW t \in Threads, NEW c \in EntryCall, EntryEnter(t, c)
      PROVE  CountInv'
  <2>1. /\ t \notin InEntry /\ InEntry' = InEntry \cup {t}
    BY <1>1, InsideGrows DEF EntryEnter, Begin, Inside, Looking, Call
  <2>2. /\ pc'[t] = "others" /\ call'[t] = c
        /\ \A u \in InEntry : pc'[u] = pc[u] /\ call'[u] = call[u]
    BY <1>1, <2>1 DEF EntryEnter, Begin, Goto, TypeOK, InEntry
  <2>3. initCount' = initCount /\ balance' = balance
    BY <1>1 DEF EntryEnter
  <2>4. \A u \in InEntry : c = "init" /\ call[u] = "init"
    <3>1. \A u \in InEntry : u \in Foes(t, c) /\ call[u] \in EntryCall
      BY <2>1 DEF InEntry, Foes
    <3> QED BY <1>1, <3>1 DEF EntryEnter, Begin, EntryCall
  <2>5. Bumped' = Bumped
    BY <2>1, <2>2 DEF Bumped
  <2>6. CASE c = "init"
    BY <1>0, <2>1, <2>2, <2>3, <2>4, <2>5, <2>6 DEF CountInv, OnlyInits
  <2>7. CASE c = "deinit"
    <3>1. InEntry = {} /\ Bumped = {}
      BY <2>4, <2>7 DEF Bumped
    <3>2. initCount = balance
      BY <1>0, <3>1, FS_EmptySet DEF CountInv, OnlyInits, TypeOK
    <3> QED BY <2>1, <2>2, <2>3, <2>7, <3>1, <3>2
            DEF CountInv, OnlyInits, DeinitStage
  <2> QED BY <2>6, <2>7 DEF EntryCall
<1>2. ASSUME NEW t \in Threads, InitBump(t) PROVE CountInv'
  <2>1. InEntry' = InEntry /\ t \in InEntry /\ call' = call /\ call[t] = "init"
    BY <1>2, InsideStays
       DEF InitBump, Stages, Inside, Looking, InEntry, EntryCall
  <2>2. OnlyInits
    BY <1>0, <2>1 DEF CountInv, OnlyInits
  <2>3. Bumped' = Bumped \cup {t} /\ t \notin Bumped
    BY <1>2, <2>1 DEF InitBump, Goto, TypeOK, Bumped, InEntry
  <2>4. Cardinality(Bumped)' = Cardinality(Bumped) + 1
    BY <1>B, <2>3, FS_AddElement
  <2>5. initCount' = balance' + Cardinality(Bumped)'
    BY <1>0, <1>2, <1>B, <2>2, <2>4 DEF InitBump, CountInv, TypeOK
  <2> QED BY <2>1, <2>2, <2>5, <1>0 DEF CountInv, OnlyInits, TypeOK
<1>3. ASSUME NEW t \in Threads, EntryLeave(t), call[t] = "init"
      PROVE  CountInv'
  <2>1. /\ t \in InEntry /\ InEntry' = InEntry \ {t} /\ call' = call
    BY <1>3, InsideShrinks DEF EntryLeave, EntryCall
  <2>2. OnlyInits
    BY <1>0, <1>3, <2>1 DEF CountInv, OnlyInits
  <2>3. Bumped' = Bumped \ {t} /\ t \in Bumped
    BY <1>3, <2>1 DEF EntryLeave, Goto, TypeOK, Bumped, InEntry
  <2>4. Cardinality(Bumped)' = Cardinality(Bumped) - 1
    BY <1>B, <2>3, FS_RemoveElement
  <2>5. initCount' = balance' + Cardinality(Bumped)'
    BY <1>0, <1>3, <1>B, <2>2, <2>4 DEF EntryLeave, CountInv, TypeOK
  <2> QED BY <2>1, <2>2, <2>5, <1>0 DEF CountInv, OnlyInits, TypeOK
<1>4. ASSUME NEW t \in Threads, call[t] = "deinit", t \in InEntry,
             pc[t] # "others" \/ EntryLookOthers(t),
             \/ EntryLookOthers(t) \/ DeinitLoad(t) \/ DeinitDrop(t)
      PROVE  CountInv'
  <2>1. InEntry' = InEntry /\ call' = call /\ balance' = balance
    BY <1>4, InsideStays
       DEF EntryLookOthers, DeinitLoad, DeinitDrop, Inside, Looking
  <2>2. InEntry = {t} /\ ~OnlyInits
    BY <1>0, <1>4 DEF CountInv, OnlyInits
  <2>3. DeinitStage(t)
    BY <1>0, <1>4 DEF CountInv
  <2>4. DeinitStage(t)'
    BY <1>4, <2>3 DEF EntryLookOthers, DeinitLoad, DeinitDrop, DeinitStage,
                      Goto, TypeOK
  <2> QED BY <1>4, <2>1, <2>2, <2>4 DEF CountInv, OnlyInits
<1>5. ASSUME NEW t \in Threads, EntryLeave(t), call[t] = "deinit"
      PROVE  CountInv'
  <2>1. /\ t \in InEntry /\ InEntry' = InEntry \ {t}
    BY <1>5, InsideShrinks DEF EntryLeave, EntryCall
  <2>2. InEntry = {t} /\ DeinitStage(t)
    BY <1>0, <1>5, <2>1 DEF CountInv
  <2>3. InEntry' = {} /\ Bumped' = {}
    BY <2>1, <2>2 DEF Bumped
  <2>4. initCount' = balance'
    BY <1>5, <2>2 DEF EntryLeave, DeinitStage, TypeOK
  <2>5. balance' \in Nat
    BY <1>5 DEF EntryLeave, TypeOK
  <2>6. Cardinality(Bumped)' = 0
    BY <2>3, FS_EmptySet
  <2> QED BY <2>3, <2>4, <2>5, <2>6 DEF CountInv
<1>6. ASSUME InEntry' = InEntry, initCount' = initCount, balance' = balance,
             \A u \in InEntry : pc'[u] = pc[u] /\ call'[u] = call[u]
      PROVE  CountInv'
  <2>1. Bumped' = Bumped
    BY <1>6 DEF Bumped
  <2>2. \A u \in InEntry : DeinitStage(u)' <=> DeinitStage(u)
    BY <1>6 DEF DeinitStage
  <2> QED BY <1>0, <1>6, <2>1, <2>2 DEF CountInv, OnlyInits
<1>7. ASSUME NEW t \in Threads, EntryLookOthers(t), call[t] = "init"
      PROVE  CountInv'
  <2>1. InEntry' = InEntry /\ call' = call /\ t \in InEntry
    BY <1>7, InsideStays
       DEF EntryLookOthers, Inside, Looking, InEntry, EntryCall
  <2>2. OnlyInits
    BY <1>0, <1>7, <2>1 DEF CountInv, OnlyInits
  <2>3. Bumped' = Bumped
    BY <1>7, <2>1 DEF EntryLookOthers, Goto, TypeOK, Bumped, InEntry
  <2> QED BY <1>0, <1>7, <2>1, <2>2, <2>3
          DEF EntryLookOthers, CountInv, OnlyInits
<1>8. ASSUME NEW t \in Threads,
             OtherLookEntries(t) \/ OtherCheck(t)
      PROVE  CountInv'
  <2>1. InEntry' = InEntry /\ t \notin InEntry
    BY <1>8, InsideStays DEF OtherLookEntries, OtherCheck, Stages, Inside,
                             Looking, InEntry, EntryCall
  <2> QED BY <1>6, <1>8, <2>1
          DEF OtherLookEntries, OtherCheck, Goto, TypeOK, InEntry
<1>9. ASSUME NEW t \in Threads, OtherEnter(t) PROVE CountInv'
  <2>1. InEntry' = InEntry /\ t \notin InEntry
    BY <1>9, InsideGrows DEF OtherEnter, Begin, Inside, Looking, Call
  <2> QED BY <1>6, <1>9, <2>1 DEF OtherEnter, Begin, Goto, TypeOK, InEntry
<1>10. ASSUME NEW t \in Threads, OtherLeave(t) PROVE CountInv'
  <2>1. InEntry' = InEntry /\ t \notin InEntry
    BY <1>10, InsideShrinks DEF OtherLeave, InEntry, EntryCall
  <2> QED BY <1>6, <1>10, <2>1 DEF OtherLeave, Goto, TypeOK, InEntry
<1>11. CASE UNCHANGED vars
  <2>1. InEntry' = InEntry
    BY <1>11 DEF vars, InEntry
  <2> QED BY <1>6, <1>11, <2>1 DEF vars
<1>12. ASSUME NEW t \in Threads, DeinitLoad(t) \/ DeinitDrop(t)
       PROVE  CountInv'
  <2>1. t \in InEntry /\ call[t] = "deinit" /\ pc[t] # "others"
    BY <1>12 DEF DeinitLoad, DeinitDrop, Stages, InEntry, EntryCall, Inside
  <2> QED BY <1>4, <1>12, <2>1
<1>13. ASSUME NEW t \in Threads, EntryLookOthers(t) PROVE CountInv'
  <2>1. t \in InEntry /\ call[t] \in EntryCall
    BY <1>13 DEF EntryLookOthers, Stages, InEntry, Inside, Looking
  <2> QED BY <1>4, <1>7, <1>13, <2>1 DEF EntryCall
<1>14. ASSUME NEW t \in Threads, EntryLeave(t) PROVE CountInv'
  BY <1>3, <1>5, <1>14 DEF EntryLeave, EntryCall
<1> QED BY <1>1, <1>2, <1>8, <1>9, <1>10, <1>11, <1>12, <1>13, <1>14 DEF Next

(* The count behind E01, E02 and E03 is the count of the calls that have   *)
(* returned, as long as no deinit() overlaps an entry call.                *)
THEOREM CountIsRight == Spec => []CountIsBalance
<1>1. TypeOK /\ CountInv => CountIsBalance
  <2> SUFFICES ASSUME TypeOK, CountInv, ~clashed, InEntry = {}
               PROVE  initCount = balance
    BY DEF CountIsBalance
  <2>1. Bumped = {} /\ OnlyInits
    BY DEF Bumped, OnlyInits
  <2> QED BY <2>1, FS_EmptySet DEF CountInv, TypeOK
<1>2. TypeOK /\ Stages /\ CountInv /\ [Next]_vars
        => (TypeOK /\ Stages /\ CountInv)'
  BY TypeNext, StagesNext, CountNext
<1> QED BY <1>1, <1>2, TypeInit, StagesInit, CountInit, PTL DEF Spec

-----------------------------------------------------------------------------
(* The reports of a call that has met no call it must not.  Until its last *)
(* access it has reported no overlap and none of E01..E03; from then on    *)
(* they say what the balance says, which nobody changes while it is inside.*)
Charged(t) ==
  /\ call[t] = "other"  => ("E01" \in reported[t] <=> balance = 0)
  /\ call[t] = "init"   => ("E02" \in reported[t] <=> balance > 0)
  /\ call[t] = "deinit" => ("E03" \in reported[t] <=> balance = 0)

Uncharged(t) == reported[t] \cap {"E01", "E02", "E03"} = {}

ChargeInv ==
  ~clashed =>
    \A t \in Threads : pc[t] \in Inside /\ ~met[t] =>
      IF pc[t] = "leave" THEN Charged(t) ELSE Uncharged(t)

(* Such a call has the count to itself: it goes by the balance.            *)
LEMMA AloneCounts ==
  ASSUME TypeOK, Stages, Meeting, CountInv, ~clashed,
         NEW t \in Threads, pc[t] \in Inside, ~met[t]
  PROVE  /\ pc[t] \in {"bump", "load", "check"} => initCount = balance
         /\ pc[t] = "drop" => balance > 0
<1>1. Foes(t, call[t]) = {}
  BY DEF Meeting
<1>2. CASE pc[t] = "check"
  <2>1. InEntry = {} /\ Bumped = {} /\ OnlyInits
    BY <1>1, <1>2 DEF Stages, Foes, InEntry, Bumped, OnlyInits, EntryCall
  <2> QED BY <1>2, <2>1, FS_EmptySet DEF CountInv, TypeOK
<1>3. CASE pc[t] = "bump"
  <2>1. InEntry \subseteq {t} /\ call[t] = "init"
    BY <1>1, <1>3 DEF Stages, Foes, InEntry, EntryCall
  <2>2. Bumped = {} /\ OnlyInits
    BY <1>3, <2>1 DEF Bumped, OnlyInits
  <2> QED BY <1>3, <2>2, FS_EmptySet DEF CountInv, TypeOK
<1>4. CASE pc[t] \in {"load", "drop"}
  <2>1. t \in InEntry /\ call[t] = "deinit"
    BY <1>4 DEF Stages, InEntry, EntryCall
  <2> QED BY <1>4, <2>1 DEF CountInv, DeinitStage
<1> QED BY <1>2, <1>3, <1>4

LEMMA ChargeInit == Init => ChargeInv
BY DEF Init, ChargeInv, Inside, Looking

(* What a step of thread u leaves of the others inside.                    *)
LEMMA OthersKeep ==
  ASSUME TypeOK, Meeting, ChargeInv, ~clashed, NEW u \in Threads,
         NEW t \in Threads \ {u}, pc'[t] = pc[t], call'[t] = call[t],
         reported'[t] = reported[t], pc[t] \in Inside, ~met[t],
         balance' = balance \/ (pc[u] \in Inside /\ call[u] \in EntryCall)
  PROVE  IF pc'[t] = "leave" THEN Charged(t)' ELSE Uncharged(t)'
<1>1. Foes(t, call[t]) = {}
  BY DEF Meeting
<1>2. balance' = balance
  BY <1>1 DEF Foes
<1> QED BY <1>2 DEF ChargeInv, Charged, Uncharged

LEMMA ChargeNext ==
  TypeOK /\ Stages /\ Meeting /\ CountInv /\ ChargeInv /\ [Next]_vars
    => ChargeInv'
<1> SUFFICES ASSUME TypeOK, Stages, Meeting, CountInv, ChargeInv,
                    [Next]_vars, ~clashed',
                    NEW t \in Threads, pc'[t] \in Inside, ~met'[t]
             PROVE  IF pc'[t] = "leave" THEN Charged(t)' ELSE Uncharged(t)'
  BY DEF ChargeInv, Inside
<1>0. ~clashed
  BY DEF TypeOK, Next, EntryEnter, OtherEnter, Begin, EntryLookOthers,
         EntryLeave, InitBump, DeinitLoad, DeinitDrop, OtherLookEntries,
         OtherCheck, OtherLeave, vars
<1>1. CASE UNCHANGED vars
  BY <1>0, <1>1 DEF vars, ChargeInv, Charged,
                    Uncharged
<1>2. ASSUME NEW u \in Threads \ {t},
             \/ \E c \in EntryCall : EntryEnter(u, c)
             \/ EntryLookOthers(u) \/ EntryLeave(u) \/ InitBump(u)
             \/ DeinitLoad(u) \/ DeinitDrop(u) \/ OtherEnter(u)
             \/ OtherLookEntries(u) \/ OtherCheck(u) \/ OtherLeave(u)
      PROVE  IF pc'[t] = "leave" THEN Charged(t)' ELSE Uncharged(t)'
  <2>1. /\ pc'[t] = pc[t] /\ call'[t] = call[t]
        /\ reported'[t] = reported[t]
    BY <1>2 DEF EntryEnter, OtherEnter, Begin, EntryLookOthers, EntryLeave,
                InitBump, DeinitLoad, DeinitDrop, OtherLookEntries,
                OtherCheck, OtherLeave, Report, Goto, TypeOK
  <2>2. ~met[t]
    BY <1>2 DEF EntryEnter, OtherEnter, Begin, EntryLookOthers, EntryLeave,
                InitBump, DeinitLoad, DeinitDrop, OtherLookEntries,
                OtherCheck, OtherLeave
  <2>3. balance' = balance \/ (pc[u] \in Inside /\ call[u] \in EntryCall)
    BY <1>2 DEF EntryEnter, OtherEnter, Begin, EntryLookOthers, EntryLeave,
                InitBump, DeinitLoad, DeinitDrop, OtherLookEntries,
                OtherCheck, OtherLeave, Inside
  <2> QED BY <1>0, <2>1, <2>2, <2>3, OthersKeep
<1>3. ASSUME NEW c \in EntryCall, EntryEnter(t, c)
      PROVE  Uncharged(t)' /\ pc'[t] = "others"
  BY <1>3 DEF EntryEnter, Goto, TypeOK, If, Uncharged
<1>4. CASE OtherEnter(t)
  BY <1>4 DEF OtherEnter, Goto, TypeOK, Uncharged
<1> USE DEF TypeOK, Goto, Report, If
<1>5. CASE EntryLookOthers(t) \/ OtherLookEntries(t)
  <2>1. pc[t] \in Looking /\ ~met[t] /\ pc'[t] \in {"bump", "load", "check"}
    BY <1>5 DEF EntryLookOthers, OtherLookEntries, Looking
  <2>2. reported'[t] \subseteq reported[t] \cup {"E04"}
    BY <1>5 DEF EntryLookOthers, OtherLookEntries
  <2>3. Uncharged(t)
    BY <1>0, <2>1 DEF ChargeInv, Inside, Looking
  <2> QED BY <2>1, <2>2, <2>3 DEF Uncharged
<1>6. CASE InitBump(t)
  <2>1. call[t] = "init" /\ initCount = balance /\ Uncharged(t)
    BY <1>0, <1>6, AloneCounts
       DEF InitBump, Stages, ChargeInv, Inside
  <2> QED BY <1>6, <2>1 DEF InitBump, Charged, Uncharged
<1>7. CASE DeinitLoad(t)
  <2>1. call[t] = "deinit" /\ initCount = balance /\ Uncharged(t)
    BY <1>0, <1>7, AloneCounts
       DEF DeinitLoad, Stages, ChargeInv, Inside
  <2> QED BY <1>7, <2>1 DEF DeinitLoad, Charged, Uncharged
<1>8. CASE DeinitDrop(t)
  <2>1. call[t] = "deinit" /\ balance > 0 /\ Uncharged(t)
    BY <1>0, <1>8, AloneCounts
       DEF DeinitDrop, Stages, ChargeInv, Inside
  <2> QED BY <1>8, <2>1 DEF DeinitDrop, Charged, Uncharged
<1>9. CASE OtherCheck(t)
  <2>1. call[t] = "other" /\ initCount = balance /\ Uncharged(t)
    BY <1>0, <1>9, AloneCounts
       DEF OtherCheck, Stages, ChargeInv, Inside
  <2> QED BY <1>9, <2>1 DEF OtherCheck, Charged, Uncharged
<1>10. ~EntryLeave(t) /\ ~OtherLeave(t)
  BY DEF EntryLeave, OtherLeave, Inside, Looking
<1> QED BY <1>1, <1>2, <1>3, <1>4, <1>5, <1>6, <1>7, <1>8, <1>9, <1>10
        DEF Next

(* E01, E02 and E03 are right for every call that met no call it must not. *)
THEOREM ReportsAreRight == Spec => []CountReportsRight
<1>1. TypeOK /\ ChargeInv => CountReportsRight
  BY DEF TypeOK, Call, EntryCall, ChargeInv, Charged, CountReportsRight,
         Inside
<1>2. TypeOK /\ Stages /\ OverlapInv /\ CountInv /\ ChargeInv /\ [Next]_vars
        => (TypeOK /\ Stages /\ OverlapInv /\ CountInv /\ ChargeInv)'
  BY TypeNext, StagesNext, OverlapNext, CountNext, ChargeNext DEF OverlapInv
<1> QED BY <1>1, <1>2, TypeInit, StagesInit, OverlapInit, CountInit,
           ChargeInit, PTL DEF Spec
=============================================================================
