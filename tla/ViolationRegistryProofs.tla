---------------------- MODULE ViolationRegistryProofs ----------------------
(***************************************************************************)
(* As long as nobody clears the registry, the log throttle is exact and a  *)
(* walk over the indices that distinct() gave never falls off the end: for *)
(* any threads, codes, thresholds and interleaving of the accesses. With   *)
(* clear() or without, the total says what the counters sum up to.         *)
(***************************************************************************)
EXTENDS ViolationRegistry, FiniteSetTheorems, WellFoundedInduction, TLAPS

Places == Nat \ {0}
Local == [code : Nat, n : Nat, noted : BOOLEAN, at : Places, seen : Nat,
          index : Nat, known : Nat]

RegistryTypes ==
  /\ counters \in [Codes -> Nat]
  /\ calls \in [Codes -> [reports : Nat, notes : Nat]]
  /\ lines \in [Codes -> [Occurrences -> Nat]]
  /\ pc \in [Threads -> {"idle"} \cup Recording \cup Scanning]
  /\ loc \in [Threads -> Local]
  /\ missed \in BOOLEAN

(* A thread that records holds an occurrence number of its own, already    *)
(* counted; it goes on to the log only with one that is due.               *)
NumbersHeld ==
  /\ \A t \in Threads : pc[t] \in Recording =>
       /\ loc[t].code \in Codes /\ 1 <= loc[t].n
       /\ loc[t].n <= counters[loc[t].code]
       /\ loc[t].noted => calls[loc[t].code].notes # 0
       /\ pc[t] = "emit" => Logged(loc[t].n)
  /\ \A t, u \in Threads :
       /\ t # u /\ pc[t] \in Recording /\ pc[u] \in Recording
       /\ loc[t].code = loc[u].code
       => loc[t].n # loc[u].n
  /\ \A c \in Codes : counters[c] = calls[c].reports + calls[c].notes

InHands(c, n) ==
  \E t \in Threads : pc[t] \in Recording /\ loc[t].code = c /\ loc[t].n = n

(* The log has the occurrences that are due and out of hand, once each.    *)
LinesExact ==
  \A c \in Codes, n \in Occurrences :
    calls[c].notes = 0 =>
      lines[c][n] = IF n <= counters[c] /\ Logged(n) /\ ~InHands(c, n)
                    THEN 1 ELSE 0

(* The walks: what distinct() has counted is there, and a get() has passed *)
(* no more codes than it has counted of a set that is larger than its      *)
(* index.                                                                  *)
NonZero == {c \in Codes : counters[c] > 0}
Below(S, at) == {c \in S : c < at}

GetOnCourse(t) ==
  /\ loc[t].seen <= loc[t].index
  /\ \E S \in SUBSET NonZero :
       /\ loc[t].index < Cardinality(S)
       /\ Cardinality(Below(S, loc[t].at)) <= loc[t].seen

WalksInside ==
  /\ ~missed
  /\ \A t \in Threads :
       /\ loc[t].known <= Cardinality(NonZero)
       /\ pc[t] = "distinct" =>
            loc[t].seen <= Cardinality(Below(NonZero, loc[t].at))
       /\ pc[t] = "get" => GetOnCourse(t)

Body == RegistryTypes /\ NumbersHeld /\ LinesExact /\ WalksInside

(* A clear() ends all that.                                                *)
RegistryInv == clears \in Nat /\ (clears = 0 => Body)

OtherThreads(t) ==
  \A u \in Threads \ {t} : pc'[u] = pc[u] /\ loc'[u] = loc[u]
-----------------------------------------------------------------------------
LEMMA NonZeroFinite ==
  ASSUME NEW S \in SUBSET Codes
  PROVE  IsFiniteSet(S) /\ Cardinality(S) \in Nat
<1>1. IsFiniteSet(Codes)
  <2>1. 1 \in Int /\ NCodes \in Int
    BY RegistryAssumption
  <2> QED BY <2>1, FS_Interval DEF Codes
<1>2. IsFiniteSet(S)
  BY <1>1, FS_Subset
<1> QED BY <1>2, FS_CardinalityType

(* Nothing is counted, held or logged at the start.                        *)
LEMMA RegistryInit == Init => RegistryInv
<1> SUFFICES ASSUME Init PROVE RegistryInv
  OBVIOUS
<1>0. clears \in Nat
  BY DEF Init
<1>1. RegistryTypes
  <2>p. 1 \in Places
    BY DEF Places
  <2>1. NoLocals \in Local
    BY <2>p DEF NoLocals, Local
  <2>2. [reports |-> 0, notes |-> 0] \in [reports : Nat, notes : Nat]
    OBVIOUS
  <2>3. missed \in BOOLEAN
    BY DEF Init
  <2> QED BY <2>1, <2>2, <2>3 DEF Init, RegistryTypes
<1>2. NumbersHeld
  BY DEF Init, NumbersHeld, Recording
<1>3. LinesExact
  BY DEF Init, LinesExact, Occurrences
<1>4. WalksInside
  <2>1. ~missed /\ \A t \in Threads : pc[t] = "idle" /\ loc[t].known = 0
    BY DEF Init, NoLocals
  <2>2. Cardinality(NonZero) \in Nat
    BY NonZeroFinite DEF NonZero
  <2> QED BY <2>1, <2>2 DEF WalksInside
<1> QED BY <1>0, <1>1, <1>2, <1>3, <1>4 DEF Body, RegistryInv

(* Return() leaves a thread idle, with what it knew.                       *)
LEMMA Returning ==
  ASSUME RegistryTypes, NEW t \in Threads, NEW k \in Nat, Return(t, k)
  PROVE  /\ pc' \in [Threads -> {"idle"} \cup Recording \cup Scanning]
         /\ loc' \in [Threads -> Local]
         /\ pc'[t] = "idle" /\ loc'[t].known = k
         /\ OtherThreads(t)
<1>p. 1 \in Places
  BY DEF Places
<1>1. [NoLocals EXCEPT !.known = k] \in Local
       /\ [NoLocals EXCEPT !.known = k].known = k
  BY <1>p DEF NoLocals, Local
<1> QED BY <1>1 DEF RegistryTypes, Return, Goto, OtherThreads

(* A thread that takes no part in the counting before or after its step.   *)
LEMMA NumbersAside ==
  ASSUME RegistryTypes, NumbersHeld, LinesExact, NEW t \in Threads,
         OtherThreads(t), counters' = counters, calls' = calls,
         lines' = lines,
         \/ pc[t] \notin Recording /\ pc'[t] \notin Recording
         \/ /\ pc[t] \in Recording /\ pc'[t] \in Recording
            /\ loc'[t] = loc[t] /\ (pc'[t] = "emit" => Logged(loc[t].n))
  PROVE  NumbersHeld' /\ LinesExact'
<1>1. \A u \in Threads : pc'[u] \in Recording =>
        pc[u] \in Recording /\ loc'[u] = loc[u]
  BY DEF OtherThreads
<1>2. \A u \in Threads : pc[u] \in Recording =>
        pc'[u] \in Recording /\ loc'[u] = loc[u]
  BY DEF OtherThreads
<1>3. \A u \in Threads : pc'[u] = "emit" => Logged(loc[u].n)
  BY <1>1 DEF OtherThreads, NumbersHeld, Recording
<1>4. NumbersHeld'
  <2>1. \A u \in Threads : pc'[u] \in Recording =>
          /\ loc'[u].code \in Codes /\ 1 <= loc'[u].n
          /\ loc'[u].n <= counters'[loc'[u].code]
          /\ loc'[u].noted => calls'[loc'[u].code].notes # 0
          /\ pc'[u] = "emit" => Logged(loc'[u].n)
    BY <1>1, <1>3 DEF NumbersHeld
  <2>2. \A v, u \in Threads :
          /\ v # u /\ pc'[v] \in Recording /\ pc'[u] \in Recording
          /\ loc'[v].code = loc'[u].code
          => loc'[v].n # loc'[u].n
    BY <1>1 DEF NumbersHeld
  <2>3. \A c \in Codes : counters'[c] = calls'[c].reports + calls'[c].notes
    BY DEF NumbersHeld
  <2> QED BY <2>1, <2>2, <2>3 DEF NumbersHeld, Logged
<1>5. \A c \in Codes, n \in Occurrences : InHands(c, n)' <=> InHands(c, n)
  BY <1>1, <1>2 DEF InHands
<1>6. LinesExact'
  BY <1>5 DEF LinesExact, Logged
<1> QED BY <1>4, <1>6

(* A thread that keeps the counters and is in no walk after its step.      *)
LEMMA WalksAside ==
  ASSUME RegistryTypes, WalksInside, NEW t \in Threads, OtherThreads(t),
         counters' = counters, missed' = missed,
         loc'[t].known = loc[t].known, pc'[t] \notin {"distinct", "get"}
  PROVE  WalksInside'
<1>1. NonZero' = NonZero
  BY DEF NonZero
<1>2. \A u \in Threads : loc'[u].known = loc[u].known
  BY DEF OtherThreads
<1>3. ASSUME NEW u \in Threads \ {t}, pc'[u] = "get" PROVE GetOnCourse(u)'
  <2>1. GetOnCourse(u) /\ loc'[u] = loc[u]
    BY <1>3 DEF OtherThreads, WalksInside
  <2> QED BY <1>1, <2>1 DEF GetOnCourse, Below
<1>4. ASSUME NEW u \in Threads \ {t}, pc'[u] = "distinct"
      PROVE  loc'[u].seen <= Cardinality(Below(NonZero', loc'[u].at))
  BY <1>1, <1>4 DEF OtherThreads, WalksInside
<1> QED BY <1>1, <1>2, <1>3, <1>4 DEF WalksInside, Below

(* The fetch_add: the new number is above all that are held.               *)
LEMMA CountKeeps ==
  ASSUME Body, NEW t \in Threads, NEW c \in Codes, NEW noted \in BOOLEAN,
         Count(t, c, noted)
  PROVE  Body'
<1> USE DEF Body
<1>1. /\ pc[t] = "idle" /\ pc' = [pc EXCEPT ![t] = "total"]
      /\ counters' = [counters EXCEPT ![c] = @ + 1]
      /\ lines' = lines /\ missed' = missed
  BY DEF Count, At, Goto
<1>2. /\ loc'[t].code = c /\ loc'[t].n = counters[c] + 1
      /\ loc'[t].noted = noted /\ loc'[t].known = loc[t].known
      /\ loc'[t] \in Local
  <2>1. loc'[t] = [loc[t] EXCEPT !.code = c, !.n = counters[c] + 1,
                                 !.noted = noted]
    BY DEF Count, RegistryTypes
  <2>2. loc[t] \in Local /\ counters[c] + 1 \in Nat /\ c \in Nat
    BY DEF RegistryTypes, Codes
  <2> QED BY <2>1, <2>2 DEF Local
<1>3. OtherThreads(t)
  BY DEF OtherThreads, Count, Goto, RegistryTypes
<1>4. /\ calls' \in [Codes -> [reports : Nat, notes : Nat]]
      /\ calls'[c].reports + calls'[c].notes
           = (calls[c].reports + calls[c].notes) + 1
      /\ \A d \in Codes \ {c} : calls'[d] = calls[d]
      /\ \A d \in Codes : calls'[d].notes = 0 => calls[d].notes = 0
      /\ noted => calls'[c].notes # 0
  <2>1. /\ calls \in [Codes -> [reports : Nat, notes : Nat]]
        /\ calls[c] \in [reports : Nat, notes : Nat]
        /\ calls[c].reports \in Nat /\ calls[c].notes \in Nat
    BY DEF RegistryTypes
  <2>2. CASE noted
    <3> DEFINE r == [calls[c] EXCEPT !.notes = @ + 1]
    <3>1. calls' = [calls EXCEPT ![c] = r]
      BY <2>2 DEF Count
    <3>2. /\ r \in [reports : Nat, notes : Nat]
          /\ r.reports = calls[c].reports /\ r.notes = calls[c].notes + 1
      BY <2>1
    <3> HIDE DEF r
    <3>3. /\ calls' \in [Codes -> [reports : Nat, notes : Nat]]
          /\ calls'[c] = r /\ \A d \in Codes \ {c} : calls'[d] = calls[d]
      BY <2>1, <3>1, <3>2
    <3>4. calls'[c].notes # 0
      BY <2>1, <3>2, <3>3
    <3>5. calls'[c].reports + calls'[c].notes
            = (calls[c].reports + calls[c].notes) + 1
      BY <2>1, <3>2, <3>3
    <3> QED BY <3>3, <3>4, <3>5
  <2>3. CASE ~noted
    <3> DEFINE r == [calls[c] EXCEPT !.reports = @ + 1]
    <3>1. calls' = [calls EXCEPT ![c] = r]
      BY <2>3 DEF Count
    <3>2. /\ r \in [reports : Nat, notes : Nat]
          /\ r.notes = calls[c].notes /\ r.reports = calls[c].reports + 1
      BY <2>1
    <3> HIDE DEF r
    <3>3. /\ calls' \in [Codes -> [reports : Nat, notes : Nat]]
          /\ calls'[c] = r /\ \A d \in Codes \ {c} : calls'[d] = calls[d]
      BY <2>1, <3>1, <3>2
    <3>5. calls'[c].reports + calls'[c].notes
            = (calls[c].reports + calls[c].notes) + 1
      BY <2>1, <3>2, <3>3
    <3> QED BY <2>3, <3>2, <3>3, <3>5
  <2> QED BY <2>2, <2>3
<1>5. RegistryTypes'
  <2>1. counters' \in [Codes -> Nat]
    BY <1>1 DEF RegistryTypes
  <2>2. pc' \in [Threads -> {"idle"} \cup Recording \cup Scanning]
    BY <1>1 DEF RegistryTypes, Recording
  <2>3. loc' \in [Threads -> Local]
    <3>1. /\ DOMAIN loc' = Threads
          /\ loc' = [loc EXCEPT ![t] = [loc[t] EXCEPT !.code = c,
                         !.n = counters[c] + 1, !.noted = noted]]
      BY DEF Count, RegistryTypes
    <3>2. \A u \in Threads : loc'[u] \in Local
      BY <1>2, <1>3 DEF OtherThreads, RegistryTypes
    <3>3. [loc[t] EXCEPT !.code = c, !.n = counters[c] + 1,
                         !.noted = noted] \in Local
      BY <1>2, <3>1 DEF RegistryTypes
    <3> QED BY <3>1, <3>3 DEF RegistryTypes
  <2> QED BY <1>1, <1>4, <2>1, <2>2, <2>3 DEF RegistryTypes
<1>6. \A d \in Codes : /\ counters[d] \in Nat /\ counters'[d] \in Nat
                       /\ counters[d] <= counters'[d]
                       /\ d # c => counters'[d] = counters[d]
      /\ counters'[c] = counters[c] + 1
  BY <1>1 DEF RegistryTypes
<1>7. NumbersHeld'
  <2>1. ASSUME NEW u \in Threads, pc'[u] \in Recording
        PROVE  /\ loc'[u].code \in Codes /\ 1 <= loc'[u].n
               /\ loc'[u].n <= counters'[loc'[u].code]
               /\ loc'[u].noted => calls'[loc'[u].code].notes # 0
               /\ pc'[u] = "emit" => Logged(loc'[u].n)
    <3>1. CASE u = t
      BY <3>1, <1>1, <1>2, <1>4, <1>6 DEF RegistryTypes
    <3>2. CASE u # t
      <4>1. pc'[u] = pc[u] /\ loc'[u] = loc[u]
        BY <3>2, <1>3 DEF OtherThreads
      <4>2. /\ loc[u].code \in Codes /\ 1 <= loc[u].n
            /\ loc[u].n <= counters[loc[u].code]
            /\ loc[u].noted => calls[loc[u].code].notes # 0
            /\ pc[u] = "emit" => Logged(loc[u].n)
        BY <2>1, <4>1 DEF NumbersHeld
      <4>3. loc[u].n \in Nat
        BY DEF RegistryTypes, Local
      <4> QED BY <1>4, <1>6, <4>1, <4>2, <4>3
    <3> QED BY <3>1, <3>2
  <2>2. ASSUME NEW v \in Threads, NEW u \in Threads, v # u,
               pc'[v] \in Recording, pc'[u] \in Recording,
               loc'[v].code = loc'[u].code
        PROVE  loc'[v].n # loc'[u].n
    <3>1. \A w \in Threads \ {t} :
            /\ pc'[w] = pc[w] /\ loc'[w] = loc[w] /\ loc[w].n \in Nat
            /\ pc[w] \in Recording => loc[w].n <= counters[loc[w].code]
      BY <1>3 DEF OtherThreads, NumbersHeld, RegistryTypes, Local
    <3>2. CASE v = t
      BY <2>2, <3>1, <3>2, <1>2, <1>6
    <3>3. CASE u = t
      BY <2>2, <3>1, <3>3, <1>2, <1>6
    <3>4. CASE u # t /\ v # t
      BY <2>2, <3>1, <3>4 DEF NumbersHeld
    <3> QED BY <3>2, <3>3, <3>4
  <2>3. \A d \in Codes : counters'[d] = calls'[d].reports + calls'[d].notes
    BY <1>4, <1>6 DEF NumbersHeld
  <2> QED BY <2>1, <2>2, <2>3 DEF NumbersHeld, Logged
<1>8. LinesExact'
  <2> SUFFICES ASSUME NEW d \in Codes, NEW n \in Occurrences,
                      calls'[d].notes = 0
               PROVE  lines[d][n] =
                        IF n <= counters'[d] /\ Logged(n) /\ ~InHands(d, n)'
                        THEN 1 ELSE 0
    BY <1>1 DEF LinesExact, Logged
  <2>1. lines[d][n] = IF n <= counters[d] /\ Logged(n) /\ ~InHands(d, n)
                      THEN 1 ELSE 0
    BY <1>4 DEF LinesExact
  <2>2. n \in Nat
    BY DEF Occurrences
  <2>3. CASE d = c /\ n = counters[c] + 1
    <3>1. InHands(d, n)'
      BY <2>3, <1>1, <1>2 DEF InHands, Recording, RegistryTypes
    <3> QED BY <2>1, <2>2, <2>3, <3>1, <1>6
  <2>4. CASE ~(d = c /\ n = counters[c] + 1)
    <3>1. InHands(d, n)' <=> InHands(d, n)
      <4>1. pc'[t] \in Recording /\ pc[t] \notin Recording
        BY <1>1 DEF Recording, RegistryTypes
      <4>2. ~(loc'[t].code = d /\ loc'[t].n = n)
        BY <2>4, <1>2
      <4> QED BY <4>1, <4>2, <1>3 DEF InHands, OtherThreads
    <3>2. n <= counters'[d] <=> n <= counters[d]
      BY <2>2, <2>4, <1>6
    <3> QED BY <2>1, <3>1, <3>2
  <2> QED BY <2>3, <2>4
<1>9. WalksInside'
  <2>1. NonZero \subseteq NonZero'
    BY <1>6 DEF NonZero
  <2>2. Cardinality(NonZero) <= Cardinality(NonZero')
    <3>1. IsFiniteSet(NonZero')
      BY NonZeroFinite DEF NonZero
    <3> QED BY <2>1, <3>1, FS_Subset
  <2>k. Cardinality(NonZero) \in Nat /\ Cardinality(NonZero') \in Nat
    BY NonZeroFinite DEF NonZero
  <2>3. ASSUME NEW u \in Threads PROVE loc'[u].known <= Cardinality(NonZero')
    <3>1. loc'[u].known = loc[u].known /\ loc[u].known \in Nat
      BY <1>2, <1>3 DEF OtherThreads, RegistryTypes, Local
    <3>2. loc[u].known <= Cardinality(NonZero)
      BY DEF WalksInside
    <3> QED BY <3>1, <3>2, <2>2, <2>k
  <2>4. ASSUME NEW u \in Threads, pc'[u] = "distinct"
        PROVE  loc'[u].seen <= Cardinality(Below(NonZero', loc'[u].at))
    <3>1. u # t /\ pc[u] = "distinct" /\ loc'[u] = loc[u]
      BY <2>4, <1>1, <1>3 DEF OtherThreads, RegistryTypes
    <3>2. loc[u].seen <= Cardinality(Below(NonZero, loc[u].at))
      BY <3>1 DEF WalksInside
    <3>3. Below(NonZero, loc[u].at) \subseteq Below(NonZero', loc[u].at)
      BY <2>1 DEF Below
    <3>4. /\ IsFiniteSet(Below(NonZero', loc[u].at))
          /\ Cardinality(Below(NonZero', loc[u].at)) \in Nat
          /\ Cardinality(Below(NonZero, loc[u].at)) \in Nat
      BY NonZeroFinite DEF Below, NonZero
    <3>5. Cardinality(Below(NonZero, loc[u].at))
            <= Cardinality(Below(NonZero', loc[u].at))
      BY <3>3, <3>4, FS_Subset
    <3>6. loc[u].seen \in Nat
      BY DEF RegistryTypes, Local
    <3> QED BY <3>1, <3>2, <3>4, <3>5, <3>6
  <2>5. ASSUME NEW u \in Threads, pc'[u] = "get" PROVE GetOnCourse(u)'
    <3>1. u # t /\ pc[u] = "get" /\ loc'[u] = loc[u]
      BY <2>5, <1>1, <1>3 DEF OtherThreads, RegistryTypes
    <3>2. GetOnCourse(u)
      BY <3>1 DEF WalksInside
    <3> QED BY <2>1, <3>1, <3>2 DEF GetOnCourse, Below
  <2>6. ~missed'
    BY <1>1 DEF WalksInside
  <2> QED BY <2>3, <2>4, <2>5, <2>6 DEF WalksInside
<1> QED BY <1>5, <1>7, <1>8, <1>9

(* What is dropped without a line was not due, or the code has notes.      *)
LEMMA DropKeeps ==
  ASSUME RegistryTypes, NumbersHeld, LinesExact, NEW t \in Threads,
         OtherThreads(t), counters' = counters, calls' = calls,
         lines' = lines, pc[t] \in Recording, pc'[t] = "idle",
         loc[t].noted \/ ~Logged(loc[t].n)
  PROVE  NumbersHeld' /\ LinesExact'
<1>1. \A u \in Threads : pc'[u] \in Recording =>
        u # t /\ pc[u] = pc'[u] /\ loc'[u] = loc[u]
  BY DEF OtherThreads, Recording
<1>2. NumbersHeld'
  <2>1. \A u \in Threads : pc'[u] \in Recording =>
          /\ loc'[u].code \in Codes /\ 1 <= loc'[u].n
          /\ loc'[u].n <= counters'[loc'[u].code]
          /\ loc'[u].noted => calls'[loc'[u].code].notes # 0
          /\ pc'[u] = "emit" => Logged(loc'[u].n)
    BY <1>1 DEF NumbersHeld
  <2>2. \A v, u \in Threads :
          /\ v # u /\ pc'[v] \in Recording /\ pc'[u] \in Recording
          /\ loc'[v].code = loc'[u].code
          => loc'[v].n # loc'[u].n
    BY <1>1 DEF NumbersHeld
  <2>3. \A c \in Codes : counters'[c] = calls'[c].reports + calls'[c].notes
    BY DEF NumbersHeld
  <2> QED BY <2>1, <2>2, <2>3 DEF NumbersHeld, Logged
<1>3. LinesExact'
  <2> SUFFICES ASSUME NEW d \in Codes, NEW n \in Occurrences,
                      calls[d].notes = 0
               PROVE  lines[d][n] =
                        IF n <= counters[d] /\ Logged(n) /\ ~InHands(d, n)'
                        THEN 1 ELSE 0
    BY DEF LinesExact, Logged
  <2>1. lines[d][n] = IF n <= counters[d] /\ Logged(n) /\ ~InHands(d, n)
                      THEN 1 ELSE 0
    BY DEF LinesExact
  <2>2. CASE loc[t].code = d /\ loc[t].n = n
    <3>1. loc[t].noted => calls[loc[t].code].notes # 0
      BY DEF NumbersHeld
    <3> QED BY <2>1, <2>2, <3>1
  <2>3. CASE ~(loc[t].code = d /\ loc[t].n = n)
    <3>1. InHands(d, n)' <=> InHands(d, n)
      BY <1>1, <2>3 DEF InHands, OtherThreads
    <3> QED BY <2>1, <3>1
  <2> QED BY <2>2, <2>3
<1> QED BY <1>2, <1>3

LEMMA AfterRecordKeeps ==
  ASSUME Body, NEW t \in Threads, pc[t] \in {"code", "message"},
         AfterRecord(t), counters' = counters, calls' = calls,
         lines' = lines, missed' = missed
  PROVE  Body'
<1> USE DEF Body
<1>0. loc[t] \in Local /\ loc[t].known \in Nat /\ pc[t] \in Recording
  BY DEF RegistryTypes, Local, Recording
<1>1. CASE ~loc[t].noted /\ Logged(loc[t].n)
  <2>1. pc' = [pc EXCEPT ![t] = "emit"] /\ loc' = loc
    BY <1>1 DEF AfterRecord, Goto
  <2>2. /\ OtherThreads(t) /\ pc'[t] = "emit"
        /\ pc' \in [Threads -> {"idle"} \cup Recording \cup Scanning]
    BY <2>1 DEF OtherThreads, RegistryTypes, Recording
  <2>3. RegistryTypes'
    BY <2>1, <2>2 DEF RegistryTypes
  <2>4. NumbersHeld' /\ LinesExact'
    <3>1. pc'[t] \in Recording
      BY <2>2 DEF Recording
    <3> QED BY <1>0, <1>1, <2>1, <2>2, <3>1, NumbersAside
  <2>5. WalksInside'
    BY <2>1, <2>2, WalksAside
  <2> QED BY <2>3, <2>4, <2>5
<1>2. CASE loc[t].noted \/ ~Logged(loc[t].n)
  <2>1. Return(t, loc[t].known)
    BY <1>2 DEF AfterRecord
  <2>2. /\ pc' \in [Threads -> {"idle"} \cup Recording \cup Scanning]
        /\ loc' \in [Threads -> Local]
        /\ pc'[t] = "idle" /\ loc'[t].known = loc[t].known
        /\ OtherThreads(t)
    BY <1>0, <2>1, Returning
  <2>3. RegistryTypes'
    BY <2>2 DEF RegistryTypes
  <2>4. NumbersHeld' /\ LinesExact'
    BY <1>0, <1>2, <2>2, DropKeeps
  <2>5. WalksInside'
    BY <2>2, WalksAside
  <2> QED BY <2>3, <2>4, <2>5
<1> QED BY <1>1, <1>2

(* A step inside the record: the thread goes on with the same number.      *)
LEMMA StepOnKeeps ==
  ASSUME Body, NEW t \in Threads, NEW p \in {"code", "message"},
         pc[t] \in {"total", "code"}, Goto(t, p), loc' = loc,
         counters' = counters, calls' = calls, lines' = lines,
         missed' = missed
  PROVE  Body'
<1> USE DEF Body
<1>1. /\ OtherThreads(t) /\ pc'[t] = p
      /\ pc' \in [Threads -> {"idle"} \cup Recording \cup Scanning]
  BY DEF OtherThreads, Goto, RegistryTypes, Recording
<1>2. RegistryTypes'
  BY <1>1 DEF RegistryTypes
<1>3. NumbersHeld' /\ LinesExact'
  <2>1. pc[t] \in Recording /\ pc'[t] \in Recording /\ pc'[t] # "emit"
    BY <1>1 DEF Recording
  <2> QED BY <1>1, <2>1, NumbersAside
<1>4. WalksInside'
  BY <1>1, WalksAside
<1> QED BY <1>2, <1>3, <1>4

LEMMA RecordKeeps ==
  ASSUME Body, NEW t \in Threads,
         RecordTotal(t) \/ RecordCode(t) \/ RecordMessage(t)
  PROVE  Body'
<1>1. CASE RecordTotal(t)
  BY <1>1, StepOnKeeps DEF RecordTotal, At, ghosts
<1>2. CASE RecordCode(t)
  <2>1. CASE loc[t].n <= FullReports
    BY <1>2, <2>1, StepOnKeeps DEF RecordCode, At, ghosts
  <2>2. CASE ~(loc[t].n <= FullReports)
    BY <1>2, <2>2, AfterRecordKeeps DEF RecordCode, At, ghosts
  <2> QED BY <2>1, <2>2
<1>3. CASE RecordMessage(t)
  BY <1>3, AfterRecordKeeps DEF RecordMessage, At, ghosts
<1> QED BY <1>1, <1>2, <1>3

LEMMA OneMore ==
  ASSUME NEW S, NEW f \in [S -> Nat], NEW n
  PROVE  /\ [f EXCEPT ![n] = f[n] + 1] \in [S -> Nat]
         /\ n \in S => [f EXCEPT ![n] = f[n] + 1][n] = f[n] + 1
         /\ \A m \in S : m # n => [f EXCEPT ![n] = f[n] + 1][m] = f[m]
<1>1. CASE n \in S
  <2>1. f[n] + 1 \in Nat
    BY <1>1
  <2> QED BY <1>1, <2>1
<1>2. CASE n \notin S
  <2>1. [f EXCEPT ![n] = f[n] + 1] = f
    BY <1>2
  <2> QED BY <1>2, <2>1
<1> QED BY <1>1, <1>2

(* The line of a number that was in hand is its first, and its last.       *)
LEMMA EmitKeeps ==
  ASSUME Body, NEW t \in Threads, Emit(t)
  PROVE  Body'
<1> USE DEF Body
<1> DEFINE c == loc[t].code
           n == loc[t].n
           row == [lines[c] EXCEPT ![n] = @ + 1]
<1>0. /\ loc[t] \in Local /\ loc[t].known \in Nat
      /\ pc[t] = "emit" /\ pc[t] \in Recording
  BY DEF RegistryTypes, Local, Recording, Emit, At
<1>1. /\ c \in Codes /\ 1 <= n /\ n <= counters[c] /\ Logged(n)
      /\ n \in Nat
  BY <1>0 DEF NumbersHeld, Local
<1>2. /\ counters' = counters /\ calls' = calls /\ missed' = missed
      /\ lines' = [lines EXCEPT ![c] = row]
  BY DEF Emit, ghosts
<1>3. /\ pc' \in [Threads -> {"idle"} \cup Recording \cup Scanning]
      /\ loc' \in [Threads -> Local]
      /\ pc'[t] = "idle" /\ loc'[t].known = loc[t].known
      /\ OtherThreads(t)
  <2>1. Return(t, loc[t].known)
    BY DEF Emit
  <2> QED BY <1>0, <2>1, Returning
<1>4. /\ row \in [Occurrences -> Nat]
      /\ n \in Occurrences => row[n] = lines[c][n] + 1
      /\ \A m \in Occurrences : m # n => row[m] = lines[c][m]
  <2> DEFINE old == lines[c]
  <2>1. old \in [Occurrences -> Nat]
    BY <1>1 DEF RegistryTypes
  <2>2. row = [old EXCEPT ![n] = old[n] + 1]
    OBVIOUS
  <2> HIDE DEF old, row
  <2>3. /\ row \in [Occurrences -> Nat]
        /\ n \in Occurrences => row[n] = old[n] + 1
        /\ \A m \in Occurrences : m # n => row[m] = old[m]
    BY <2>1, <2>2, OneMore
  <2> QED BY <2>3 DEF old
<1> HIDE DEF row
<1>5. /\ lines' \in [Codes -> [Occurrences -> Nat]]
      /\ lines'[c] = row /\ \A d \in Codes : d # c => lines'[d] = lines[d]
  BY <1>1, <1>2, <1>4 DEF RegistryTypes
<1>6. RegistryTypes'
  BY <1>2, <1>3, <1>5 DEF RegistryTypes
<1>7. \A u \in Threads : pc'[u] \in Recording =>
        u # t /\ pc[u] = pc'[u] /\ loc'[u] = loc[u]
  BY <1>3 DEF OtherThreads, Recording
<1>8. NumbersHeld'
  <2>1. \A u \in Threads : pc'[u] \in Recording =>
          /\ loc'[u].code \in Codes /\ 1 <= loc'[u].n
          /\ loc'[u].n <= counters'[loc'[u].code]
          /\ loc'[u].noted => calls'[loc'[u].code].notes # 0
          /\ pc'[u] = "emit" => Logged(loc'[u].n)
    BY <1>2, <1>7 DEF NumbersHeld
  <2>2. \A v, u \in Threads :
          /\ v # u /\ pc'[v] \in Recording /\ pc'[u] \in Recording
          /\ loc'[v].code = loc'[u].code
          => loc'[v].n # loc'[u].n
    BY <1>7 DEF NumbersHeld
  <2>3. \A d \in Codes : counters'[d] = calls'[d].reports + calls'[d].notes
    BY <1>2 DEF NumbersHeld
  <2> QED BY <2>1, <2>2, <2>3 DEF NumbersHeld, Logged
<1>9. LinesExact'
  <2> SUFFICES ASSUME NEW d \in Codes, NEW m \in Occurrences,
                      calls[d].notes = 0
               PROVE  lines'[d][m] =
                        IF m <= counters[d] /\ Logged(m) /\ ~InHands(d, m)'
                        THEN 1 ELSE 0
    BY <1>2 DEF LinesExact, Logged
  <2>1. lines[d][m] = IF m <= counters[d] /\ Logged(m) /\ ~InHands(d, m)
                      THEN 1 ELSE 0
    BY DEF LinesExact
  <2>2. CASE d = c /\ m = n
    <3>1. InHands(d, m) /\ ~InHands(d, m)'
      BY <1>0, <1>7, <2>2 DEF InHands, NumbersHeld
    <3>2. lines'[d][m] = lines[d][m] + 1
      BY <1>4, <1>5, <2>2
    <3>3. lines[d][m] = 0
      BY <2>1, <3>1
    <3>4. m <= counters[d] /\ Logged(m)
      BY <1>1, <2>2
    <3> QED BY <3>1, <3>2, <3>3, <3>4
  <2>3. CASE ~(d = c /\ m = n)
    <3>a. \A u \in Threads \ {t} : pc'[u] = pc[u] /\ loc'[u] = loc[u]
      BY <1>3 DEF OtherThreads
    <3>b. pc'[t] \notin Recording
      BY <1>3 DEF Recording
    <3>1. InHands(d, m)' <=> InHands(d, m)
      BY <3>a, <3>b, <2>3 DEF InHands
    <3>2. lines'[d][m] = lines[d][m]
      BY <1>4, <1>5, <2>3
    <3> QED BY <2>1, <3>1, <3>2
  <2> QED BY <2>2, <2>3
<1>10. WalksInside'
  BY <1>2, <1>3, WalksAside
<1> QED BY <1>6, <1>8, <1>9, <1>10
-----------------------------------------------------------------------------
(* A thread that begins a walk or ends one keeps the rest as it is.        *)
LEMMA ScanStep ==
  ASSUME Body, NEW t \in Threads, OtherThreads(t),
         pc[t] \notin Recording, pc'[t] \in {"idle"} \cup Scanning,
         pc' \in [Threads -> {"idle"} \cup Recording \cup Scanning],
         loc' \in [Threads -> Local],
         counters' = counters, calls' = calls, lines' = lines,
         missed' = missed,
         loc'[t].known <= Cardinality(NonZero),
         pc'[t] = "distinct" =>
           loc'[t].seen <= Cardinality(Below(NonZero, loc'[t].at)),
         pc'[t] = "get" => GetOnCourse(t)'
  PROVE  Body'
<1> USE DEF Body
<1>1. RegistryTypes'
  BY DEF RegistryTypes
<1>2. NumbersHeld' /\ LinesExact'
  <2>1. pc'[t] \notin Recording
    BY DEF Recording, Scanning
  <2> QED BY <2>1, NumbersAside
<1>3. WalksInside'
  <2>1. NonZero' = NonZero
    BY DEF NonZero
  <2>2. ~missed'
    BY DEF WalksInside
  <2>3. ASSUME NEW u \in Threads
        PROVE  /\ loc'[u].known <= Cardinality(NonZero)
               /\ pc'[u] = "distinct" =>
                    loc'[u].seen <= Cardinality(Below(NonZero, loc'[u].at))
    BY DEF OtherThreads, WalksInside
  <2>4. ASSUME NEW u \in Threads, pc'[u] = "get" PROVE GetOnCourse(u)'
    <3>1. CASE u = t
      BY <2>4, <3>1
    <3>2. CASE u # t
      <4>1. GetOnCourse(u) /\ loc'[u] = loc[u]
        BY <2>4, <3>2 DEF OtherThreads, WalksInside
      <4> QED BY <2>1, <4>1 DEF GetOnCourse, Below
    <3> QED BY <3>1, <3>2
  <2> QED BY <2>1, <2>2, <2>3, <2>4 DEF WalksInside, Below
<1> QED BY <1>1, <1>2, <1>3

(* A walk begins before the first code, with nothing counted.              *)
LEMMA ReadBeginKeeps ==
  ASSUME Body, NEW t \in Threads, NEW what \in {"distinct", "get"},
         NEW index \in Nat, ReadBegin(t, what, index)
  PROVE  Body'
<1> USE DEF Body
<1>1. /\ pc[t] = "idle" /\ pc' = [pc EXCEPT ![t] = what]
      /\ counters' = counters /\ calls' = calls /\ lines' = lines
      /\ missed' = missed
  BY DEF ReadBegin, At, Goto, shared
<1>2. /\ loc' = [loc EXCEPT ![t] = loc'[t]]
      /\ loc'[t] \in Local /\ loc'[t].at = 1 /\ loc'[t].seen = 0
      /\ loc'[t].index = index /\ loc'[t].known = loc[t].known
  <2>1. /\ loc' = [loc EXCEPT ![t] = [loc[t] EXCEPT !.at = 1, !.seen = 0,
                                                   !.index = index]]
        /\ loc'[t] = [loc[t] EXCEPT !.at = 1, !.seen = 0, !.index = index]
    BY DEF ReadBegin, RegistryTypes
  <2>2. loc[t] \in Local /\ 1 \in Places /\ 0 \in Nat
    BY DEF RegistryTypes, Places
  <2>3. /\ loc'[t] \in Local /\ loc'[t].at = 1 /\ loc'[t].seen = 0
        /\ loc'[t].index = index /\ loc'[t].known = loc[t].known
    <3> DEFINE l == [loc[t] EXCEPT !.at = 1, !.seen = 0, !.index = index]
    <3>1. l.at = 1 /\ l.seen = 0 /\ l.index = index
          /\ l.known = loc[t].known
      BY <2>2 DEF Local
    <3>2. l \in Local
      BY <2>2 DEF Local, Places
    <3> QED BY <2>1, <3>1, <3>2
  <2> QED BY <2>1, <2>3
<1>3. /\ OtherThreads(t) /\ pc'[t] = what
      /\ pc' \in [Threads -> {"idle"} \cup Recording \cup Scanning]
      /\ loc' \in [Threads -> Local]
  <2>1. OtherThreads(t) /\ pc'[t] = what
    BY <1>1, <1>2 DEF OtherThreads, RegistryTypes
  <2>2. pc' \in [Threads -> {"idle"} \cup Recording \cup Scanning]
    BY <1>1 DEF RegistryTypes, Scanning
  <2>3. loc' \in [Threads -> Local]
    BY <1>2 DEF RegistryTypes
  <2> QED BY <2>1, <2>2, <2>3
<1>4. loc[t].known \in Nat /\ loc[t].known <= Cardinality(NonZero)
  BY DEF RegistryTypes, Local, WalksInside
<1>5. Below(NonZero, 1) = {}
  BY DEF Below, NonZero, Codes
<1>6. Cardinality(Below(NonZero, 1)) = 0
  BY <1>5, FS_EmptySet
<1>7. pc'[t] = "get" => GetOnCourse(t)'
  <2> SUFFICES ASSUME what = "get" PROVE GetOnCourse(t)'
    BY <1>3
  <2>1. index < loc[t].known
    BY DEF ReadBegin
  <2>2. index < Cardinality(NonZero)
    <3>1. Cardinality(NonZero) \in Nat
      BY NonZeroFinite DEF NonZero
    <3> QED BY <1>4, <2>1, <3>1
  <2>3. NonZero' = NonZero
    BY <1>1 DEF NonZero
  <2>4. /\ loc'[t].seen <= loc'[t].index
        /\ NonZero \in SUBSET NonZero'
        /\ loc'[t].index < Cardinality(NonZero)
        /\ Cardinality(Below(NonZero, loc'[t].at)) <= loc'[t].seen
    BY <1>2, <1>6, <2>2, <2>3
  <2> QED BY <2>4 DEF GetOnCourse, Below
<1>8. pc'[t] = "distinct" =>
        loc'[t].seen <= Cardinality(Below(NonZero, loc'[t].at))
  BY <1>2, <1>6
<1>9. pc[t] \notin Recording /\ pc'[t] \in {"idle"} \cup Scanning
  BY <1>1, <1>3 DEF Recording, Scanning
<1> QED BY <1>1, <1>2, <1>3, <1>4, <1>7, <1>8, <1>9, ScanStep

(* One code further: the set below grows by that code at most.             *)
LEMMA OneFurther ==
  ASSUME NEW S \in SUBSET Codes, NEW at \in Nat
  PROVE  /\ Cardinality(Below(S, at)) \in Nat
         /\ Cardinality(Below(S, at + 1)) =
              IF at \in S THEN Cardinality(Below(S, at)) + 1
                          ELSE Cardinality(Below(S, at))
<1>0. \A c \in S : c \in Nat
  BY RegistryAssumption DEF Codes
<1>1. IsFiniteSet(Below(S, at)) /\ Cardinality(Below(S, at)) \in Nat
  BY NonZeroFinite DEF Below
<1>2. at \notin Below(S, at)
  BY DEF Below
<1>3. CASE at \in S
  <2>1. Below(S, at + 1) = Below(S, at) \cup {at}
    <3>1. \A c \in S : c < at + 1 <=> c < at \/ c = at
      BY <1>0
    <3> QED BY <1>3, <3>1 DEF Below
  <2> QED BY <1>1, <1>2, <1>3, <2>1, FS_AddElement
<1>4. CASE at \notin S
  <2>1. Below(S, at + 1) = Below(S, at)
    <3>1. \A c \in S : c < at + 1 <=> c < at
      BY <1>0, <1>4
    <3> QED BY <3>1 DEF Below
  <2> QED BY <1>1, <1>4, <2>1
<1> QED BY <1>3, <1>4

(* Behind the last code, all of a set is below.                            *)
LEMMA AllBelow ==
  ASSUME RegistryTypes, NEW S \in SUBSET Codes, NEW t \in Threads, Walked(t)
  PROVE  Below(S, loc[t].at) = S
<1>1. loc[t].at \in Nat /\ loc[t].at > NCodes /\ NCodes \in Nat
  BY RegistryAssumption DEF RegistryTypes, Local, Places, Walked
<1>2. \A c \in S : c < loc[t].at
  <2>1. ASSUME NEW c \in S PROVE c < loc[t].at
    <3>1. c \in Nat /\ c <= NCodes
      BY <1>1 DEF Codes
    <3> QED BY <1>1, <3>1
  <2> QED BY <2>1
<1> QED BY <1>2 DEF Below

(* The load of one counter by a walk, before its result is judged.         *)
LEMMA WalkStep ==
  ASSUME RegistryTypes, NEW t \in Threads, ~Walked(t),
         loc' = [loc EXCEPT ![t].at = @ + 1,
                   ![t].seen = IF Present(t) THEN @ + 1 ELSE @]
  PROVE  /\ loc' \in [Threads -> Local]
         /\ \A u \in Threads \ {t} : loc'[u] = loc[u]
         /\ loc'[t].at = loc[t].at + 1
         /\ loc'[t].seen = IF Present(t) THEN loc[t].seen + 1
                                         ELSE loc[t].seen
         /\ loc'[t].index = loc[t].index /\ loc'[t].known = loc[t].known
<1> DEFINE l == [loc[t] EXCEPT !.at = @ + 1,
                   !.seen = IF Present(t) THEN @ + 1 ELSE @]
<1>1. loc' = [loc EXCEPT ![t] = l] /\ loc[t] \in Local
  BY DEF RegistryTypes
<1>2. /\ l \in Local /\ l.at = loc[t].at + 1
      /\ l.seen = IF Present(t) THEN loc[t].seen + 1 ELSE loc[t].seen
      /\ l.index = loc[t].index /\ l.known = loc[t].known
  <2>1. loc[t].at + 1 \in Places /\ loc[t].seen + 1 \in Nat
    BY <1>1 DEF Local, Places
  <2>2. CASE Present(t)
    BY <1>1, <2>1, <2>2 DEF Local
  <2>3. CASE ~Present(t)
    BY <1>1, <2>1, <2>3 DEF Local
  <2> QED BY <2>2, <2>3
<1> HIDE DEF l
<1>3. loc'[t] = l /\ \A u \in Threads \ {t} : loc'[u] = loc[u]
  BY <1>1 DEF RegistryTypes
<1>4. loc' \in [Threads -> Local]
  BY <1>1, <1>2 DEF RegistryTypes
<1> QED BY <1>2, <1>3, <1>4

LEMMA DistinctKeeps ==
  ASSUME Body, NEW t \in Threads, Distinct(t)
  PROVE  Body'
<1> USE DEF Body
<1>0. /\ pc[t] = "distinct" /\ pc[t] \notin Recording
      /\ counters' = counters /\ calls' = calls /\ lines' = lines
      /\ missed' = missed
      /\ loc[t].seen \in Nat /\ loc[t].known \in Nat /\ loc[t].at \in Nat
      /\ loc[t].seen <= Cardinality(Below(NonZero, loc[t].at))
      /\ loc[t].known <= Cardinality(NonZero)
  BY DEF Distinct, At, Recording, shared, ghosts, RegistryTypes, Local, Places,
         WalksInside
<1>n. NonZero \in SUBSET Codes
  BY DEF NonZero
<1>1. CASE Walked(t)
  <2>1. Return(t, loc[t].seen)
    BY <1>1 DEF Distinct
  <2>2. /\ pc' \in [Threads -> {"idle"} \cup Recording \cup Scanning]
        /\ loc' \in [Threads -> Local]
        /\ pc'[t] = "idle" /\ loc'[t].known = loc[t].seen
        /\ OtherThreads(t)
    BY <1>0, <2>1, Returning
  <2>3. loc[t].seen <= Cardinality(NonZero)
    BY <1>0, <1>1, <1>n, AllBelow
  <2> QED BY <1>0, <2>2, <2>3, ScanStep
<1>2. CASE ~Walked(t)
  <2>1. /\ loc' = [loc EXCEPT ![t].at = @ + 1,
                     ![t].seen = IF Present(t) THEN @ + 1 ELSE @]
        /\ pc' = pc
    BY <1>2 DEF Distinct
  <2>2. /\ loc' \in [Threads -> Local] /\ OtherThreads(t)
        /\ loc'[t].at = loc[t].at + 1 /\ loc'[t].known = loc[t].known
        /\ loc'[t].seen = IF Present(t) THEN loc[t].seen + 1
                                        ELSE loc[t].seen
    BY <1>2, <2>1, WalkStep DEF OtherThreads
  <2>3. Present(t) <=> loc[t].at \in NonZero
    <3>1. loc[t].at <= NCodes /\ NCodes \in Nat
      BY <1>0, <1>2, RegistryAssumption DEF Walked
    <3>2. loc[t].at # 0
      BY DEF RegistryTypes, Local, Places
    <3>3. loc[t].at \in Codes
      BY <1>0, <3>1, <3>2 DEF Codes
    <3> QED BY <3>3 DEF Present, NonZero
  <2>4. loc'[t].seen <= Cardinality(Below(NonZero, loc'[t].at))
    BY <1>0, <1>n, <2>2, <2>3, OneFurther
  <2>5. pc' \in [Threads -> {"idle"} \cup Recording \cup Scanning]
    BY <2>1 DEF RegistryTypes
  <2>6. pc'[t] = "distinct" /\ pc'[t] \in {"idle"} \cup Scanning
    BY <1>0, <2>1 DEF Scanning
  <2> QED BY <1>0, <2>2, <2>4, <2>5, <2>6, ScanStep
<1> QED BY <1>1, <1>2

(* get() goes on while a code of S that it has not passed is left.         *)
LEMMA GetKeeps ==
  ASSUME Body, NEW t \in Threads, Get(t)
  PROVE  Body'
<1> USE DEF Body
<1>0. /\ pc[t] = "get" /\ pc[t] \notin Recording
      /\ counters' = counters /\ calls' = calls /\ lines' = lines
      /\ loc[t].seen \in Nat /\ loc[t].index \in Nat /\ loc[t].at \in Nat
      /\ loc[t].known <= Cardinality(NonZero) /\ ~missed
  BY DEF Get, At, Recording, shared, RegistryTypes, Local, Places,
         WalksInside
<1>1. GetOnCourse(t)
  BY <1>0 DEF WalksInside
<1>2. PICK S \in SUBSET NonZero :
        /\ loc[t].index < Cardinality(S)
        /\ Cardinality(Below(S, loc[t].at)) <= loc[t].seen
  BY <1>1 DEF GetOnCourse
<1>3. S \in SUBSET Codes /\ loc[t].seen <= loc[t].index
  BY <1>1 DEF NonZero, GetOnCourse
<1>4. Cardinality(S) \in Nat
  BY <1>3, NonZeroFinite
<1>5. ~Walked(t)
  <2> SUFFICES ASSUME Walked(t) PROVE FALSE
    OBVIOUS
  <2>1. Below(S, loc[t].at) = S
    BY <1>3, AllBelow
  <2> QED BY <1>0, <1>2, <1>3, <1>4, <2>1
<1>6. /\ loc' = [loc EXCEPT ![t].at = @ + 1,
                   ![t].seen = IF Present(t) THEN @ + 1 ELSE @]
      /\ missed' = missed
      /\ pc' = [pc EXCEPT ![t] =
                  IF Present(t) /\ loc[t].seen = loc[t].index
                    THEN "copy" ELSE "get"]
  BY <1>5 DEF Get, Goto
<1>7. /\ loc' \in [Threads -> Local] /\ OtherThreads(t)
      /\ loc'[t].at = loc[t].at + 1 /\ loc'[t].known = loc[t].known
      /\ loc'[t].index = loc[t].index
      /\ loc'[t].seen = IF Present(t) THEN loc[t].seen + 1
                                      ELSE loc[t].seen
  BY <1>5, <1>6, WalkStep DEF OtherThreads, RegistryTypes
<1>8. /\ pc' \in [Threads -> {"idle"} \cup Recording \cup Scanning]
      /\ pc'[t] \in {"copy", "get"}
      /\ pc'[t] = "get" => ~(Present(t) /\ loc[t].seen = loc[t].index)
  BY <1>6 DEF RegistryTypes, Scanning
<1>9. pc'[t] = "get" => GetOnCourse(t)'
  <2> SUFFICES ASSUME ~(Present(t) /\ loc[t].seen = loc[t].index)
               PROVE  GetOnCourse(t)'
    BY <1>8
  <2>1. loc'[t].seen <= loc'[t].index
    BY <1>0, <1>3, <1>7
  <2>2. NonZero' = NonZero
    BY <1>0 DEF NonZero
  <2>3. loc[t].at \in S => Present(t)
    BY <1>2 DEF NonZero, Present
  <2>4. Cardinality(Below(S, loc[t].at + 1)) <= loc'[t].seen
    <3>1. /\ Cardinality(Below(S, loc[t].at)) \in Nat
          /\ Cardinality(Below(S, loc[t].at + 1)) =
               IF loc[t].at \in S THEN Cardinality(Below(S, loc[t].at)) + 1
                                  ELSE Cardinality(Below(S, loc[t].at))
      BY <1>0, <1>3, OneFurther
    <3> QED BY <1>0, <1>2, <1>7, <2>3, <3>1
  <2> QED BY <1>2, <1>7, <2>1, <2>2, <2>4 DEF GetOnCourse, Below
<1>10. pc'[t] \in {"idle"} \cup Scanning /\ pc'[t] # "distinct"
  BY <1>8 DEF Scanning
<1> QED BY <1>0, <1>6, <1>7, <1>8, <1>9, <1>10, ScanStep

LEMMA CopyKeeps ==
  ASSUME Body, NEW t \in Threads, CopyMessage(t)
  PROVE  Body'
<1> USE DEF Body
<1>1. /\ pc[t] = "copy" /\ pc[t] \notin Recording
      /\ counters' = counters /\ calls' = calls /\ lines' = lines
      /\ missed' = missed /\ loc[t].known \in Nat
      /\ loc[t].known <= Cardinality(NonZero)
  BY DEF CopyMessage, At, Recording, shared, ghosts, RegistryTypes, Local,
         WalksInside
<1>2. Return(t, loc[t].known)
  BY DEF CopyMessage
<1>3. /\ pc' \in [Threads -> {"idle"} \cup Recording \cup Scanning]
      /\ loc' \in [Threads -> Local]
      /\ pc'[t] = "idle" /\ loc'[t].known = loc[t].known
      /\ OtherThreads(t)
  BY <1>1, <1>2, Returning
<1> QED BY <1>1, <1>3, ScanStep
-----------------------------------------------------------------------------
(* No access of another thread breaks what a thread's numbers say.         *)
LEMMA RegistryNext == RegistryInv /\ [Next]_vars => RegistryInv'
<1> SUFFICES ASSUME RegistryInv, [Next]_vars PROVE RegistryInv'
  OBVIOUS
<1>1. CASE UNCHANGED vars
  <2>1. /\ clears' = clears /\ counters' = counters /\ calls' = calls
        /\ lines' = lines /\ pc' = pc /\ loc' = loc /\ missed' = missed
    BY <1>1 DEF vars, shared, ghosts
  <2>2. RegistryTypes => RegistryTypes'
    BY <2>1 DEF RegistryTypes
  <2>3. NumbersHeld => NumbersHeld'
    BY <2>1 DEF NumbersHeld, Logged
  <2>4. LinesExact => LinesExact'
    BY <2>1 DEF LinesExact, Logged, InHands
  <2>5. WalksInside => WalksInside'
    BY <2>1 DEF WalksInside, GetOnCourse, NonZero, Below
  <2> QED BY <2>1, <2>2, <2>3, <2>4, <2>5 DEF RegistryInv, Body
<1>2. CASE Next
  <2>1. PICK t \in Threads :
          \/ \E c \in Codes, noted \in BOOLEAN : Count(t, c, noted)
          \/ RecordTotal(t) \/ RecordCode(t) \/ RecordMessage(t) \/ Emit(t)
          \/ ClearBegin(t)
          \/ ClearCounter(t) \/ ClearTotal(t) \/ ClearCode(t)
          \/ ClearMessages(t)
          \/ ReadBegin(t, "distinct", 0)
          \/ \E i \in 0 .. NCodes - 1 : ReadBegin(t, "get", i)
          \/ Distinct(t) \/ Get(t) \/ CopyMessage(t)
    BY <1>2 DEF Next
  <2>2. CASE ClearBegin(t)
    BY <2>2 DEF ClearBegin, RegistryInv
  <2>3. CASE ~ClearBegin(t)
    <3>1. clears' = clears
      BY <2>1, <2>3 DEF Count, RecordTotal, RecordCode, RecordMessage, Emit,
         ClearCounter, ClearTotal, ClearCode, ClearMessages, ReadBegin,
         Distinct, Get, CopyMessage, ghosts
    <3> SUFFICES ASSUME clears = 0 PROVE Body'
      BY <3>1 DEF RegistryInv
    <3>2. Body
      BY DEF RegistryInv
    <3>3. pc[t] \in {"idle"} \cup Recording \cup Scanning
      BY <3>2 DEF Body, RegistryTypes
    <3>4. ~(\/ ClearCounter(t) \/ ClearTotal(t) \/ ClearCode(t)
            \/ ClearMessages(t))
      BY <3>3 DEF Recording, Scanning, ClearCounter, ClearTotal, ClearCode,
         ClearMessages, At
    <3>5. CASE \E c \in Codes, noted \in BOOLEAN : Count(t, c, noted)
      BY <3>2, <3>5, CountKeeps
    <3>6. CASE RecordTotal(t) \/ RecordCode(t) \/ RecordMessage(t)
      BY <3>2, <3>6, RecordKeeps
    <3>7. CASE Emit(t)
      BY <3>2, <3>7, EmitKeeps
    <3>8. CASE ReadBegin(t, "distinct", 0)
      BY <3>2, <3>8, ReadBeginKeeps
    <3>9. CASE \E i \in 0 .. NCodes - 1 : ReadBegin(t, "get", i)
      <4>1. PICK i \in 0 .. NCodes - 1 : ReadBegin(t, "get", i)
        BY <3>9
      <4>2. i \in Nat
        BY RegistryAssumption
      <4> QED BY <3>2, <4>1, <4>2, ReadBeginKeeps
    <3>10. CASE Distinct(t)
      BY <3>2, <3>10, DistinctKeeps
    <3>11. CASE Get(t)
      BY <3>2, <3>11, GetKeeps
    <3>12. CASE CopyMessage(t)
      BY <3>2, <3>12, CopyKeeps
    <3> QED BY <2>1, <2>3, <3>4, <3>5, <3>6, <3>7, <3>8, <3>9, <3>10,
               <3>11, <3>12
  <2> QED BY <2>2, <2>3
<1> QED BY <1>1, <1>2

(* The counters, the numbers in hand, the log and the walks stay in step   *)
(* for as long as nobody clears the registry.                              *)
THEOREM RegistryStaysInStep == Spec => []RegistryInv
  BY RegistryInit, RegistryNext, PTL DEF Spec

(* contract.h:153: each occurrence gets its number once and is logged once *)
(* or never, as the throttle says, however the calls interleave.           *)
THEOREM ThrottleIsExact == Spec => []ThrottleExact
<1>1. RegistryInv => ThrottleExact
  <2> SUFFICES ASSUME RegistryInv, Quiet, clears = 0,
                      NEW c \in Codes, NEW n \in Occurrences,
                      calls[c].notes = 0
               PROVE  lines[c][n] =
                        IF n <= calls[c].reports
                           /\ (n <= FullReports \/ n % RepeatEvery = 0)
                          THEN 1 ELSE 0
    BY DEF ThrottleExact
  <2>1. Body
    BY DEF RegistryInv
  <2>2. ~InHands(c, n)
    BY DEF InHands, Quiet
  <2>3. counters[c] = calls[c].reports
    <3>1. calls[c] \in [reports : Nat, notes : Nat]
      BY <2>1 DEF Body, RegistryTypes
    <3>2. counters[c] = calls[c].reports + calls[c].notes
      BY <2>1 DEF Body, NumbersHeld
    <3> QED BY <3>1, <3>2
  <2>4. lines[c][n] = IF n <= counters[c] /\ Logged(n) /\ ~InHands(c, n)
                      THEN 1 ELSE 0
    BY <2>1 DEF Body, LinesExact
  <2> QED BY <2>2, <2>3, <2>4 DEF Logged
<1> QED BY <1>1, RegistryStaysInStep, PTL

(* violations.h:33: an index below what distinct() answered is good for a  *)
(* get(), whatever reports arrive while the two walk.                      *)
THEOREM GetsFindTheirEntry == Spec => []IndicesStayValid
<1>1. RegistryInv => IndicesStayValid
  BY DEF RegistryInv, Body, WalksInside, IndicesStayValid
<1> QED BY <1>1, RegistryStaysInStep, PTL
-----------------------------------------------------------------------------
(* Sums over the codes.                                                    *)

Less == {p \in Nat \X Nat : p[1] < p[2]}

(* Induction over the numbers, for a set of them.                          *)
LEMMA Inductive ==
  ASSUME NEW T, 0 \in T, \A n \in Nat : n \in T => n + 1 \in T
  PROVE  \A n \in Nat : n \in T
<1> SUFFICES ASSUME Nat \ T # {} PROVE FALSE
  OBVIOUS
<1>1. IsWellFoundedOn(Less, Nat)
  <2>1. IsWellFoundedOn(OpToRel(<, Nat), Nat)
    BY NatLessThanWellFounded
  <2>2. OpToRel(<, Nat) = Less
    BY DEF OpToRel, Less
  <2> QED BY <2>1, <2>2
<1>2. PICK n \in Nat \ T : \A m \in Nat \ T : ~(<<m, n>> \in Less)
  <2>1. Nat \ T \subseteq Nat
    OBVIOUS
  <2> QED BY <1>1, <2>1, WFMin
<1>3. n # 0 /\ n - 1 \in Nat /\ (n - 1) + 1 = n
  BY <1>2
<1>4. <<n - 1, n>> \in Less
  BY <1>2, <1>3 DEF Less
<1>5. n - 1 \in T
  BY <1>2, <1>3, <1>4
<1> QED BY <1>2, <1>3, <1>5

(* The sum of f over the codes as the library's fold computes it: from the *)
(* sums over the smaller sets.                                             *)
First(s) == CHOOSE x \in s : TRUE
Adds(f, sum, s) == IF s = {} THEN 0 ELSE f[First(s)] + sum[s \ {First(s)}]
Sums(f) == CHOOSE sum : sum = [s \in SUBSET Codes |-> Adds(f, sum, s)]
Upto(n) == {s \in SUBSET Codes : Cardinality(s) <= n}

(* The model's fold over the codes is the sum built up here.               *)
LEMMA CountedIsSum == Counted = Sums(counters)[Codes]
  BY DEF Counted, MapThenSumSet, MapThenFoldSet, Sums, Adds, First

(* The rest of a set without its first is a smaller one.                   *)
LEMMA Rest ==
  ASSUME NEW n \in Nat, NEW s \in Upto(n + 1), s # {}
  PROVE  First(s) \in s /\ First(s) \in Codes /\ s \ {First(s)} \in Upto(n)
<1>1. First(s) \in s
  BY DEF First
<1>2. s \in SUBSET Codes /\ Cardinality(s) <= n + 1
  BY DEF Upto
<1>3. IsFiniteSet(s) /\ Cardinality(s) \in Nat
  BY <1>2, NonZeroFinite
<1>4. Cardinality(s \ {First(s)}) = Cardinality(s) - 1
  BY <1>1, <1>3, FS_RemoveElement
<1> QED BY <1>1, <1>2, <1>3, <1>4 DEF Upto

(* No code, no set but the empty one.                                      *)
LEMMA OnlyEmpty == Upto(0) = {{}}
<1>1. ASSUME NEW s \in SUBSET Codes, Cardinality(s) <= 0 PROVE s = {}
  <2>1. IsFiniteSet(s) /\ Cardinality(s) \in Nat
    BY NonZeroFinite
  <2> QED BY <1>1, <2>1, FS_EmptySet
<1>2. Cardinality({}) = 0
  BY FS_EmptySet
<1> QED BY <1>1, <1>2 DEF Upto

(* NCodes bounds every set of codes.                                       *)
LEMMA AllCodes ==
  Cardinality(Codes) \in Nat /\ Upto(Cardinality(Codes)) = SUBSET Codes
<1>1. IsFiniteSet(Codes) /\ Cardinality(Codes) \in Nat
  BY NonZeroFinite
<1>2. ASSUME NEW s \in SUBSET Codes PROVE Cardinality(s) <= Cardinality(Codes)
  BY <1>1, FS_Subset
<1> QED BY <1>1, <1>2 DEF Upto

(* The sums exist, and are computed from each other.                       *)
LEMMA SumsExist ==
  ASSUME NEW f
  PROVE  \A n \in Nat : \E sum : sum = [s \in Upto(n) |-> Adds(f, sum, s)]
<1> DEFINE T == {n \in Nat : \E sum : sum = [s \in Upto(n) |-> Adds(f, sum, s)]}
<1>1. 0 \in T
  <2> DEFINE zero == [s \in Upto(0) |-> 0]
  <2>1. \A s \in Upto(0) : Adds(f, zero, s) = 0
    BY OnlyEmpty DEF Adds
  <2>2. zero = [s \in Upto(0) |-> Adds(f, zero, s)]
    BY <2>1
  <2> QED BY <2>2
<1>2. ASSUME NEW n \in Nat, n \in T PROVE n + 1 \in T
  <2>1. PICK sum : sum = [s \in Upto(n) |-> Adds(f, sum, s)]
    BY <1>2
  <2> DEFINE next == [s \in Upto(n + 1) |-> Adds(f, sum, s)]
  <2>2. \A s \in Upto(n) : s \in Upto(n + 1) /\ next[s] = sum[s]
    <3>1. Upto(n) \subseteq Upto(n + 1)
      <4> SUFFICES ASSUME NEW s \in SUBSET Codes, Cardinality(s) <= n
                   PROVE  Cardinality(s) <= n + 1
        BY DEF Upto
      <4>1. Cardinality(s) \in Nat
        BY NonZeroFinite
      <4> QED BY <4>1
    <3>2. ASSUME NEW s \in Upto(n) PROVE next[s] = sum[s]
      <4>1. next[s] = Adds(f, sum, s)
        BY <3>1
      <4>2. sum[s] = Adds(f, sum, s)
        BY <2>1
      <4> QED BY <4>1, <4>2
    <3> QED BY <3>1, <3>2
  <2> HIDE DEF next
  <2>3. ASSUME NEW s \in Upto(n + 1) PROVE Adds(f, sum, s) = Adds(f, next, s)
    BY <2>2, Rest DEF Adds
  <2>4. next = [s \in Upto(n + 1) |-> Adds(f, next, s)]
    BY <2>3 DEF next
  <2> QED BY <2>4
<1> HIDE DEF T
<1>3. \A n \in Nat : n \in T
  BY <1>1, <1>2, Inductive
<1> QED BY <1>3 DEF T

(* A sum is that of the rest and the counter left out.                     *)
LEMMA SumsAdd ==
  ASSUME NEW f, NEW s \in SUBSET Codes
  PROVE  Sums(f)[s] = Adds(f, Sums(f), s)
<1> DEFINE found == Sums(f)
<1>1. \E sum : sum = [r \in SUBSET Codes |-> Adds(f, sum, r)]
  <2> DEFINE n == Cardinality(Codes)
  <2>1. n \in Nat /\ Upto(n) = SUBSET Codes
    BY AllCodes
  <2> HIDE DEF n
  <2>2. \E sum : sum = [r \in Upto(n) |-> Adds(f, sum, r)]
    BY <2>1, SumsExist
  <2> QED BY <2>1, <2>2
<1>2. found = [r \in SUBSET Codes |-> Adds(f, found, r)]
  BY <1>1 DEF Sums
<1> HIDE DEF found
<1>3. found[s] = Adds(f, found, s)
  BY <1>2
<1> QED BY <1>3 DEF found

(* Nothing adds up to nothing.                                             *)
LEMMA SumOfZeros ==
  ASSUME NEW f, \A c \in Codes : f[c] = 0
  PROVE  Sums(f)[Codes] = 0
<1> DEFINE T == {n \in Nat : \A s \in Upto(n) : Sums(f)[s] = 0}
<1>1. 0 \in T
  <2>1. Adds(f, Sums(f), {}) = 0
    BY DEF Adds
  <2>2. Sums(f)[{}] = 0
    BY <2>1, SumsAdd
  <2> QED BY <2>2, OnlyEmpty
<1>2. ASSUME NEW n \in Nat, n \in T PROVE n + 1 \in T
  <2>1. ASSUME NEW s \in Upto(n + 1) PROVE Sums(f)[s] = 0
    <3>1. s \in SUBSET Codes
      BY DEF Upto
    <3>2. CASE s = {}
      BY <3>1, <3>2, SumsAdd DEF Adds
    <3>3. CASE s # {}
      <4>1. Sums(f)[s] = f[First(s)] + Sums(f)[s \ {First(s)}]
        BY <3>1, <3>3, SumsAdd DEF Adds
      <4>2. First(s) \in Codes /\ s \ {First(s)} \in Upto(n)
        BY <3>3, Rest
      <4> QED BY <1>2, <4>1, <4>2
    <3> QED BY <3>2, <3>3
  <2> QED BY <2>1
<1> HIDE DEF T
<1>3. \A n \in Nat : n \in T
  BY <1>1, <1>2, Inductive
<1> QED BY <1>3, AllCodes DEF T

(* One more of a code is one more in all.                                  *)
LEMMA SumOfOneMore ==
  ASSUME NEW f \in [Codes -> Nat], NEW c \in Codes
  PROVE  /\ Sums(f)[Codes] \in Nat
         /\ Sums([f EXCEPT ![c] = @ + 1])[Codes] = Sums(f)[Codes] + 1
<1> DEFINE g == [f EXCEPT ![c] = @ + 1]
<1> DEFINE More(s) == IF c \in s THEN 1 ELSE 0
<1> DEFINE T == {n \in Nat : \A s \in Upto(n) :
                   Sums(f)[s] \in Nat /\ Sums(g)[s] = Sums(f)[s] + More(s)}
<1>g. \A d \in Codes : g[d] = f[d] + IF d = c THEN 1 ELSE 0
  OBVIOUS
<1> HIDE DEF g
<1>1. 0 \in T
  <2>1. Adds(f, Sums(f), {}) = 0 /\ Adds(g, Sums(g), {}) = 0
    BY DEF Adds
  <2>2. Sums(f)[{}] = 0 /\ Sums(g)[{}] = 0 /\ More({}) = 0
    BY <2>1, SumsAdd
  <2> HIDE DEF More
  <2>3. \A s \in Upto(0) : s = {}
    BY OnlyEmpty
  <2>4. ASSUME NEW s \in Upto(0)
        PROVE  Sums(f)[s] \in Nat /\ Sums(g)[s] = Sums(f)[s] + More(s)
    <3>1. s = {}
      BY <2>3
    <3>2. Sums(f)[s] = 0 /\ Sums(g)[s] = 0 /\ More(s) = 0
      BY <2>2, <3>1
    <3> QED BY <3>2
  <2> QED BY <2>4
<1>2. ASSUME NEW n \in Nat, n \in T PROVE n + 1 \in T
  <2>1. ASSUME NEW s \in Upto(n + 1)
        PROVE  Sums(f)[s] \in Nat /\ Sums(g)[s] = Sums(f)[s] + More(s)
    <3>1. s \in SUBSET Codes
      BY DEF Upto
    <3>2. CASE s = {}
      BY <1>1, <3>2, OnlyEmpty
    <3>3. CASE s # {}
      <4> DEFINE x == First(s)
      <4> DEFINE r == s \ {First(s)}
      <4>1. /\ Sums(f)[s] = f[x] + Sums(f)[r]
            /\ Sums(g)[s] = g[x] + Sums(g)[r]
        BY <3>1, <3>3, SumsAdd DEF Adds
      <4>2. x \in s /\ x \in Codes /\ r \in Upto(n)
        BY <3>3, Rest
      <4>3. Sums(f)[r] \in Nat /\ Sums(g)[r] = Sums(f)[r] + More(r)
        BY <1>2, <4>2
      <4>4. g[x] = f[x] + (IF x = c THEN 1 ELSE 0) /\ f[x] \in Nat
        BY <1>g, <4>2
      <4>5. More(s) = More(r) + IF x = c THEN 1 ELSE 0
        BY <4>2
      <4> HIDE DEF x, r, More
      <4>6. More(r) \in {0, 1}
        BY DEF More
      <4>7. Sums(f)[s] \in Nat
        BY <4>1, <4>3, <4>4
      <4>8. Sums(g)[s] = (f[x] + Sums(f)[r]) + (More(r) + (IF x = c THEN 1 ELSE 0))
        BY <4>1, <4>3, <4>4, <4>6
      <4> QED BY <4>1, <4>5, <4>7, <4>8
    <3> QED BY <3>2, <3>3
  <2> QED BY <2>1
<1> HIDE DEF T
<1>3. \A n \in Nat : n \in T
  BY <1>1, <1>2, Inductive
<1>4. Codes \in Upto(Cardinality(Codes)) /\ Cardinality(Codes) \in Nat
  BY AllCodes
<1>5. Sums(f)[Codes] \in Nat /\ Sums(g)[Codes] = Sums(f)[Codes] + More(Codes)
  BY <1>3, <1>4 DEF T
<1> QED BY <1>5 DEF g
-----------------------------------------------------------------------------
(* The total.                                                              *)

TotalTypes ==
  /\ counters \in [Codes -> Nat] /\ total \in Nat /\ lastCode \in Nat
  /\ pc \in [Threads -> {"idle"} \cup Recording \cup Clearing \cup Scanning]
  /\ loc \in [Threads -> Local]
  /\ raced \in BOOLEAN

Adding == {t \in Threads : pc[t] = "total"}

(* A call counts a code, and has added to the total before it stores it.   *)
CallsCount ==
  \A t \in Threads :
    /\ pc[t] \in {"total", "code"} => loc[t].code \in Codes
    /\ pc[t] = "code" => total # 0

(* What a clear() has passed is zero, since nobody counts while it runs.   *)
Cleared(t) ==
  /\ pc[t] = "zero" => \A c \in Codes : c < loc[t].at => counters[c] = 0
  /\ pc[t] \in {"zeroTotal", "zeroCode", "zeroMessages"} =>
       \A c \in Codes : counters[c] = 0
  /\ pc[t] \in {"zeroCode", "zeroMessages"} => total = 0
  /\ pc[t] = "zeroMessages" => lastCode = 0

InStep ==
  /\ Sums(counters)[Codes] = total + Cardinality(Adding)
  /\ total = 0 => lastCode = 0
  /\ lastCode = 0 => total = 0 \/ \E t \in Threads : pc[t] = "code"

TotalInv ==
  /\ TotalTypes /\ IsFiniteSet(Adding)
  /\ ~raced =>
       /\ ~(Within(Recording) /\ Within(Clearing))
       /\ CallsCount
       /\ \A t \in Threads : Cleared(t)
       /\ ~Within(Clearing) => InStep

(* All counters are zero at the start, and so is the total.                *)
LEMMA TotalInit == Init => TotalInv
<1> SUFFICES ASSUME Init PROVE TotalInv
  OBVIOUS
<1>p. 1 \in Places
  BY DEF Places
<1>1. TotalTypes
  <2>1. NoLocals \in Local
    BY <1>p DEF NoLocals, Local
  <2> QED BY <2>1 DEF Init, TotalTypes
<1>2. Adding = {} /\ IsFiniteSet(Adding) /\ Cardinality(Adding) = 0
  <2>1. Adding = {}
    BY DEF Init, Adding
  <2> QED BY <2>1, FS_EmptySet
<1>3. \A t \in Threads : pc[t] = "idle"
  BY DEF Init
<1>4. Sums(counters)[Codes] = 0
  BY SumOfZeros DEF Init
<1>5. ~Within(Recording) /\ ~Within(Clearing)
  BY <1>3 DEF Within, Recording, Clearing
<1>6. CallsCount /\ \A t \in Threads : Cleared(t)
  BY <1>3 DEF CallsCount, Cleared
<1>7. InStep
  BY <1>2, <1>4 DEF Init, InStep
<1> QED BY <1>1, <1>2, <1>5, <1>6, <1>7 DEF TotalInv

(* What Return() and Goto() do to the threads.                             *)
LEMMA ThreadMoves ==
  ASSUME TotalTypes, NEW t \in Threads,
         \/ \E k \in Nat : Return(t, k)
         \/ /\ UNCHANGED loc
            /\ \E p \in {"idle"} \cup Recording \cup Clearing \cup Scanning : Goto(t, p)
  PROVE  /\ pc' \in [Threads -> {"idle"} \cup Recording \cup Clearing \cup Scanning]
         /\ loc' \in [Threads -> Local]
         /\ OtherThreads(t)
<1>p. 1 \in Places
  BY DEF Places
<1>1. ASSUME NEW k \in Nat PROVE [NoLocals EXCEPT !.known = k] \in Local
  BY <1>p DEF NoLocals, Local
<1> QED BY <1>1 DEF TotalTypes, Return, Goto, OtherThreads

(* A thread that takes no part in counting or clearing in its step.        *)
LEMMA TotalAside ==
  ASSUME TotalInv, NEW t \in Threads, OtherThreads(t), TotalTypes',
         UNCHANGED <<counters, total, lastCode, raced>>,
         pc[t] \notin {"total", "code"} \cup Clearing,
         pc'[t] \notin {"total", "code"} \cup Clearing,
         pc'[t] \in Recording => pc[t] \in Recording
  PROVE  TotalInv'
<1>1. Adding' = Adding
  BY DEF Adding, OtherThreads
<1>2. \A u \in Threads : \/ pc'[u] \in {"total", "code"} \cup Clearing
                          \/ pc[u] \in {"total", "code"} \cup Clearing
                          => pc'[u] = pc[u] /\ loc'[u] = loc[u]
  BY DEF OtherThreads
<1>3. \A u \in Threads : pc'[u] \in Recording => pc[u] \in Recording
  BY DEF OtherThreads
<1>4. (Within(Recording))' => Within(Recording)
  BY <1>3 DEF Within
<1>5. (Within(Clearing))' <=> Within(Clearing)
  BY <1>2 DEF Within
<1>6. CallsCount => CallsCount'
  BY <1>2 DEF CallsCount
<1>7. ASSUME NEW u \in Threads, Cleared(u) PROVE Cleared(u)'
  BY <1>2, <1>7 DEF Cleared, Clearing
<1>8. InStep => InStep'
  BY <1>1, <1>2 DEF InStep
<1> QED BY <1>1, <1>4, <1>5, <1>6, <1>7, <1>8 DEF TotalInv

(* The counter goes first: the call owes the total one from here.          *)
LEMMA CountTotals ==
  ASSUME TotalInv, NEW t \in Threads, NEW c \in Codes, NEW noted \in BOOLEAN,
         Count(t, c, noted)
  PROVE  TotalInv'
<1>1. /\ pc[t] = "idle" /\ pc' = [pc EXCEPT ![t] = "total"]
      /\ counters' = [counters EXCEPT ![c] = @ + 1]
      /\ raced' = (raced \/ Within(Clearing)) /\ UNCHANGED <<total, lastCode>>
  BY DEF Count, At, Goto
<1>2. /\ loc' \in [Threads -> Local] /\ loc'[t].code = c
      /\ \A u \in Threads \ {t} : loc'[u] = loc[u]
  <2>1. counters[c] + 1 \in Nat /\ c \in Nat
    BY DEF TotalInv, TotalTypes, Codes
  <2>2. loc[t] \in Local
    BY DEF TotalInv, TotalTypes
  <2>3. loc' = [loc EXCEPT ![t] = [loc[t] EXCEPT !.code = c, !.n = counters[c] + 1,
                                                 !.noted = noted]]
    BY DEF Count, TotalInv, TotalTypes
  <2>4. [loc[t] EXCEPT !.code = c, !.n = counters[c] + 1, !.noted = noted] \in Local
    BY <2>1, <2>2 DEF Local
  <2>5. [loc[t] EXCEPT !.code = c, !.n = counters[c] + 1, !.noted = noted].code = c
    BY <2>2 DEF Local
  <2> QED BY <2>3, <2>4, <2>5 DEF TotalInv, TotalTypes
<1>3. TotalTypes'
  <2>1. TotalTypes /\ raced' \in BOOLEAN
    BY <1>1 DEF TotalInv, TotalTypes, Within
  <2>2. counters' \in [Codes -> Nat]
    BY <1>1, <2>1 DEF TotalTypes
  <2>3. pc' \in [Threads -> {"idle"} \cup Recording \cup Clearing \cup Scanning]
    BY <1>1, <2>1 DEF TotalTypes, Recording
  <2> QED BY <1>1, <1>2, <2>1, <2>2, <2>3 DEF TotalTypes
<1>4. /\ Adding' = Adding \cup {t} /\ t \notin Adding
      /\ IsFiniteSet(Adding') /\ Cardinality(Adding') = Cardinality(Adding) + 1
      /\ Cardinality(Adding) \in Nat
  <2>1. Adding' = Adding \cup {t} /\ t \notin Adding
    BY <1>1 DEF Adding, TotalInv, TotalTypes
  <2> QED BY <2>1, FS_AddElement, FS_CardinalityType DEF TotalInv
<1>5. ASSUME ~raced'
      PROVE  /\ ~(Within(Recording) /\ Within(Clearing))'
             /\ CallsCount'
             /\ \A u \in Threads : Cleared(u)'
             /\ InStep'
  <2>1. ~raced /\ ~Within(Clearing)
    BY <1>1, <1>5
  <2>2. \A u \in Threads : pc[u] \notin Clearing /\ pc'[u] \notin Clearing
    BY <1>1, <2>1 DEF Within, Clearing, TotalInv, TotalTypes
  <2>3. CallsCount'
    BY <1>1, <1>2, <2>1 DEF CallsCount, TotalInv, TotalTypes
  <2>4. \A u \in Threads : Cleared(u)'
    BY <2>2 DEF Cleared, Clearing
  <2>5. InStep'
    <3>1. InStep
      BY <2>1 DEF TotalInv
    <3>2. Sums(counters')[Codes] = Sums(counters)[Codes] + 1
      BY <1>1, SumOfOneMore DEF TotalInv, TotalTypes
    <3>3. Sums(counters')[Codes] = total' + Cardinality(Adding')
      BY <1>1, <1>4, <3>1, <3>2 DEF InStep, TotalInv, TotalTypes
    <3>4. \A u \in Threads : pc[u] = "code" => pc'[u] = "code"
      BY <1>1 DEF TotalInv, TotalTypes
    <3> QED BY <1>1, <3>1, <3>3, <3>4 DEF InStep
  <2> QED BY <2>2, <2>3, <2>4, <2>5 DEF Within
<1> QED BY <1>3, <1>4, <1>5 DEF TotalInv

(* The total catches up with the counter.                                  *)
LEMMA RecordTotalTotals ==
  ASSUME TotalInv, NEW t \in Threads, RecordTotal(t)
  PROVE  TotalInv'
<1>1. /\ pc[t] = "total" /\ pc' = [pc EXCEPT ![t] = "code"] /\ total' = total + 1
      /\ UNCHANGED <<counters, lastCode, raced, loc>>
  BY DEF RecordTotal, At, Goto, ghosts
<1>2. TotalTypes'
  BY <1>1 DEF TotalInv, TotalTypes, Recording
<1>3. /\ IsFiniteSet(Adding') /\ Cardinality(Adding') = Cardinality(Adding) - 1
      /\ Cardinality(Adding) \in Nat
  <2>1. Adding' = Adding \ {t} /\ t \in Adding
    BY <1>1 DEF Adding, TotalInv, TotalTypes
  <2> QED BY <2>1, FS_RemoveElement, FS_CardinalityType DEF TotalInv
<1>4. ASSUME ~raced'
      PROVE  /\ ~(Within(Recording) /\ Within(Clearing))'
             /\ CallsCount'
             /\ \A u \in Threads : Cleared(u)'
             /\ InStep'
  <2>1. ~raced /\ Within(Recording) /\ ~Within(Clearing)
    BY <1>1, <1>4 DEF TotalInv, Within, Recording
  <2>2. \A u \in Threads : pc[u] \notin Clearing /\ pc'[u] \notin Clearing
    BY <1>1, <2>1 DEF Within, Clearing, TotalInv, TotalTypes
  <2>3. CallsCount'
    BY <1>1, <2>1 DEF CallsCount, TotalInv, TotalTypes
  <2>4. \A u \in Threads : Cleared(u)'
    BY <2>2 DEF Cleared, Clearing
  <2>5. InStep'
    <3>1. InStep
      BY <2>1 DEF TotalInv
    <3>2. Sums(counters')[Codes] = total' + Cardinality(Adding')
      BY <1>1, <1>3, <3>1 DEF InStep, TotalInv, TotalTypes
    <3>3. total' # 0 /\ pc'[t] = "code"
      BY <1>1 DEF TotalInv, TotalTypes
    <3> QED BY <3>2, <3>3 DEF InStep
  <2> QED BY <2>2, <2>3, <2>4, <2>5 DEF Within
<1> QED BY <1>2, <1>3, <1>4 DEF TotalInv

(* Where a thread goes after recording.                                    *)
LEMMA AfterRecordMoves ==
  ASSUME TotalTypes, NEW t \in Threads,
         AfterRecord(t) \/ (Goto(t, "message") /\ UNCHANGED loc)
  PROVE  /\ pc' \in [Threads -> {"idle"} \cup Recording \cup Clearing \cup Scanning]
         /\ loc' \in [Threads -> Local]
         /\ OtherThreads(t) /\ pc'[t] \in {"idle", "message", "emit"}
<1>1. loc[t].known \in Nat
  BY DEF TotalTypes, Local
<1>2. \/ \E k \in Nat : Return(t, k)
      \/ UNCHANGED loc /\ \E p \in {"message", "emit"} : Goto(t, p)
  BY <1>1 DEF AfterRecord
<1>3. pc'[t] \in {"idle", "message", "emit"}
  BY <1>2 DEF Return, Goto, TotalTypes
<1>4. {"message", "emit"} \subseteq {"idle"} \cup Recording \cup Clearing \cup Scanning
  BY DEF Recording
<1> QED BY <1>2, <1>3, <1>4, ThreadMoves

(* The code is stored last, over a total that is not zero.                 *)
LEMMA RecordCodeTotals ==
  ASSUME TotalInv, NEW t \in Threads, RecordCode(t)
  PROVE  TotalInv'
<1>1. /\ pc[t] = "code" /\ lastCode' = loc[t].code
      /\ UNCHANGED <<counters, total, raced>>
  BY DEF RecordCode, At, ghosts
<1>2. /\ pc' \in [Threads -> {"idle"} \cup Recording \cup Clearing \cup Scanning]
      /\ loc' \in [Threads -> Local]
      /\ OtherThreads(t) /\ pc'[t] \in {"idle", "message", "emit"}
  BY AfterRecordMoves DEF RecordCode, TotalInv
<1>3. loc[t].code \in Nat
  BY DEF TotalInv, TotalTypes, Local
<1>4. TotalTypes'
  BY <1>1, <1>2, <1>3 DEF TotalInv, TotalTypes
<1>5. Adding' = Adding
  BY <1>1, <1>2 DEF Adding, OtherThreads
<1>6. ASSUME ~raced'
      PROVE  /\ ~(Within(Recording) /\ Within(Clearing))'
             /\ CallsCount'
             /\ \A u \in Threads : Cleared(u)'
             /\ InStep'
  <2>1. ~raced /\ Within(Recording) /\ ~Within(Clearing)
    BY <1>1, <1>6 DEF TotalInv, Within, Recording
  <2>2. \A u \in Threads : pc'[u] \notin Clearing
    BY <1>2, <2>1 DEF Within, Clearing, OtherThreads
  <2>3. CallsCount'
    BY <1>1, <1>2, <2>1 DEF CallsCount, TotalInv, OtherThreads
  <2>4. \A u \in Threads : Cleared(u)'
    BY <2>2 DEF Cleared, Clearing
  <2>5. total # 0 /\ lastCode' # 0
    BY <1>1, <2>1 DEF TotalInv, CallsCount, Codes
  <2>6. InStep'
    BY <1>1, <1>5, <2>1, <2>5 DEF InStep, TotalInv
  <2> QED BY <2>2, <2>3, <2>4, <2>6 DEF Within
<1> QED BY <1>4, <1>5, <1>6 DEF TotalInv

(* clear() begins: alone, or the run has raced.                            *)
LEMMA ClearBeginTotals ==
  ASSUME TotalInv, NEW t \in Threads, ClearBegin(t)
  PROVE  TotalInv'
<1>1. /\ pc[t] = "idle" /\ pc' = [pc EXCEPT ![t] = "zero"]
      /\ loc' = [loc EXCEPT ![t].at = 1]
      /\ raced' = (raced \/ Within(Recording)) /\ UNCHANGED <<counters, total,
             lastCode>>
  BY DEF ClearBegin, At, Goto, SetLocal, shared
<1>p. 1 \in Places
  BY DEF Places
<1>2. /\ loc' \in [Threads -> Local] /\ loc'[t].at = 1
      /\ \A u \in Threads \ {t} : loc'[u] = loc[u] /\ pc'[u] = pc[u]
  BY <1>1, <1>p DEF TotalInv, TotalTypes, Local
<1>3. TotalTypes'
  BY <1>1, <1>2 DEF TotalInv, TotalTypes, Clearing
<1>4. Adding' = Adding
  BY <1>1 DEF Adding, TotalInv, TotalTypes
<1>5. pc'[t] = "zero"
  BY <1>1 DEF TotalInv, TotalTypes
<1>6. ASSUME ~raced'
      PROVE  /\ ~(Within(Recording))' /\ (Within(Clearing))'
             /\ CallsCount'
             /\ \A u \in Threads : Cleared(u)'
  <2>1. ~raced /\ ~Within(Recording)
    BY <1>1, <1>6
  <2>2. ~(Within(Recording))'
    BY <1>2, <1>5, <2>1 DEF Within, Recording
  <2>3. (Within(Clearing))'
    BY <1>5 DEF Within, Clearing
  <2>4. CallsCount'
    BY <2>2 DEF CallsCount, Within, Recording
  <2>5. Cleared(t)'
    BY <1>2, <1>5 DEF Cleared, Codes
  <2>6. ASSUME NEW u \in Threads \ {t} PROVE Cleared(u)'
    BY <1>1, <1>2, <2>1 DEF Cleared, TotalInv
  <2> QED BY <2>2, <2>3, <2>4, <2>5, <2>6
<1> QED BY <1>3, <1>4, <1>6 DEF TotalInv

(* A step of a clear(): nobody counts, and what it leaves is as zero as    *)
(* what it found.                                                          *)
LEMMA ClearingStep ==
  ASSUME TotalInv, NEW t \in Threads, TotalTypes', pc[t] \in Clearing,
         pc'[t] \in Clearing \cup {"idle"},
         \A u \in Threads \ {t} : pc'[u] = pc[u] /\ loc'[u] = loc[u],
         \A c \in Codes : counters[c] = 0 => counters'[c] = 0,
         total = 0 => total' = 0, lastCode = 0 => lastCode' = 0,
         raced' = raced,
         ~raced => Cleared(t)' /\ (pc'[t] = "idle" => pc[t] = "zeroMessages")
  PROVE  TotalInv'
<1>1. Adding' = Adding
  <2>1. pc[t] # "total" /\ pc'[t] # "total"
    BY DEF Clearing
  <2> QED BY <2>1 DEF Adding
<1>2. ASSUME ~raced
      PROVE  /\ ~(Within(Recording))'
             /\ CallsCount'
             /\ \A u \in Threads : Cleared(u)'
             /\ ~(Within(Clearing))' => InStep'
  <2>1. ~Within(Recording)
    BY <1>2 DEF TotalInv, Within
  <2>2. ~(Within(Recording))'
    <3>1. pc'[t] \notin Recording
      BY DEF Recording, Clearing
    <3> QED BY <2>1, <3>1 DEF Within
  <2>3. CallsCount'
    BY <2>2 DEF CallsCount, Within, Recording
  <2>4. ASSUME NEW u \in Threads \ {t} PROVE Cleared(u)'
    BY <1>2 DEF Cleared, TotalInv
  <2>5. ASSUME ~(Within(Clearing))' PROVE InStep'
    <3>1. pc[t] = "zeroMessages"
      BY <1>2, <2>5 DEF Within
    <3>2. (\A c \in Codes : counters[c] = 0) /\ total = 0 /\ lastCode = 0
      BY <1>2, <3>1 DEF TotalInv, Cleared
    <3>3. Sums(counters')[Codes] = 0 /\ total' = 0 /\ lastCode' = 0
      BY <3>2, SumOfZeros
    <3>4. Cardinality(Adding') = 0
      <4>1. Adding' = {}
        BY <2>2 DEF Adding, Within, Recording
      <4> QED BY <4>1, FS_EmptySet
    <3> QED BY <3>3, <3>4 DEF InStep
  <2> QED BY <1>2, <2>2, <2>3, <2>4, <2>5
<1> QED BY <1>1, <1>2 DEF TotalInv

(* clear() leaves zeros behind it.                                         *)
LEMMA ClearCounterTotals ==
  ASSUME TotalInv, NEW t \in Threads, ClearCounter(t)
  PROVE  TotalInv'
<1>1. /\ pc[t] = "zero" /\ counters' = [counters EXCEPT ![loc[t].at] = 0]
      /\ UNCHANGED <<total, lastCode, raced>>
  BY DEF ClearCounter, At, ghosts
<1>2. loc[t].at \in Places /\ loc[t].at + 1 \in Places /\ NCodes \in Nat
  BY RegistryAssumption DEF TotalInv, TotalTypes, Local, Places
<1>3. \/ /\ loc[t].at < NCodes /\ pc' = pc
         /\ loc' = [loc EXCEPT ![t].at = loc[t].at + 1]
      \/ ~(loc[t].at < NCodes) /\ pc' = [pc EXCEPT ![t] = "zeroTotal"] /\ loc' = loc
  BY DEF ClearCounter, SetLocal, Goto
<1>4. /\ pc' \in [Threads -> {"idle"} \cup Recording \cup Clearing \cup Scanning]
      /\ loc' \in [Threads -> Local]
      /\ \A u \in Threads \ {t} : pc'[u] = pc[u] /\ loc'[u] = loc[u]
      /\ \/ loc[t].at < NCodes /\ pc'[t] = "zero" /\ loc'[t].at = loc[t].at + 1
         \/ ~(loc[t].at < NCodes) /\ pc'[t] = "zeroTotal"
  <2>1. CASE loc' = [loc EXCEPT ![t].at = loc[t].at + 1]
    BY <1>1, <1>2, <1>3, <2>1 DEF TotalInv, TotalTypes, Local, Clearing
  <2>2. CASE loc' = loc /\ ~(loc[t].at < NCodes)
    BY <1>1, <1>3, <2>2 DEF TotalInv, TotalTypes, Clearing
  <2> QED BY <1>3, <2>1, <2>2
<1>5. TotalTypes'
  BY <1>1, <1>4 DEF TotalInv, TotalTypes
<1>6. /\ \A c \in Codes : counters[c] = 0 => counters'[c] = 0
      /\ loc[t].at \in Codes => counters'[loc[t].at] = 0
  BY <1>1 DEF TotalInv, TotalTypes
<1>7. ASSUME ~raced PROVE Cleared(t)'
  <2>1. \A c \in Codes : c < loc[t].at => counters[c] = 0
    BY <1>1, <1>7 DEF TotalInv, Cleared
  <2>2. \A c \in Codes : c <= loc[t].at => counters'[c] = 0
    <3> SUFFICES ASSUME NEW c \in Codes, c <= loc[t].at PROVE counters'[c] = 0
      OBVIOUS
    <3>1. c < loc[t].at \/ c = loc[t].at
      BY <1>2 DEF Codes, Places
    <3> QED BY <1>6, <2>1, <3>1
  <2>3. \A c \in Codes : c \in Int /\ c <= NCodes
    BY DEF Codes
  <2>4. CASE loc[t].at < NCodes /\ pc'[t] = "zero" /\ loc'[t].at = loc[t].at + 1
    <3>1. \A c \in Codes : c < loc'[t].at => counters'[c] = 0
      BY <1>2, <2>2, <2>3, <2>4 DEF Places
    <3> QED BY <2>4, <3>1 DEF Cleared
  <2>5. CASE ~(loc[t].at < NCodes) /\ pc'[t] = "zeroTotal"
    <3>1. \A c \in Codes : counters'[c] = 0
      BY <1>2, <2>2, <2>3, <2>5 DEF Places
    <3> QED BY <2>5, <3>1 DEF Cleared
  <2> QED BY <1>4, <2>4, <2>5
<1>8. pc[t] \in Clearing /\ pc'[t] \in Clearing /\ pc'[t] # "idle"
  BY <1>1, <1>4 DEF Clearing
<1> QED BY <1>1, <1>4, <1>5, <1>6, <1>7, <1>8, ClearingStep

(* At the end of clear() counters, total and code are all zero.            *)
LEMMA ClearRestTotals ==
  ASSUME TotalInv, NEW t \in Threads,
         ClearTotal(t) \/ ClearCode(t) \/ ClearMessages(t)
  PROVE  TotalInv'
<1> USE DEF ghosts
<1>0. TotalTypes /\ loc[t].known \in Nat
  BY DEF TotalInv, TotalTypes, Local
<1>1. CASE ClearTotal(t)
  <2>1. /\ pc[t] = "zeroTotal" /\ pc' = [pc EXCEPT ![t] = "zeroCode"] /\ total' = 0
        /\ UNCHANGED <<counters, lastCode, loc, raced>>
    BY <1>1 DEF ClearTotal, At, Goto
  <2>2. pc'[t] = "zeroCode" /\ \A u \in Threads \ {t} :
            pc'[u] = pc[u] /\ loc'[u] = loc[u]
    BY <1>0, <2>1 DEF TotalTypes
  <2>3. TotalTypes'
    BY <1>0, <2>1 DEF TotalTypes, Clearing
  <2>4. ~raced => Cleared(t)'
    BY <2>1, <2>2 DEF TotalInv, Cleared
  <2>5. pc[t] \in Clearing /\ pc'[t] \in Clearing /\ pc'[t] # "idle"
    BY <2>1, <2>2 DEF Clearing
  <2> QED BY <2>1, <2>2, <2>3, <2>4, <2>5, ClearingStep
<1>2. CASE ClearCode(t)
  <2>1. /\ pc[t] = "zeroCode" /\ pc' = [pc EXCEPT ![t] = "zeroMessages"]
        /\ lastCode' = 0
        /\ UNCHANGED <<counters, total, loc, raced>>
    BY <1>2 DEF ClearCode, At, Goto
  <2>2. /\ pc'[t] = "zeroMessages"
        /\ \A u \in Threads \ {t} : pc'[u] = pc[u] /\ loc'[u] = loc[u]
    BY <1>0, <2>1 DEF TotalTypes
  <2>3. TotalTypes'
    BY <1>0, <2>1 DEF TotalTypes, Clearing
  <2>4. ~raced => Cleared(t)'
    BY <2>1, <2>2 DEF TotalInv, Cleared
  <2>5. pc[t] \in Clearing /\ pc'[t] \in Clearing /\ pc'[t] # "idle"
    BY <2>1, <2>2 DEF Clearing
  <2> QED BY <2>1, <2>2, <2>3, <2>4, <2>5, ClearingStep
<1>3. CASE ClearMessages(t)
  <2>1. /\ pc[t] = "zeroMessages" /\ Return(t, loc[t].known)
        /\ UNCHANGED <<counters, total, lastCode, raced>>
    BY <1>3 DEF ClearMessages, At
  <2>2. pc'[t] = "idle"
    BY <1>0, <2>1 DEF Return, Goto, TotalTypes
  <2>3. TotalTypes' /\ OtherThreads(t)
    BY <1>0, <2>1, ThreadMoves DEF TotalTypes
  <2>4. Cleared(t)'
    BY <2>2 DEF Cleared
  <2>5. pc[t] \in Clearing
    BY <2>1 DEF Clearing
  <2> QED BY <2>1, <2>2, <2>3, <2>4, <2>5, ClearingStep DEF OtherThreads
<1> QED BY <1>1, <1>2, <1>3

(* The readers, and a report that has counted already.                     *)
LEMMA AsideTotals ==
  ASSUME TotalInv, NEW t \in Threads,
         \/ RecordMessage(t) \/ Emit(t) \/ Distinct(t) \/ Get(t) \/ CopyMessage(t)
         \/ \E what \in {"distinct", "get"}, i \in Nat : ReadBegin(t, what, i)
  PROVE  TotalInv'
<1> USE DEF ghosts, shared
<1>0. TotalTypes /\ loc[t] \in Local /\ loc[t].known \in Nat /\ loc[t].seen \in Nat
  BY DEF TotalInv, TotalTypes, Local
<1>c. UNCHANGED <<counters, total, lastCode, raced>>
  BY DEF RecordMessage, Emit, Distinct, Get, CopyMessage, ReadBegin
<1>1. CASE RecordMessage(t)
  <2>1. pc[t] = "message"
    BY <1>1 DEF RecordMessage, At
  <2>2. /\ TotalTypes' /\ OtherThreads(t) /\ pc'[t] \in {"idle", "message", "emit"}
    BY <1>0, <1>1, <1>c, AfterRecordMoves DEF RecordMessage, TotalTypes
  <2> QED BY <1>c, <2>1, <2>2, TotalAside DEF Clearing, Recording
<1>2. CASE Emit(t) \/ CopyMessage(t)
  <2>1. pc[t] \in {"emit", "copy"} /\ Return(t, loc[t].known)
    BY <1>2 DEF Emit, CopyMessage, At
  <2>2. TotalTypes' /\ OtherThreads(t)
    BY <1>0, <1>c, <2>1, ThreadMoves DEF TotalTypes
  <2>3. pc'[t] = "idle"
    BY <1>0, <2>1 DEF Return, Goto, TotalTypes
  <2> QED BY <1>c, <2>1, <2>2, <2>3, TotalAside DEF Clearing, Recording
<1>3. CASE Distinct(t) \/ Get(t)
  <2>1. pc[t] \in {"distinct", "get"}
    BY <1>3 DEF Distinct, Get, At
  <2>2. \/ \E k \in Nat : Return(t, k)
        \/ /\ loc' = [loc EXCEPT ![t].at = @ + 1,
                         ![t].seen = IF Present(t) THEN @ + 1 ELSE @]
           /\ pc' = pc \/ \E p \in {"copy", "get"} : Goto(t, p)
    BY <1>0, <1>3 DEF Distinct, Get
  <2>3. CASE \E k \in Nat : Return(t, k)
    <3>1. TotalTypes' /\ OtherThreads(t)
      BY <1>0, <1>c, <2>3, ThreadMoves DEF TotalTypes
    <3>2. pc'[t] = "idle"
      BY <1>0, <2>3 DEF Return, Goto, TotalTypes
    <3> QED BY <1>c, <2>1, <3>1, <3>2, TotalAside DEF Clearing, Recording
  <2>4. CASE /\ loc' = [loc EXCEPT ![t].at = @ + 1,
                         ![t].seen = IF Present(t) THEN @ + 1 ELSE @]
             /\ pc' = pc \/ \E p \in {"copy", "get"} : Goto(t, p)
    <3>1. loc[t].at + 1 \in Places
      BY <1>0 DEF Local, Places
    <3>2. (IF Present(t) THEN loc[t].seen + 1 ELSE loc[t].seen) \in Nat
      BY <1>0
    <3>3. loc' = [loc EXCEPT ![t] =
            [loc[t] EXCEPT !.at = loc[t].at + 1,
                           !.seen = IF Present(t) THEN loc[t].seen + 1
                               ELSE loc[t].seen]]
      BY <1>0, <2>4 DEF TotalTypes
    <3>4. [loc[t] EXCEPT !.at = loc[t].at + 1,
             !.seen = IF Present(t) THEN loc[t].seen + 1 ELSE loc[t].seen] \in Local
      BY <1>0, <3>1, <3>2 DEF Local
    <3>5. loc' \in [Threads -> Local] /\ \A u \in Threads \ {t} : loc'[u] = loc[u]
      BY <1>0, <3>3, <3>4 DEF TotalTypes
    <3>6. /\ pc' \in [Threads -> {"idle"} \cup Recording \cup Clearing \cup Scanning]
          /\ pc'[t] \in {"distinct", "get", "copy"}
          /\ \A u \in Threads \ {t} : pc'[u] = pc[u]
      BY <1>0, <2>1, <2>4 DEF TotalTypes, Goto, Scanning
    <3>7. TotalTypes' /\ OtherThreads(t)
      BY <1>0, <1>c, <3>5, <3>6 DEF TotalTypes, OtherThreads
    <3> QED BY <1>c, <2>1, <3>6, <3>7, TotalAside DEF Clearing, Recording
  <2> QED BY <2>2, <2>3, <2>4
<1>4. ASSUME NEW what \in {"distinct", "get"}, NEW i \in Nat, ReadBegin(t, what, i)
      PROVE  TotalInv'
  <2>1. /\ pc[t] = "idle" /\ pc' = [pc EXCEPT ![t] = what]
        /\ loc' = [loc EXCEPT ![t].at = 1, ![t].seen = 0, ![t].index = i]
    BY <1>4 DEF ReadBegin, At, Goto
  <2>p. 1 \in Places
    BY DEF Places
  <2>2. [loc[t] EXCEPT !.at = 1, !.seen = 0, !.index = i] \in Local
    BY <1>0, <2>p DEF Local
  <2>3. loc' = [loc EXCEPT ![t] = [loc[t] EXCEPT !.at = 1, !.seen = 0, !.index = i]]
    BY <1>0, <2>1 DEF TotalTypes
  <2>4. loc' \in [Threads -> Local] /\ \A u \in Threads \ {t} : loc'[u] = loc[u]
    BY <1>0, <2>2, <2>3 DEF TotalTypes
  <2>5. /\ pc' \in [Threads -> {"idle"} \cup Recording \cup Clearing \cup Scanning]
        /\ pc'[t] = what /\ \A u \in Threads \ {t} : pc'[u] = pc[u]
    BY <1>0, <2>1 DEF TotalTypes, Scanning
  <2>6. TotalTypes' /\ OtherThreads(t)
    BY <1>0, <1>c, <2>4, <2>5 DEF TotalTypes, OtherThreads
  <2> QED BY <1>c, <2>1, <2>5, <2>6, TotalAside DEF Clearing, Recording
<1> QED BY <1>1, <1>2, <1>3, <1>4

(* Every access keeps the sum in step with the total.                      *)
LEMMA TotalNext == TotalInv /\ [Next]_vars => TotalInv'
<1> SUFFICES ASSUME TotalInv, [Next]_vars PROVE TotalInv'
  OBVIOUS
<1>1. ASSUME NEW t \in Threads, NEW c \in Codes, NEW noted \in BOOLEAN,
             Count(t, c, noted)
      PROVE  TotalInv'
  BY <1>1, CountTotals
<1>2. ASSUME NEW t \in Threads, RecordTotal(t) \/ RecordCode(t) PROVE TotalInv'
  BY <1>2, RecordTotalTotals, RecordCodeTotals
<1>3. ASSUME NEW t \in Threads,
             ClearBegin(t) \/ ClearCounter(t) \/ ClearTotal(t) \/ ClearCode(t)
               \/ ClearMessages(t)
      PROVE  TotalInv'
  BY <1>3, ClearBeginTotals, ClearCounterTotals, ClearRestTotals
<1>4. ASSUME NEW t \in Threads,
             \/ RecordMessage(t) \/ Emit(t) \/ Distinct(t) \/ Get(t) \/ CopyMessage(t)
             \/ ReadBegin(t, "distinct", 0)
             \/ \E i \in 0 .. NCodes - 1 : ReadBegin(t, "get", i)
      PROVE  TotalInv'
  <2>1. 0 \in Nat /\ 0 .. NCodes - 1 \subseteq Nat
    BY RegistryAssumption
  <2> QED BY <1>4, <2>1, AsideTotals
<1>5. CASE UNCHANGED vars
  <2>1. TotalTypes' /\ Adding' = Adding
    BY <1>5 DEF vars, shared, ghosts, TotalInv, TotalTypes, Adding
  <2>2. /\ (Within(Recording))' <=> Within(Recording)
        /\ (Within(Clearing))' <=> Within(Clearing)
    BY <1>5 DEF vars, Within
  <2>3. /\ CallsCount' <=> CallsCount
        /\ InStep' <=> InStep
        /\ \A t \in Threads : Cleared(t)' <=> Cleared(t)
    BY <1>5, <2>1 DEF vars, shared, CallsCount, InStep, Cleared
  <2> QED BY <1>5, <2>1, <2>2, <2>3 DEF TotalInv, vars, ghosts
<1> QED BY <1>1, <1>2, <1>3, <1>4, <1>5 DEF Next

(* Counters and total differ by the calls between their two additions, as  *)
(* long as no clear() has overlapped a report(); for any threads and codes *)
(* and any number of calls.                                                *)
THEOREM TotalsStayInStep == Spec => []TotalsAgree
<1>1. TotalInv => TotalsAgree
  <2> SUFFICES ASSUME TotalInv, ~raced
               PROVE  /\ ~Within(Clearing) => Counted = total + Uncounted
                      /\ Quiet => (lastCode = 0 <=> total = 0)
    BY DEF TotalsAgree
  <2>1. ~Within(Clearing) => InStep
    BY DEF TotalInv
  <2>2. Uncounted = Cardinality(Adding)
    BY DEF Uncounted, Adding
  <2>3. Quiet => ~Within(Clearing) /\ \A t \in Threads : pc[t] # "code"
    BY DEF Quiet, Within, Recording
  <2> QED BY <2>1, <2>2, <2>3, CountedIsSum DEF InStep
<1> QED BY <1>1, TotalInit, TotalNext, PTL DEF Spec
=============================================================================
