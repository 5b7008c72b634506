------------------------- MODULE HostServicesProofs -------------------------
(***************************************************************************)
(* No sample preset file is ever found half written, and no misuse of the  *)
(* instance's threads or of the provider escapes; what the logs accuse     *)
(* somebody of is true, and an instance hands on the early log's first     *)
(* lines, in order and in one piece: for any processes and threads, any    *)
(* number of samples, any kills, any capacities of the logs, and whatever  *)
(* the host does with the provider, the entry and the instance.            *)
(***************************************************************************)
EXTENDS HostServices, FiniteSetTheorems, SequenceTheorems,
        WellFoundedInduction, TLAPS

Writing == {"write", "rename"}

(* What makes it so: until a write is spoiled, a sample's temporary file   *)
(* is in one hand at most, the hand that opened it still finds it under    *)
(* its name, and it is whole by the time it is renamed.                    *)
OneHand ==
  \A p, q \in Processes :
    p # q /\ at[p] = at[q] /\ pc[p] \in Writing => pc[q] \notin Writing
InHand == \A p \in Processes : pc[p] = "write" => held[p] = "tmp"
WrittenWhole == \A p \in Processes : pc[p] = "rename" => tmp[at[p]] = "whole"
NonePartial == \A f \in File : path[f] # "partial"
FilesInv == ~spoiled => OneHand /\ InHand /\ WrittenWhole /\ NonePartial

(* Every step leaves the files alone or is one of these.                   *)
FilesNext ==
  \E p \in Processes :
    FileStep(p) \/ EnsureBegin(p) \/ EnsureReturn(p) \/ Killed(p)
-----------------------------------------------------------------------------
LEMMA FilesInitially == Init => FilesTypeOK /\ FilesInv
<1> SUFFICES ASSUME FilesInit PROVE FilesTypeOK /\ FilesInv
  BY DEF Init
<1>1. usable \in BOOLEAN /\ spoiled \in BOOLEAN
  BY DEF FilesInit
<1>2. /\ path \in [File -> Content] /\ tmp \in [File -> Content]
      /\ held \in [Processes -> {"none", "tmp", "path", "gone"}]
  BY DEF FilesInit, Content
<1>3. at \in [Processes -> File]
  BY FilesAssumption DEF FilesInit, File
<1>4. pc \in [Processes -> {"idle", "look", "open", "write", "rename", "done"}]
  BY DEF FilesInit
<1>5. FilesInv
  BY DEF FilesInit, FilesInv, OneHand, InHand, WrittenWhole, NonePartial, Writing
<1> QED BY <1>1, <1>2, <1>3, <1>4, <1>5 DEF FilesTypeOK

LEMMA AdvanceTyped ==
  ASSUME FilesTypeOK, NEW p \in Processes, Advance(p)
  PROVE  /\ at' \in [Processes -> File]
         /\ pc' \in [Processes ->
                      {"idle", "look", "open", "write", "rename", "done"}]
<1>1. at[p] \in File /\ (at[p] # Samples => at[p] + 1 \in File)
  BY FilesAssumption DEF FilesTypeOK, File
<1>2. CASE at[p] = Samples
  BY <1>2 DEF Advance, Goto, FilesTypeOK
<1>3. CASE at[p] # Samples
  BY <1>1, <1>3 DEF Advance, Goto, FilesTypeOK
<1> QED BY <1>2, <1>3

LEMMA FilesTyped ==
  ASSUME FilesTypeOK, FilesNext PROVE FilesTypeOK'
<1> PICK p \in Processes :
      FileStep(p) \/ EnsureBegin(p) \/ EnsureReturn(p) \/ Killed(p)
  BY DEF FilesNext
<1>b. usable' \in BOOLEAN /\ spoiled' \in BOOLEAN
  BY DEF FileStep, LookForSample, OpenTmp, OpenFails, WriteSample, RenameSample,
     RenameFails, EnsureBegin, EnsureReturn, Killed, FilesTypeOK
<1>f. at[p] \in File /\ 1 \in File
  BY FilesAssumption DEF FilesTypeOK, File
<1> USE DEF FilesTypeOK, Content
<1>1. CASE LookForSample(p)
  <2>1. CASE Advance(p)
    BY <1>1, <1>b, <2>1, AdvanceTyped DEF LookForSample
  <2>2. CASE pc' = [pc EXCEPT ![p] = "open"] /\ at' = at
    BY <1>1, <1>b, <2>2 DEF LookForSample
  <2> QED BY <1>1, <2>1, <2>2 DEF LookForSample, Goto
<1>2. CASE OpenTmp(p)
  BY <1>2, <1>b DEF OpenTmp, Goto
<1>3. ASSUME NEW ok \in BOOLEAN, WriteSample(p, ok) PROVE FilesTypeOK'
  <2>1. tmp' \in [File -> Content] /\ path' \in [File -> Content]
    BY <1>3 DEF WriteSample
  <2> QED BY <1>3, <1>b, <2>1 DEF WriteSample, Goto
<1>4. CASE RenameSample(p)
  <2>1. /\ at' \in [Processes -> File]
        /\ pc' \in [Processes ->
                     {"idle", "look", "open", "write", "rename", "done"}]
    BY <1>4, AdvanceTyped DEF RenameSample
  <2>2. tmp' \in [File -> Content] /\ path' \in [File -> Content]
    BY <1>4, <1>f DEF RenameSample
  <2>3. held' \in [Processes -> {"none", "tmp", "path", "gone"}]
    BY <1>4 DEF RenameSample, Renamed
  <2> QED BY <1>b, <2>1, <2>2, <2>3
<1>5. CASE RenameFails(p)
  <2>1. /\ at' \in [Processes -> File]
        /\ pc' \in [Processes ->
                     {"idle", "look", "open", "write", "rename", "done"}]
    BY <1>5, AdvanceTyped DEF RenameFails
  <2>2. tmp' \in [File -> Content] /\ path' \in [File -> Content]
    BY <1>5 DEF RenameFails
  <2>3. held' \in [Processes -> {"none", "tmp", "path", "gone"}]
    BY <1>5 DEF RenameFails
  <2> QED BY <1>b, <2>1, <2>2, <2>3
<1>6. CASE OpenFails(p)
  BY <1>6, <1>b, AdvanceTyped DEF OpenFails
<1>7. CASE EnsureBegin(p) \/ EnsureReturn(p) \/ Killed(p)
  BY <1>7, <1>b, <1>f DEF EnsureBegin, EnsureReturn, Killed, Goto
<1> QED BY <1>1, <1>2, <1>3, <1>4, <1>5, <1>6, <1>7 DEF FileStep

(* A process that goes on to the next sample, or ends, holds nothing.      *)
LEMMA AdvanceLetsGo ==
  ASSUME FilesTypeOK, NEW p \in Processes, Advance(p)
  PROVE  /\ pc'[p] \notin Writing
         /\ \A q \in Processes \ {p} : pc'[q] = pc[q] /\ at'[q] = at[q]
BY DEF FilesTypeOK, Advance, Goto, Writing

LEMMA FilesKept ==
  ASSUME FilesTypeOK, FilesInv, FilesNext PROVE FilesInv'
<1> SUFFICES ASSUME ~spoiled'
             PROVE  OneHand' /\ InHand' /\ WrittenWhole' /\ NonePartial'
  BY DEF FilesInv
<1> PICK p \in Processes :
      FileStep(p) \/ EnsureBegin(p) \/ EnsureReturn(p) \/ Killed(p)
  BY DEF FilesNext
<1> USE DEF FilesTypeOK, Writing
<1>0. ~spoiled
  BY DEF FileStep, LookForSample, OpenTmp, OpenFails, WriteSample, RenameSample,
     RenameFails, EnsureBegin, EnsureReturn, Killed
<1>i. OneHand /\ InHand /\ WrittenWhole /\ NonePartial
  BY <1>0 DEF FilesInv
<1>1. CASE LookForSample(p) \/ OpenFails(p)
  <2>1. UNCHANGED <<path, tmp, held>>
    BY <1>1 DEF LookForSample, OpenFails
  <2>2. Advance(p) \/ (pc' = [pc EXCEPT ![p] = "open"] /\ at' = at)
    BY <1>1 DEF LookForSample, OpenFails, Goto
  <2>3. /\ pc'[p] \notin Writing
        /\ \A q \in Processes \ {p} : pc'[q] = pc[q] /\ at'[q] = at[q]
    BY <2>2, AdvanceLetsGo
  <2> QED BY <1>i, <2>1, <2>3 DEF OneHand, InHand, WrittenWhole, NonePartial
<1>2. CASE OpenTmp(p)
  <2>1. ~Contested(p)
    BY <1>2 DEF OpenTmp
  <2>2. /\ pc' = [pc EXCEPT ![p] = "write"] /\ held' = [held EXCEPT ![p] = "tmp"]
        /\ tmp' = [tmp EXCEPT ![at[p]] = "partial"] /\ UNCHANGED <<path, at>>
    BY <1>2 DEF OpenTmp, Goto
  <2>3. OneHand'
    BY <1>i, <2>1, <2>2 DEF OneHand, Contested
  <2>4. InHand'
    BY <1>i, <2>2 DEF InHand
  <2>5. WrittenWhole'
    BY <1>i, <2>1, <2>2 DEF WrittenWhole, Contested
  <2> QED BY <1>i, <2>2, <2>3, <2>4, <2>5 DEF NonePartial
<1>3. ASSUME NEW ok \in BOOLEAN, WriteSample(p, ok)
      PROVE  OneHand' /\ InHand' /\ WrittenWhole' /\ NonePartial'
  <2>1. ok /\ held[p] = "tmp"
    BY <1>3, <1>i DEF WriteSample, InHand
  <2>2. /\ pc[p] = "write" /\ pc' = [pc EXCEPT ![p] = "rename"]
        /\ held' = [held EXCEPT ![p] = "none"]
        /\ tmp' = [tmp EXCEPT ![at[p]] = "whole"] /\ UNCHANGED <<path, at>>
    BY <1>3, <2>1 DEF WriteSample, Goto
  <2>3. OneHand' /\ InHand'
    BY <1>i, <2>2 DEF OneHand, InHand
  <2>4. WrittenWhole'
    BY <1>i, <2>2 DEF WrittenWhole
  <2> QED BY <1>i, <2>2, <2>3, <2>4 DEF NonePartial
<1>4. CASE RenameSample(p) \/ RenameFails(p)
  <2>1. pc[p] = "rename" /\ Advance(p)
    BY <1>4 DEF RenameSample, RenameFails
  <2>2. /\ pc'[p] \notin Writing
        /\ \A q \in Processes \ {p} : pc'[q] = pc[q] /\ at'[q] = at[q]
    BY <2>1, AdvanceLetsGo
  <2>3. tmp' = [tmp EXCEPT ![at[p]] = "absent"]
    BY <1>4 DEF RenameSample, RenameFails
  <2>4. \A q \in Processes \ {p} : pc[q] \in Writing => at[q] # at[p]
    BY <1>i, <2>1 DEF OneHand
  <2>5. \A q \in Processes : at[q] # at[p] => held'[q] = held[q]
    BY <1>4 DEF RenameSample, RenameFails, Renamed
  <2>6. OneHand'
    BY <1>i, <2>2 DEF OneHand
  <2>7. InHand'
    BY <1>i, <2>2, <2>4, <2>5 DEF InHand
  <2>8. WrittenWhole'
    BY <1>i, <2>2, <2>3, <2>4 DEF WrittenWhole
  <2>9. tmp[at[p]] = "whole"
    BY <1>i, <2>1 DEF WrittenWhole
  <2>10. NonePartial'
    BY <1>4, <1>i, <2>9 DEF NonePartial, RenameSample, RenameFails
  <2> QED BY <2>6, <2>7, <2>8, <2>10
<1>5. CASE EnsureBegin(p) \/ EnsureReturn(p) \/ Killed(p)
  <2>1. /\ pc'[p] \notin Writing /\ UNCHANGED <<path, tmp>>
        /\ \A q \in Processes \ {p} :
             pc'[q] = pc[q] /\ at'[q] = at[q] /\ held'[q] = held[q]
    BY <1>5 DEF EnsureBegin, EnsureReturn, Killed, Goto
  <2> QED BY <1>i, <2>1 DEF OneHand, InHand, WrittenWhole, NonePartial
<1> QED BY <1>1, <1>2, <1>3, <1>4, <1>5 DEF FileStep
-----------------------------------------------------------------------------
LEMMA StepsOfFiles ==
  ASSUME [Next]_vars PROVE FilesNext \/ UNCHANGED fileVars
<1> USE ServicesAssumption
<1>1. ASSUME NEW p \in Processes, Scan(p) PROVE FilesNext
  BY <1>1 DEF Scan, FilesNext
<1>2. ASSUME NEW p \in Processes, KillOther(p) PROVE FilesNext
  BY <1>2 DEF KillOther, FilesNext
<1>3. CASE KillMe
  BY <1>3 DEF KillMe, FilesNext
<1>4. CASE ProviderInit
  BY <1>4 DEF ProviderInit, FilesNext
<1>5. CASE SamplesEnsured
  BY <1>5 DEF SamplesEnsured, FilesNext
<1>6. CASE \/ EntryInit \/ EntryDeinit \/ CreatePlugin \/ ProviderCreate
           \/ ProviderDestroy \/ ProviderInitAgain \/ SDestroy
           \/ ProviderGetMetadata \/ ProviderGetExtension \/ GetExtension
  BY <1>6 DEF EntryInit, EntryDeinit, CreatePlugin, ProviderCreate,
     ProviderDestroy, ProviderInitAgain, ProviderGetMetadata,
     ProviderGetExtension, SDestroy, GetExtension, Logs
<1>7. ASSUME NEW accepted \in BOOLEAN, DeclareReturns(accepted)
      PROVE  UNCHANGED fileVars
  BY <1>7 DEF DeclareReturns
<1>8. ASSUME NEW t \in Threads,
             \/ SInit(t) \/ SInitAgain(t) \/ SetActive(t)
             \/ AudioThreadCall(t) \/ ParamsFlush(t) \/ TailGet(t)
      PROVE  UNCHANGED fileVars
  BY <1>8 DEF SInit, SInitAgain, SetActive, AudioThreadCall,
     ParamsFlush, TailGet, Logs
<1>9. ASSUME NEW t \in Threads, NEW lines, OnMainThread(t, lines)
      PROVE  UNCHANGED fileVars
  BY <1>9 DEF OnMainThread, Logs
<1>10. ASSUME NEW t \in Threads,
              \/ MainThreadCall(t)
              \/ \E ok \in BOOLEAN : RenderSet(t, ok) \/ GetChannelMap(t, ok)
       PROVE  UNCHANGED fileVars
  BY <1>9, <1>10 DEF MainThreadCall, RenderSet, GetChannelMap
<1>11. CASE UNCHANGED vars
  BY <1>11 DEF vars
<1> QED BY <1>1, <1>2, <1>3, <1>4, <1>5, <1>6, <1>7, <1>8, <1>10, <1>11
        DEF Next

(* The temporary file and the rename of ensureSamplePresetFiles() do what  *)
(* its comment asks of them, for any processes, samples and kills, as long *)
(* as two processes do not meet on one temporary file and no write falls   *)
(* short.                                                                  *)
THEOREM SamplesStayWhole == Spec => []FilesWhole
<1>1. FilesTypeOK /\ FilesInv /\ [Next]_vars => (FilesTypeOK /\ FilesInv)'
  <2> SUFFICES ASSUME FilesTypeOK, FilesInv, [Next]_vars
               PROVE  (FilesTypeOK /\ FilesInv)'
    OBVIOUS
  <2>1. CASE FilesNext
    BY <2>1, FilesTyped, FilesKept
  <2>2. CASE UNCHANGED fileVars
    BY <2>2 DEF fileVars, FilesTypeOK, FilesInv, OneHand, InHand, WrittenWhole,
       NonePartial
  <2> QED BY <2>1, <2>2, StepsOfFiles
<1>2. FilesInv => FilesWhole
  BY DEF FilesInv, FilesWhole, NonePartial
<1> QED BY <1>1, <1>2, FilesInitially, PTL DEF Spec
-----------------------------------------------------------------------------
(* The provider: unless init() was called from within its own callbacks,   *)
(* one init() runs at a time, and only while none has succeeded.           *)
Stages == {"samples", "filetype", "file", "plugin"}
ProviderInv ==
  /\ frames \in Seq(Stages) /\ nested \in BOOLEAN /\ unnoticed \in BOOLEAN
  /\ ~made => frames = <<>>
  /\ ~nested => /\ Len(frames) <= 1
                /\ frames # <<>> => ~initialized
                /\ ~unnoticed

(* The instance: what is counted is what was due.                          *)
CountsInv ==
  /\ counts = due /\ due \in [ThreadCode -> Nat] /\ hasCheck \in BOOLEAN

LEMMA ZeroCounts == Zero \in [ThreadCode -> Nat]
BY DEF Zero

(* Counting in the few lines that one call can give.                       *)
Counts(line, code) == line.code = code /\ line.severity = "HOST_MISBEHAVING"

LEMMA CountNone == ASSUME NEW c PROVE Counting(<<>>, c) = 0
<1>1. {i \in DOMAIN <<>> : <<>>[i].code = c
                           /\ <<>>[i].severity = "HOST_MISBEHAVING"} = {}
  OBVIOUS
<1> QED BY <1>1, FS_EmptySet DEF Counting

LEMMA CountOne ==
  ASSUME NEW x, NEW c
  PROVE  Counting(<<x>>, c) = IF Counts(x, c) THEN 1 ELSE 0
<1> DEFINE S == {i \in DOMAIN <<x>> : /\ <<x>>[i].code = c
                               /\ <<x>>[i].severity = "HOST_MISBEHAVING"}
<1>1. DOMAIN <<x>> = {1} /\ <<x>>[1] = x
  OBVIOUS
<1>2. S = IF Counts(x, c) THEN {1} ELSE {}
  BY <1>1 DEF Counts
<1>3. Cardinality({1}) = 1 /\ Cardinality({}) = 0
  BY FS_EmptySet, FS_Singleton
<1> QED BY <1>2, <1>3 DEF Counting

LEMMA CountTwo ==
  ASSUME NEW x, NEW y, NEW c, ~Counts(y, c)
  PROVE  Counting(<<x>> \o <<y>>, c) = IF Counts(x, c) THEN 1 ELSE 0
<1> DEFINE s == <<x>> \o <<y>>
           S == {i \in DOMAIN s : /\ s[i].code = c
                                  /\ s[i].severity = "HOST_MISBEHAVING"}
<1>1. DOMAIN s = {1, 2} /\ s[1] = x /\ s[2] = y
  <2>1. /\ <<x>> \in Seq({x, y}) /\ <<y>> \in Seq({x, y})
        /\ Len(<<x>>) = 1 /\ Len(<<y>>) = 1
    OBVIOUS
  <2>2. s \in Seq({x, y}) /\ Len(s) = 2
    BY <2>1
  <2>3. s[1] = x /\ s[2] = y
    BY <2>1
  <2>4. DOMAIN s = 1 .. 2
    BY <2>2
  <2> QED BY <2>3, <2>4
<1> HIDE DEF s
<1>2. S = IF Counts(x, c) THEN {1} ELSE {}
  BY <1>1 DEF Counts
<1>3. Cardinality({1}) = 1 /\ Cardinality({}) = 0
  BY FS_EmptySet, FS_Singleton
<1> QED BY <1>2, <1>3 DEF Counting, s

(* A call whose lines count what it is guilty of keeps counts and dues     *)
(* together.                                                               *)
Fair(lines, guilty) ==
  \A c \in ThreadCode :
    Counting(lines, c) = IF Asks /\ c \in guilty THEN 1 ELSE 0

LEMMA FairLogs ==
  ASSUME CountsInv, NEW lines, NEW guilty, Fair(lines, guilty),
         Logs(lines, guilty)
  PROVE  CountsInv' /\ UNCHANGED providerVars
<1>1. /\ counts' = [c \in ThreadCode |-> counts[c] + Counting(lines, c)]
      /\ due' = [c \in ThreadCode |->
                   due[c] + IF Asks /\ c \in guilty THEN 1 ELSE 0]
      /\ hasCheck' = hasCheck /\ UNCHANGED providerVars
  BY DEF Logs
<1>2. \A c \in ThreadCode : due[c] \in Nat
  BY DEF CountsInv
<1>3. due' \in [ThreadCode -> Nat]
  BY <1>1, <1>2
<1>4. counts' = due'
  BY <1>1 DEF Fair, CountsInv
<1> QED BY <1>1, <1>3, <1>4 DEF CountsInv

(* The lines of the main-thread functions: a verdict on the thread, and at *)
(* most one line of another code.                                          *)
LEMMA MainLinesFair ==
  ASSUME CountsInv, NEW t \in Threads,
         NEW code \in {"L02", "R01", "SR01"}, NEW true
  PROVE  /\ Fair(MainVerdict(t) \o <<>>, Guilty("T01", OffMain(t)))
         /\ Fair(MainVerdict(t), Guilty("T01", OffMain(t)))
         /\ Fair(MainVerdict(t) \o <<Host(code, true)>>,
                 Guilty("T01", OffMain(t)))
<1> DEFINE x == Finding("T01", hasCheck, OffMain(t))
           y == Host(code, true)
           g == Guilty("T01", OffMain(t))
<1>1. \A c \in ThreadCode : ~Counts(y, c)
  BY DEF Counts, Host, Line, ThreadCode
<1>2. \A c \in ThreadCode : Counts(x, c) <=> hasCheck /\ c = "T01"
  BY DEF Counts, Finding, Host, Line, ThreadCode
<1>3. \A c \in ThreadCode : c \in g <=> c = "T01" /\ OffMain(t)
  BY DEF Guilty
<1>4. CASE MainVerdict(t) = <<x>>
  <2>1. Informed /\ (hasCheck => OffMain(t)) /\ (Asks <=> hasCheck)
    BY <1>4 DEF MainVerdict, Asks
  <2> HIDE DEF x, y, g
  <2>2. /\ MainVerdict(t) \o <<>> = <<x>>
        /\ MainVerdict(t) \o <<y>> = <<x>> \o <<y>>
    BY <1>4
  <2>3. \A c \in ThreadCode :
          /\ Counting(<<x>>, c) = IF Asks /\ c \in g THEN 1 ELSE 0
          /\ Counting(<<x>> \o <<y>>, c) = IF Asks /\ c \in g THEN 1 ELSE 0
    <3> SUFFICES ASSUME NEW c \in ThreadCode
                 PROVE  /\ Counting(<<x>>, c)
                             = IF Asks /\ c \in g THEN 1 ELSE 0
                        /\ Counting(<<x>> \o <<y>>, c)
                             = IF Asks /\ c \in g THEN 1 ELSE 0
      OBVIOUS
    <3>1. Counts(x, c) <=> Asks /\ c \in g
      BY <1>2, <1>3, <2>1
    <3>2. /\ Counting(<<x>>, c) = IF Counts(x, c) THEN 1 ELSE 0
          /\ Counting(<<x>> \o <<y>>, c) = IF Counts(x, c) THEN 1 ELSE 0
      BY <1>1, CountOne, CountTwo
    <3> QED BY <3>1, <3>2
  <2>4. MainVerdict(t) = <<x>>
    BY <1>4 DEF x
  <2> QED BY <2>2, <2>3, <2>4 DEF Fair, g, y
<1>5. CASE MainVerdict(t) # <<x>>
  <2>1. MainVerdict(t) = <<>> /\ (Asks => ~OffMain(t))
    BY <1>5 DEF MainVerdict, Asks
  <2>2. /\ MainVerdict(t) \o <<>> = <<>>
        /\ MainVerdict(t) \o <<y>> = <<y>>
    BY <2>1
  <2> HIDE DEF x, y, g
  <2>3. \A c \in ThreadCode :
          /\ Counting(<<>>, c) = IF Asks /\ c \in g THEN 1 ELSE 0
          /\ Counting(<<y>>, c) = IF Asks /\ c \in g THEN 1 ELSE 0
    <3> SUFFICES ASSUME NEW c \in ThreadCode
                 PROVE  /\ Counting(<<>>, c)
                             = IF Asks /\ c \in g THEN 1 ELSE 0
                        /\ Counting(<<y>>, c)
                             = IF Asks /\ c \in g THEN 1 ELSE 0
      OBVIOUS
    <3>1. ~(Asks /\ c \in g)
      BY <1>3, <2>1
    <3>2. /\ Counting(<<>>, c) = 0
          /\ Counting(<<y>>, c) = IF Counts(y, c) THEN 1 ELSE 0
      BY CountNone, CountOne
    <3> QED BY <1>1, <3>1, <3>2
  <2> QED BY <2>1, <2>2, <2>3 DEF Fair, g, y
<1> QED BY <1>4, <1>5

(* A function that has one line, of its own code, or none.                 *)
LEMMA OneLineFair ==
  ASSUME CountsInv, NEW code \in ThreadCode, NEW x, NEW wrong \in BOOLEAN,
         NEW lines,
         Asks /\ wrong => lines = <<x>> /\ \A c : Counts(x, c) <=> c = code,
         ~(Asks /\ wrong) => lines = <<>>
  PROVE  Fair(lines, Guilty(code, wrong))
<1> SUFFICES ASSUME NEW c \in ThreadCode
             PROVE  Counting(lines, c) =
                      IF Asks /\ c \in Guilty(code, wrong) THEN 1 ELSE 0
  BY DEF Fair
<1>1. c \in Guilty(code, wrong) <=> c = code /\ wrong
  BY DEF Guilty
<1>2. CASE Asks /\ wrong
  <2>1. Counting(lines, c) = IF Counts(x, c) THEN 1 ELSE 0
    BY <1>2, CountOne
  <2> QED BY <1>1, <1>2, <2>1
<1>3. CASE ~(Asks /\ wrong)
  <2>1. Counting(lines, c) = 0
    BY <1>3, CountNone
  <2> QED BY <1>1, <1>3, <2>1
<1> QED BY <1>2, <1>3

(* A line of any other code is nobody's to count.                          *)
LEMMA OtherLineFair ==
  ASSUME NEW lines, NEW code, NEW wrong \in BOOLEAN, NEW y,
         Fair(lines, Guilty(code, wrong)),
         lines = <<>> \/ \E x : lines = <<x>>,
         \A c \in ThreadCode : ~Counts(y, c)
  PROVE  /\ Fair(lines \o <<>>, Guilty(code, wrong))
         /\ Fair(lines \o <<y>>, Guilty(code, wrong))
<1>1. CASE lines = <<>>
  <2>1. lines \o <<>> = lines /\ lines \o <<y>> = <<y>>
    BY <1>1
  <2>2. \A c \in ThreadCode : Counting(<<y>>, c) = Counting(lines, c)
    BY <1>1, CountNone, CountOne
  <2> QED BY <2>1, <2>2 DEF Fair
<1>2. ASSUME NEW x, lines = <<x>>
      PROVE  /\ Fair(lines \o <<>>, Guilty(code, wrong))
             /\ Fair(lines \o <<y>>, Guilty(code, wrong))
  <2>1. lines \o <<>> = lines /\ lines \o <<y>> = <<x>> \o <<y>>
    BY <1>2
  <2>2. \A c \in ThreadCode : Counting(<<x>> \o <<y>>, c) = Counting(lines, c)
    BY <1>2, CountOne, CountTwo
  <2> QED BY <2>1, <2>2 DEF Fair
<1> QED BY <1>1, <1>2

LEMMA InstanceKeeps ==
  ASSUME CountsInv, NEW t \in Threads,
         \/ SInitAgain(t) \/ SetActive(t) \/ AudioThreadCall(t)
         \/ GetExtension \/ ParamsFlush(t) \/ TailGet(t) \/ MainThreadCall(t)
         \/ \E ok \in BOOLEAN : RenderSet(t, ok) \/ GetChannelMap(t, ok)
  PROVE  CountsInv' /\ UNCHANGED providerVars
<1> DEFINE g == Guilty("T01", OffMain(t))
<1>1. CASE SInitAgain(t)
  BY <1>1, MainLinesFair, FairLogs DEF SInitAgain
<1>2. CASE SetActive(t)
  BY <1>2, MainLinesFair, FairLogs DEF SetActive
<1>3. CASE MainThreadCall(t)
  BY <1>3, MainLinesFair, FairLogs DEF MainThreadCall, OnMainThread
<1>4. ASSUME NEW ok \in BOOLEAN, RenderSet(t, ok)
      PROVE  CountsInv' /\ UNCHANGED providerVars
  <2>1. CASE ok
    BY <1>4, <2>1, MainLinesFair, FairLogs DEF RenderSet, OnMainThread
  <2>2. CASE ~ok
    BY <1>4, <2>2, MainLinesFair, FairLogs DEF RenderSet, OnMainThread
  <2> QED BY <2>1, <2>2
<1>5. ASSUME NEW ok \in BOOLEAN, GetChannelMap(t, ok)
      PROVE  CountsInv' /\ UNCHANGED providerVars
  <2>1. CASE ok
    BY <1>5, <2>1, MainLinesFair, FairLogs DEF GetChannelMap, OnMainThread
  <2>2. CASE ~ok
    BY <1>5, <2>2, MainLinesFair, FairLogs DEF GetChannelMap, OnMainThread
  <2> QED BY <2>1, <2>2
<1>6. CASE AudioThreadCall(t)
  <2> DEFINE x == Finding("T02", TRUE, OffAudio(t))
             w == OffAudio(t)
  <2>1. \A c : Counts(x, c) <=> c = "T02"
    BY DEF Counts, Finding, Host, Line
  <2>2. /\ Asks /\ w => AudioVerdict(t) = <<x>>
        /\ ~(Asks /\ w) => AudioVerdict(t) = <<>>
        /\ w \in BOOLEAN /\ "T02" \in ThreadCode
    BY DEF AudioVerdict, OffAudio, ThreadCode
  <2> HIDE DEF x, w
  <2>3. Fair(AudioVerdict(t), Guilty("T02", w))
    BY <2>1, <2>2, OneLineFair
  <2> DEFINE y == Host("L09", ~active)
  <2>4. \A c \in ThreadCode : ~Counts(y, c)
    BY DEF Counts, Host, Line, ThreadCode
  <2>5. Logs(AudioVerdict(t) \o <<>>, Guilty("T02", w))
        \/ Logs(AudioVerdict(t) \o <<y>>, Guilty("T02", w))
    BY <1>6 DEF AudioThreadCall, w
  <2> HIDE DEF y
  <2>6. /\ Fair(AudioVerdict(t) \o <<>>, Guilty("T02", w))
        /\ Fair(AudioVerdict(t) \o <<y>>, Guilty("T02", w))
    BY <2>2, <2>3, <2>4, OtherLineFair
  <2> QED BY <2>5, <2>6, FairLogs
<1>7. CASE ParamsFlush(t)
  <2> DEFINE w == IF active THEN OffAudio(t) ELSE OffMain(t)
             x == Host("T03", w)
  <2>1. \A c : Counts(x, c) <=> c = "T03"
    BY DEF Counts, Host, Line
  <2>2. /\ Asks /\ w => FlushVerdict(t) = <<x>>
        /\ ~(Asks /\ w) => FlushVerdict(t) = <<>>
        /\ w \in BOOLEAN /\ "T03" \in ThreadCode
    BY DEF FlushVerdict, ConfirmedNotAudio, ConfirmedNotMain, OffAudio,
       OffMain, ThreadCode
  <2> HIDE DEF x, w
  <2>3. Fair(FlushVerdict(t), Guilty("T03", w))
    BY <2>1, <2>2, OneLineFair
  <2> QED BY <1>7, <2>3, FairLogs DEF ParamsFlush, w
<1>8. CASE TailGet(t)
  <2> DEFINE w == OffMain(t) /\ OffAudio(t)
             x == Host("T04", w)
             lines == IF ConfirmedNotMain(t) /\ ConfirmedNotAudio(t)
                      THEN <<x>> ELSE <<>>
  <2>1. \A c : Counts(x, c) <=> c = "T04"
    BY DEF Counts, Host, Line
  <2>2. /\ Asks /\ w => lines = <<x>>
        /\ ~(Asks /\ w) => lines = <<>>
        /\ w \in BOOLEAN /\ "T04" \in ThreadCode
    BY DEF ConfirmedNotAudio, ConfirmedNotMain, OffAudio, OffMain, ThreadCode
  <2>l. Logs(lines, Guilty("T04", w))
    BY <1>8 DEF TailGet
  <2> HIDE DEF x, w, lines
  <2>3. Fair(lines, Guilty("T04", w))
    BY <2>1, <2>2, OneLineFair
  <2> QED BY <2>l, <2>3, FairLogs
<1>9. CASE GetExtension
  <2> DEFINE y == Host("L01", ~Informed)
  <2>1. \A c \in ThreadCode : ~Counts(y, c)
    BY DEF Counts, Host, Line, ThreadCode
  <2>2. Logs(<<>>, {}) \/ Logs(<<y>>, {})
    BY <1>9 DEF GetExtension
  <2> HIDE DEF y
  <2>3. Fair(<<>>, {}) /\ Fair(<<y>>, {})
    BY <2>1, CountNone, CountOne DEF Fair
  <2> QED BY <2>2, <2>3, FairLogs
<1> QED BY <1>1, <1>2, <1>3, <1>4, <1>5, <1>6, <1>7, <1>8, <1>9
-----------------------------------------------------------------------------
(* Sequences of frames.                                                    *)
LEMMA Frames ==
  ASSUME NEW s \in Seq(Stages), NEW x \in Stages
  PROVE  /\ Len(s) \in Nat /\ (s = <<>> <=> Len(s) = 0)
         /\ Append(s, x) \in Seq(Stages) /\ Len(Append(s, x)) = Len(s) + 1
         /\ s # <<>> =>
              /\ [s EXCEPT ![Len(s)] = x] \in Seq(Stages)
              /\ Len([s EXCEPT ![Len(s)] = x]) = Len(s)
              /\ SubSeq(s, 1, Len(s) - 1) \in Seq(Stages)
              /\ Len(SubSeq(s, 1, Len(s) - 1)) = Len(s) - 1
<1>1. Len(s) \in Nat /\ (s = <<>> <=> Len(s) = 0)
  OBVIOUS
<1>2. Append(s, x) \in Seq(Stages) /\ Len(Append(s, x)) = Len(s) + 1
  OBVIOUS
<1>3. ASSUME s # <<>>
      PROVE  /\ [s EXCEPT ![Len(s)] = x] \in Seq(Stages)
             /\ Len([s EXCEPT ![Len(s)] = x]) = Len(s)
  <2>1. Len(s) \in 1 .. Len(s)
    BY <1>1, <1>3
  <2> QED BY <2>1, ExceptSeq
<1>4. ASSUME s # <<>>
      PROVE  /\ SubSeq(s, 1, Len(s) - 1) \in Seq(Stages)
             /\ Len(SubSeq(s, 1, Len(s) - 1)) = Len(s) - 1
  <2>1. /\ 1 \in Int /\ Len(s) - 1 \in Int /\ Len(s) - 1 \in Nat
        /\ \A i \in 1 .. Len(s) - 1 : s[i] \in Stages
    BY <1>1, <1>4
  <2>2. /\ SubSeq(s, 1, Len(s) - 1) \in Seq(Stages)
        /\ Len(SubSeq(s, 1, Len(s) - 1))
             = IF 1 <= Len(s) - 1 THEN (Len(s) - 1) - 1 + 1 ELSE 0
    BY <2>1, SubSeqProperties
  <2>n. \A n \in Nat : (IF 1 <= n THEN n - 1 + 1 ELSE 0) = n
    OBVIOUS
  <2>3. (IF 1 <= Len(s) - 1 THEN (Len(s) - 1) - 1 + 1 ELSE 0) = Len(s) - 1
    BY ONLY <2>1, <2>n
  <2> QED BY <2>2, <2>3
<1> QED BY <1>1, <1>2, <1>3, <1>4

LEMMA NoFrames ==
  ASSUME NEW s, s = <<>>
  PROVE  s \in Seq(Stages) /\ Len(s) <= 1
OBVIOUS

(* What the instance's and the entry's functions leave alone.              *)
instanceCounts == <<counts, due, hasCheck>>

LEMMA CountsAside == CountsInv /\ UNCHANGED instanceCounts => CountsInv'
BY DEF CountsInv, instanceCounts

LEMMA ProviderAside == ProviderInv /\ UNCHANGED providerVars => ProviderInv'
BY DEF ProviderInv, providerVars

LEMMA ProviderKeeps ==
  ASSUME ProviderInv,
         \/ ProviderCreate \/ ProviderDestroy \/ ProviderInit
         \/ ProviderInitAgain \/ SamplesEnsured
         \/ \E accepted \in BOOLEAN : DeclareReturns(accepted)
         \/ ProviderGetMetadata \/ ProviderGetExtension
  PROVE  ProviderInv'
<1> USE DEF ProviderInv
<1>0. "samples" \in Stages /\ "filetype" \in Stages /\ "file" \in Stages
      /\ "plugin" \in Stages
  BY DEF Stages
<1>1. CASE ProviderCreate
  <2>1. /\ frames = <<>> /\ frames' = frames /\ made' = TRUE
        /\ nested' = FALSE /\ unnoticed' = FALSE
    BY <1>1 DEF ProviderCreate
  <2>2. Len(frames) <= 1
    BY <2>1, NoFrames
  <2>3. nested' \in BOOLEAN /\ unnoticed' \in BOOLEAN /\ ~unnoticed'
    BY <2>1
  <2>4. frames' \in Seq(Stages) /\ Len(frames') <= 1 /\ frames' = <<>>
    BY <2>1, <2>2
  <2> QED BY <2>3, <2>4
<1>2. CASE ProviderDestroy
  <2>1. /\ frames = <<>> /\ frames' = frames
        /\ nested' = FALSE /\ unnoticed' = FALSE
    BY <1>2 DEF ProviderDestroy
  <2>2. Len(frames) <= 1
    BY <2>1, NoFrames
  <2>3. nested' \in BOOLEAN /\ unnoticed' \in BOOLEAN /\ ~unnoticed'
    BY <2>1
  <2>4. frames' \in Seq(Stages) /\ Len(frames') <= 1 /\ frames' = <<>>
    BY <2>1, <2>2
  <2> QED BY <2>3, <2>4
<1>3. CASE ProviderInit
  <2>1. /\ made /\ ~initialized /\ nested' = (nested \/ InCallback)
        /\ made' = made /\ initialized' = initialized
        /\ unnoticed' = unnoticed /\ (frames = <<>> \/ InCallback)
    BY <1>3 DEF ProviderInit, MayCall
  <2>2. PICK x \in {"samples", "filetype"} : frames' = Append(frames, x)
    BY <1>3 DEF ProviderInit
  <2>3. frames' \in Seq(Stages) /\ Len(frames') = Len(frames) + 1
    BY <1>0, <2>2, Frames
  <2>4. ~nested' => Len(frames) = 0 /\ Len(frames) \in Nat
    BY <1>0, <2>1, Frames
  <2>5. nested' \in BOOLEAN
    BY <2>1 DEF InCallback
  <2> QED BY <2>1, <2>3, <2>4, <2>5
<1>4. CASE ProviderInitAgain
  <2>1. /\ nested' = (nested \/ InCallback) /\ frames' = frames
        /\ initialized' = initialized /\ made' = made
        /\ unnoticed' = unnoticed
    BY <1>4 DEF ProviderInitAgain, Judged
  <2>2. nested' \in BOOLEAN
    BY <2>1 DEF InCallback
  <2> QED BY <2>1, <2>2
<1>5. CASE SamplesEnsured
  <2>1. /\ frames # <<>> /\ frames' = [frames EXCEPT ![Len(frames)] = "filetype"]
        /\ initialized' = initialized /\ made' = made /\ nested' = nested
        /\ unnoticed' = unnoticed
    BY <1>5 DEF SamplesEnsured, Staged
  <2>2. frames' \in Seq(Stages) /\ Len(frames') = Len(frames)
    BY <1>0, <2>1, Frames
  <2> QED BY <2>1, <2>2
<1>6. ASSUME NEW accepted \in BOOLEAN, DeclareReturns(accepted)
      PROVE  ProviderInv'
  <2>1. /\ frames # <<>> /\ made' = made /\ nested' = nested
        /\ unnoticed' = unnoticed
    BY <1>6 DEF DeclareReturns, InCallback
  <2>2. CASE Returned
    <3>1. frames' \in Seq(Stages) /\ Len(frames') = Len(frames) - 1
      BY <1>0, <2>1, <2>2, Frames DEF Returned
    <3>2. ~nested => frames' = <<>>
      BY <1>0, <2>1, <3>1, Frames
    <3>3. ~nested => Len(frames') <= 1
      BY <1>0, <3>1, Frames
    <3> QED BY <2>1, <3>1, <3>2, <3>3
  <2>3. ASSUME NEW x \in Stages, Staged(x), initialized' = initialized
        PROVE  ProviderInv'
    <3>1. frames' \in Seq(Stages) /\ Len(frames') = Len(frames)
      BY <2>1, <2>3, Frames DEF Staged
    <3> QED BY <2>1, <2>3, <3>1
  <2> QED BY <1>0, <1>6, <2>2, <2>3 DEF DeclareReturns
<1>7. CASE ProviderGetMetadata \/ ProviderGetExtension
  <2>1. /\ frames' = frames /\ initialized' = initialized /\ made' = made
        /\ nested' = nested
    BY <1>7 DEF ProviderGetMetadata, ProviderGetExtension
  <2>2. unnoticed' = (unnoticed \/ (~ProviderReady /\ ~(~initialized \/ inDeclare)))
        \/ unnoticed' = (unnoticed \/ (~ProviderReady /\ ~~initialized))
    BY <1>7 DEF ProviderGetMetadata, ProviderGetExtension, Judged
  <2>3. ~nested /\ ~ProviderReady => ~initialized
    BY DEF ProviderReady
  <2>4. unnoticed' \in BOOLEAN /\ (~nested => ~unnoticed')
    BY <2>2, <2>3
  <2> QED BY <2>1, <2>4
<1> QED BY <1>1, <1>2, <1>3, <1>4, <1>5, <1>6, <1>7

LEMMA NoticedKeeps ==
  CountsInv /\ ProviderInv /\ [Next]_vars => (CountsInv /\ ProviderInv)'
<1> SUFFICES ASSUME CountsInv, ProviderInv, [Next]_vars
             PROVE  CountsInv' /\ ProviderInv'
  OBVIOUS
<1>1. CASE \/ EntryInit \/ EntryDeinit
           \/ \E p \in Processes : Scan(p) \/ KillOther(p)
           \/ UNCHANGED vars
  <2>1. UNCHANGED instanceCounts /\ UNCHANGED providerVars
    BY <1>1 DEF EntryInit, EntryDeinit, Scan, KillOther, vars, hostVars,
       instanceVars, instanceCounts
  <2> QED BY <2>1, CountsAside, ProviderAside
<1>2. CASE CreatePlugin \/ SDestroy
  <2>1. /\ counts' = Zero /\ due' = Zero /\ hasCheck' = hasCheck
        /\ UNCHANGED providerVars
    BY <1>2 DEF CreatePlugin, SDestroy, hostVars
  <2>2. CountsInv'
    BY <2>1, ZeroCounts DEF CountsInv
  <2> QED BY <2>1, <2>2, ProviderAside
<1>3. CASE KillMe
  <2>1. /\ counts' = Zero /\ due' = Zero /\ hasCheck' = hasCheck
        /\ made' = FALSE /\ initialized' = FALSE /\ frames' = <<>>
        /\ nested' = FALSE /\ unnoticed' = FALSE
    BY <1>3 DEF KillMe
  <2>2. CountsInv'
    BY <2>1, ZeroCounts DEF CountsInv
  <2>3. frames' \in Seq(Stages) /\ Len(frames') <= 1
    BY <2>1, NoFrames
  <2>b. nested' \in BOOLEAN /\ unnoticed' \in BOOLEAN /\ ~unnoticed'
    BY <2>1
  <2>f. frames' = <<>>
    BY <2>1
  <2>4. ProviderInv'
    BY <2>3, <2>b, <2>f DEF ProviderInv
  <2> QED BY <2>2, <2>4
<1>4. CASE \E t \in Threads : SInit(t)
  <2>1. UNCHANGED instanceCounts /\ UNCHANGED providerVars
    BY <1>4 DEF SInit, hostVars, instanceCounts
  <2> QED BY <2>1, CountsAside, ProviderAside
<1>5. ASSUME NEW t \in Threads,
             \/ SInitAgain(t) \/ SetActive(t) \/ AudioThreadCall(t)
             \/ GetExtension \/ ParamsFlush(t) \/ TailGet(t) \/ MainThreadCall(t)
             \/ \E ok \in BOOLEAN : RenderSet(t, ok) \/ GetChannelMap(t, ok)
      PROVE  CountsInv' /\ ProviderInv'
  BY <1>5, InstanceKeeps, ProviderAside
<1>6. CASE \/ ProviderCreate \/ ProviderDestroy \/ ProviderInit
           \/ ProviderInitAgain \/ SamplesEnsured
           \/ \E accepted \in BOOLEAN : DeclareReturns(accepted)
           \/ ProviderGetMetadata \/ ProviderGetExtension
  <2>1. UNCHANGED instanceCounts
    BY <1>6 DEF ProviderCreate, ProviderDestroy, ProviderInit,
       ProviderInitAgain, SamplesEnsured, DeclareReturns,
       ProviderGetMetadata, ProviderGetExtension, hostVars, instanceVars,
       instanceCounts
  <2> QED BY <1>6, <2>1, CountsAside, ProviderKeeps
<1> QED BY <1>1, <1>2, <1>3, <1>4, <1>5, <1>6, ServicesAssumption DEF Next

(* Nobody has been guilty of anything yet.                                 *)
LEMMA NoticedInit == Init => CountsInv /\ ProviderInv
<1> SUFFICES ASSUME Init PROVE CountsInv /\ ProviderInv
  OBVIOUS
<1>1. /\ counts = Zero /\ due = Zero /\ hasCheck \in BOOLEAN
      /\ frames = <<>> /\ nested = FALSE /\ unnoticed = FALSE
  BY DEF Init
<1>2. CountsInv
  BY <1>1, ZeroCounts DEF CountsInv
<1>3. frames \in Seq(Stages) /\ Len(frames) <= 1
  BY <1>1, NoFrames
<1>4. nested \in BOOLEAN /\ unnoticed \in BOOLEAN /\ ~unnoticed
  BY <1>1
<1>5. frames = <<>>
  BY <1>1
<1>6. ProviderInv
  BY <1>3, <1>4, <1>5 DEF ProviderInv
<1> QED BY <1>2, <1>6

(* threadcheck.cpp and preset_discovery.cpp: T01..T04 count the calls on a *)
(* wrong thread and no others, and a provider that is not called into      *)
(* init() by its own callbacks notices each use of it out of turn.         *)
THEOREM NoMisuseEscapes == Spec => []MisuseNoticed
<1>1. CountsInv /\ ProviderInv => MisuseNoticed
  BY DEF CountsInv, ProviderInv, MisuseNoticed
<1> QED BY <1>1, NoticedInit, NoticedKeeps, PTL DEF Spec
-----------------------------------------------------------------------------
(* What a fold over a log's lines yields.                                  *)

Less == {p \in Nat \X Nat : p[1] < p[2]}

(* Induction over the numbers, for a set of them.                          *)
LEMMA Inductive ==
  ASSUME NEW T, 0 \in T, \A n \in Nat : n \in T => n + 1 \in T
  PROVE  \A n \in Nat : n \in T
<1> SUFFICES ASSUME Nat \ T # {} PROVE FALSE
  OBVIOUS
<1>1. IsWellFoundedOn(Less, Nat)
  <2>1. IsWellFoundedOn(OpToRel(<, Nat), Nat)
    BY NatLessThanWellFounded
  <2>2. OpToRel(<, Nat) = Less
    BY DEF OpToRel, Less
  <2> QED BY <2>1, <2>2
<1>2. PICK n \in Nat \ T : \A m \in Nat \ T : ~(<<m, n>> \in Less)
  <2>1. Nat \ T \subseteq Nat
    OBVIOUS
  <2> QED BY <1>1, <2>1, WFMin
<1>3. n # 0 /\ n - 1 \in Nat /\ (n - 1) + 1 = n
  BY <1>2
<1>4. <<n - 1, n>> \in Less
  BY <1>2, <1>3 DEF Less
<1>5. n - 1 \in T
  BY <1>2, <1>3, <1>4
<1> QED BY <1>2, <1>3, <1>5

(* The library folds from the largest index: what is left of it first.     *)
LastOf(s) == CHOOSE x \in s : \A y \in s : x >= y
Folding(base, seq, fold, s) ==
  IF s = {} THEN base
  ELSE Appended(fold[s \ {LastOf(s)}], seq[LastOf(s)])
Fold(base, seq, n) ==
  CHOOSE fold : fold = [s \in SUBSET (1 .. n) |-> Folding(base, seq, fold, s)]

(* The community modules' fold is that one.                                *)
LEMMA FoldLeftIsFold ==
  ASSUME NEW base, NEW seq, NEW n, DOMAIN seq = 1 .. n
  PROVE  FoldLeft(Appended, base, seq) = Fold(base, seq, n)[1 .. n]
BY DEF FoldLeft, MapThenFoldSet, Fold, Folding, LastOf, Max

(* Without its largest, a set of indices is one of smaller ones.           *)
LEMMA LastIndex ==
  \A n \in Nat : \A s \in SUBSET (1 .. n) : s # {} =>
    LastOf(s) \in s /\ \A y \in s : LastOf(s) >= y
<1> DEFINE T == {n \in Nat : \A s \in SUBSET (1 .. n) : s # {} =>
                   \E x \in s : \A y \in s : x >= y}
<1>1. 0 \in T
  <2>1. \A s \in SUBSET (1 .. 0) : s = {}
    OBVIOUS
  <2> QED BY <2>1
<1>2. ASSUME NEW n \in Nat, n \in T PROVE n + 1 \in T
  <2> SUFFICES ASSUME NEW s \in SUBSET (1 .. n + 1), s # {}
               PROVE  \E x \in s : \A y \in s : x >= y
    OBVIOUS
  <2>1. CASE n + 1 \in s
    BY <2>1
  <2>2. CASE n + 1 \notin s
    <3>1. s \in SUBSET (1 .. n)
      BY <2>2
    <3> QED BY <1>2, <3>1
  <2> QED BY <2>1, <2>2
<1> HIDE DEF T
<1>3. \A n \in Nat : n \in T
  BY <1>1, <1>2, Inductive
<1> QED BY <1>3 DEF T, LastOf

(* The folds exist, and are computed from each other.                      *)
LEMMA FoldsExist ==
  ASSUME NEW base, NEW seq
  PROVE  \A n \in Nat : \E fold :
           fold = [s \in SUBSET (1 .. n) |-> Folding(base, seq, fold, s)]
<1> DEFINE T == {n \in Nat : \E fold :
                   fold = [s \in SUBSET (1 .. n) |-> Folding(base, seq, fold, s)]}
<1>1. 0 \in T
  <2> DEFINE none == [s \in SUBSET (1 .. 0) |-> base]
  <2>1. \A s \in SUBSET (1 .. 0) : Folding(base, seq, none, s) = base
    BY DEF Folding
  <2>2. none = [s \in SUBSET (1 .. 0) |-> Folding(base, seq, none, s)]
    BY <2>1
  <2> QED BY <2>2
<1>2. ASSUME NEW n \in Nat, n \in T PROVE n + 1 \in T
  <2>1. PICK fold : fold = [s \in SUBSET (1 .. n) |-> Folding(base, seq, fold, s)]
    BY <1>2
  <2> DEFINE next == [s \in SUBSET (1 .. n + 1) |-> Folding(base, seq, fold, s)]
  <2>2. ASSUME NEW s \in SUBSET (1 .. n) PROVE next[s] = fold[s]
    <3>1. s \in SUBSET (1 .. n + 1)
      OBVIOUS
    <3>2. next[s] = Folding(base, seq, fold, s)
      BY <3>1
    <3>3. fold[s] = Folding(base, seq, fold, s)
      BY <2>1
    <3> QED BY <3>2, <3>3
  <2> HIDE DEF next
  <2>3. ASSUME NEW s \in SUBSET (1 .. n + 1)
        PROVE  Folding(base, seq, fold, s) = Folding(base, seq, next, s)
    <3>1. CASE s = {}
      BY <3>1 DEF Folding
    <3>2. CASE s # {}
      <4>1. LastOf(s) \in s /\ \A y \in s : LastOf(s) >= y
        <5> DEFINE m == n + 1
        <5>1. m \in Nat /\ s \in SUBSET (1 .. m)
          OBVIOUS
        <5> HIDE DEF m
        <5> QED BY <3>2, <5>1, LastIndex
      <4>2. s \ {LastOf(s)} \in SUBSET (1 .. n)
        <5> DEFINE m == LastOf(s)
        <5>1. m \in 1 .. n + 1
          BY <4>1
        <5>2. \A y \in s : y \in 1 .. n + 1 /\ m >= y
          BY <4>1
        <5> HIDE DEF m
        <5>3. \A y \in s \ {m} : y \in 1 .. n
          BY <5>1, <5>2
        <5> QED BY <5>3 DEF m
      <4>3. next[s \ {LastOf(s)}] = fold[s \ {LastOf(s)}]
        BY <2>2, <4>2
      <4> QED BY <4>3 DEF Folding
    <3> QED BY <3>1, <3>2
  <2>4. next = [s \in SUBSET (1 .. n + 1) |-> Folding(base, seq, next, s)]
    BY <2>3 DEF next
  <2> QED BY <2>4
<1> HIDE DEF T
<1>3. \A n \in Nat : n \in T
  BY <1>1, <1>2, Inductive
<1> QED BY <1>3 DEF T

(* A fold takes one line at a time.                                        *)
LEMMA FoldSteps ==
  ASSUME NEW base, NEW seq, NEW n \in Nat
  PROVE  /\ Fold(base, seq, n)[1 .. 0] = base
         /\ \A k \in 0 .. n - 1 :
              Fold(base, seq, n)[1 .. k + 1]
                = Appended(Fold(base, seq, n)[1 .. k], seq[k + 1])
<1> DEFINE f == Fold(base, seq, n)
<1>1. f = [s \in SUBSET (1 .. n) |-> Folding(base, seq, f, s)]
  BY FoldsExist DEF Fold
<1> HIDE DEF f
<1>2. f[1 .. 0] = base
  <2>1. 1 .. 0 = {} /\ 1 .. 0 \in SUBSET (1 .. n)
    OBVIOUS
  <2>2. f[1 .. 0] = Folding(base, seq, f, 1 .. 0)
    BY <1>1, <2>1
  <2> QED BY <2>1, <2>2 DEF Folding
<1>3. ASSUME NEW k \in 0 .. n - 1
      PROVE  f[1 .. k + 1] = Appended(f[1 .. k], seq[k + 1])
  <2> DEFINE s == 1 .. k + 1
  <2>1. s \in SUBSET (1 .. n) /\ s # {} /\ k + 1 \in s
    OBVIOUS
  <2>2. LastOf(s) = k + 1
    <3>1. LastOf(s) \in s /\ \A y \in s : LastOf(s) >= y
      BY <2>1, LastIndex
    <3> QED BY <2>1, <3>1
  <2>3. s \ {k + 1} = 1 .. k
    OBVIOUS
  <2>4. f[s] = Folding(base, seq, f, s)
    BY <1>1, <2>1
  <2> HIDE DEF s
  <2> QED BY <2>1, <2>2, <2>3, <2>4 DEF Folding, s
<1> QED BY <1>2, <1>3 DEF f
-----------------------------------------------------------------------------
(* A log of lines from a set: what it has dropped shows in its version.    *)

Kept(S, l) ==
  /\ l.lines \in Seq(S) /\ l.version \in Nat
  /\ Len(l.lines) = IF l.version <= LogCapacity THEN l.version ELSE LogCapacity

(* The lines are numbered in the order they came, from one; the log has    *)
(* those behind the number of the last one it dropped.                     *)
Dropped(l) == l.version - Len(l.lines)
LineAt(l, v) == l.lines[v - Dropped(l)]

(* What log m has kept of log l stands under its old number.               *)
Follows(l, m) ==
  \A v \in 1 .. l.version :
    Dropped(m) < v => Dropped(l) < v /\ LineAt(m, v) = LineAt(l, v)

(* Those of seq came next.                                                 *)
Behind(l, seq, m) ==
  \A j \in 1 .. Len(seq) :
    Dropped(m) < l.version + j => LineAt(m, l.version + j) = seq[j]

(* append(): one line more, or the oldest dropped for it.                  *)
LEMMA AppendedKeeps ==
  ASSUME NEW S, NEW l, Kept(S, l), NEW x \in S
  PROVE  /\ Kept(S, Appended(l, x))
         /\ Appended(l, x).version = l.version + 1
         /\ Follows(l, Appended(l, x))
         /\ LineAt(Appended(l, x), l.version + 1) = x
<1> DEFINE g == Append(l.lines, x)
           m == Appended(l, x)
<1>1. /\ g \in Seq(S) /\ Len(g) = Len(l.lines) + 1 /\ Len(l.lines) \in Nat
      /\ \A i \in 1 .. Len(l.lines) : g[i] = l.lines[i]
      /\ g[Len(l.lines) + 1] = x
  BY AppendProperties DEF Kept
<1>2. /\ m.lines = IF Len(g) > LogCapacity THEN Tail(g) ELSE g
      /\ m.version = l.version + 1
  BY DEF Appended
<1> HIDE DEF g, m
<1>3. /\ Tail(g) \in Seq(S) /\ Len(Tail(g)) = Len(g) - 1
      /\ \A i \in 1 .. Len(g) - 1 : Tail(g)[i] = g[i + 1]
  <2>1. g # <<>>
    BY <1>1, EmptySeq
  <2> QED BY <1>1, <2>1, HeadTailProperties
<1>4. LogCapacity \in Nat \ {0} /\ l.version \in Nat
  BY CapacityAssumption DEF Kept
<1>5. Kept(S, m)
  BY <1>1, <1>2, <1>3, <1>4 DEF Kept
<1>6. CASE Len(g) > LogCapacity
  <2>1. m.lines = Tail(g) /\ Dropped(m) = Dropped(l) + 1
    BY <1>1, <1>2, <1>3, <1>4, <1>6 DEF Dropped
  <2>2. Dropped(l) \in Int /\ l.version = Dropped(l) + Len(l.lines)
    BY <1>1, <1>4 DEF Dropped
  <2>3. ASSUME NEW v \in 1 .. l.version, Dropped(m) < v
        PROVE  Dropped(l) < v /\ LineAt(m, v) = LineAt(l, v)
    <3>1. /\ v - Dropped(m) \in 1 .. Len(g) - 1
          /\ (v - Dropped(m)) + 1 = v - Dropped(l)
          /\ v - Dropped(l) \in 1 .. Len(l.lines) /\ Dropped(l) < v
      BY <1>1, <1>4, <2>1, <2>2, <2>3
    <3> QED BY <1>1, <1>3, <2>1, <3>1 DEF LineAt
  <2>4. LineAt(m, l.version + 1) = x
    <3>0. CASE Len(l.lines) = 0
      BY <1>1, <1>4, <1>6, <3>0
    <3>1. CASE Len(l.lines) # 0
      <4>1. /\ (l.version + 1) - Dropped(m) = Len(l.lines)
            /\ Len(l.lines) \in 1 .. Len(g) - 1
        BY <1>1, <1>4, <2>1, <2>2, <3>1
      <4> QED BY <1>1, <1>3, <2>1, <4>1 DEF LineAt
    <3> QED BY <3>0, <3>1
  <2> QED BY <1>2, <1>5, <2>3, <2>4 DEF Follows, m
<1>7. CASE ~(Len(g) > LogCapacity)
  <2>1. m.lines = g /\ Dropped(m) = Dropped(l)
    BY <1>1, <1>2, <1>4, <1>7 DEF Dropped
  <2>2. Dropped(l) \in Int /\ l.version = Dropped(l) + Len(l.lines)
    BY <1>1, <1>4 DEF Dropped
  <2>3. ASSUME NEW v \in 1 .. l.version, Dropped(m) < v
        PROVE  Dropped(l) < v /\ LineAt(m, v) = LineAt(l, v)
    <3>1. v - Dropped(l) \in 1 .. Len(l.lines)
      BY <1>1, <1>4, <2>1, <2>2, <2>3
    <3> QED BY <1>1, <2>1, <2>3, <3>1 DEF LineAt
  <2>4. LineAt(m, l.version + 1) = x
    <3>1. (l.version + 1) - Dropped(m) = Len(l.lines) + 1
      BY <1>1, <1>4, <2>1, <2>2
    <3> QED BY <1>1, <2>1, <3>1 DEF LineAt
  <2> QED BY <1>2, <1>5, <2>3, <2>4 DEF Follows, m
<1> QED BY <1>6, <1>7

(* The first lines of a sequence stay where they are when more follow.     *)
LEMMA FirstLines ==
  ASSUME NEW S, NEW s \in Seq(S), NEW u \in Seq(S), NEW k \in Nat, k <= Len(s)
  PROVE  /\ SubSeq(s \o u, 1, k) = SubSeq(s, 1, k)
         /\ SubSeq(s, 1, k) \in Seq(S) /\ Len(SubSeq(s, 1, k)) = k
         /\ s \o u \in Seq(S) /\ Len(s \o u) = Len(s) + Len(u)
         /\ s \o <<>> = s /\ <<>> \o s = s /\ SubSeq(s, 1, Len(s)) = s
         /\ \A i \in 1 .. k : SubSeq(s, 1, k)[i] = s[i]
<1>1. /\ s \o u \in Seq(S) /\ Len(s \o u) = Len(s) + Len(u)
      /\ \A i \in 1 .. Len(s) : (s \o u)[i] = s[i]
  BY ConcatProperties
<1>2. /\ Len(s) \in Nat /\ 1 \in 1 .. Len(s) + 1 /\ k \in 0 .. Len(s)
      /\ k \in 0 .. Len(s \o u)
  BY <1>1
<1>3. \A r \in Seq(S) : k <= Len(r) =>
        /\ SubSeq(r, 1, k) \in Seq(S) /\ Len(SubSeq(r, 1, k)) = k
        /\ \A i \in 1 .. k : SubSeq(r, 1, k)[i] = r[i]
  OBVIOUS
<1>4. SubSeq(s \o u, 1, k) = SubSeq(s, 1, k)
  <2>1. \A i \in 1 .. k : SubSeq(s \o u, 1, k)[i] = SubSeq(s, 1, k)[i]
    BY <1>1, <1>2, <1>3
  <2> QED BY <1>1, <1>2, <1>3, <2>1, SeqEqual
<1>5. s \o <<>> = s /\ <<>> \o s = s /\ SubSeq(s, 1, Len(s)) = s
  OBVIOUS
<1> QED BY <1>1, <1>3, <1>4, <1>5

(* Many lines: the version counts them, and each stands under the number   *)
(* it was given until it is dropped.                                       *)
LEMMA FoldKeeps ==
  ASSUME NEW S, NEW l, Kept(S, l), NEW seq \in Seq(S)
  PROVE  /\ Kept(S, FoldLeft(Appended, l, seq))
         /\ FoldLeft(Appended, l, seq).version = l.version + Len(seq)
         /\ Follows(l, FoldLeft(Appended, l, seq))
         /\ Behind(l, seq, FoldLeft(Appended, l, seq))
<1> DEFINE n == Len(seq)
           f == Fold(l, seq, n)
           Upto(m, k) ==
             \A j \in 1 .. k : Dropped(m) < l.version + j =>
               LineAt(m, l.version + j) = seq[j]
           Good(m, k) == /\ Kept(S, m) /\ m.version = l.version + k
                         /\ Follows(l, m) /\ Upto(m, k)
           T == {k \in Nat : k <= n => Good(f[1 .. k], k)}
<1>1. FoldLeft(Appended, l, seq) = f[1 .. n]
  <2>1. DOMAIN seq = 1 .. n
    OBVIOUS
  <2> QED BY <2>1, FoldLeftIsFold
<1>2. n \in Nat /\ l.version \in Nat /\ LogCapacity \in Nat
  BY CapacityAssumption DEF Kept
<1>3. /\ f[1 .. 0] = l
      /\ \A k \in 0 .. n - 1 : f[1 .. k + 1] = Appended(f[1 .. k], seq[k + 1])
  BY <1>2, FoldSteps
<1>s. \A k \in 1 .. n : seq[k] \in S
  OBVIOUS
<1> HIDE DEF f, n
<1>4. Good(l, 0)
  BY <1>2 DEF Follows
<1>5. ASSUME NEW m, NEW k \in Nat, k + 1 <= n, Good(m, k)
      PROVE  Good(Appended(m, seq[k + 1]), k + 1)
  <2> DEFINE r == Appended(m, seq[k + 1])
  <2>1. seq[k + 1] \in S
    BY <1>2, <1>5, <1>s
  <2>2. /\ Kept(S, r) /\ r.version = m.version + 1 /\ Follows(m, r)
        /\ LineAt(r, m.version + 1) = seq[k + 1]
    BY <1>5, <2>1, AppendedKeeps
  <2> HIDE DEF r
  <2>3. m.version = l.version + k /\ m.version + 1 = l.version + (k + 1)
    BY <1>2, <1>5
  <2>4. Follows(l, r)
    <3>1. \A v \in 1 .. l.version : v \in 1 .. m.version
      BY <1>2, <2>3
    <3> QED BY <1>5, <2>2, <3>1 DEF Follows
  <2>5. ASSUME NEW j \in 1 .. k + 1, Dropped(r) < l.version + j
        PROVE  LineAt(r, l.version + j) = seq[j]
    <3>1. CASE j = k + 1
      BY <2>2, <2>3, <3>1
    <3>2. CASE j # k + 1
      <4>1. j \in 1 .. k /\ l.version + j \in 1 .. m.version
        BY <1>2, <1>5, <2>3, <3>2
      <4> QED BY <1>5, <2>2, <2>5, <4>1 DEF Follows
    <3> QED BY <3>1, <3>2
  <2> QED BY <2>2, <2>3, <2>4, <2>5 DEF r
<1> HIDE DEF Good
<1>6. 0 \in T
  BY <1>3, <1>4
<1>7. ASSUME NEW k \in Nat, k \in T PROVE k + 1 \in T
  <2>1. ASSUME k + 1 <= n PROVE Good(f[1 .. k + 1], k + 1)
    <3>1. Good(f[1 .. k], k) /\ k \in 0 .. n - 1
      BY <1>2, <1>7, <2>1
    <3> QED BY <1>3, <1>5, <2>1, <3>1
  <2> QED BY <2>1
<1> HIDE DEF T
<1>8. n \in T
  BY <1>2, <1>6, <1>7, Inductive
<1>9. Good(f[1 .. n], n)
  BY <1>2, <1>8 DEF T
<1> QED BY <1>1, <1>9 DEF Good, n, Behind
-----------------------------------------------------------------------------
(* The lines: each has one of three severities, and a line that accuses    *)
(* says what is so.  Those of the early log all do.                        *)
LineCode == {"init", "E01", "E02", "E03", "PD01", "L01", "L02", "L09",
             "R01", "SR01", "T01", "T02", "T03", "T04"}
Said == [severity : {"HOST_MISBEHAVING", "WARNING", "INFO"}, code : LineCode,
         true : BOOLEAN]
Honest == {l \in Said : l.severity = "HOST_MISBEHAVING" => l.true}
Sure == {l \in Said : l.true}

(* How many lines of the early log there are when n were given to it.      *)
Early(n) == IF n < EarlyCapacity THEN n ELSE EarlyCapacity

(* The early log has the first lines given to it, as many as it holds; the *)
(* log of an instance has had them behind those that were there at init(). *)
(* The provider looks at inDeclare for a line on init() from a callback,   *)
(* which is right as inDeclare is only set while an init() runs.           *)
EarlyInv ==
  /\ written \in Seq(Sure)
  /\ early = SubSeq(written, 1, Early(Len(written)))
  /\ inDeclare => frames # <<>>
LogInv ==
  /\ Kept(Honest, log)
  /\ instance = "ready" =>
       /\ heard \in 0 .. Len(written) /\ ahead \in Nat
       /\ ahead + Early(heard) <= log.version
       /\ \A k \in 1 .. Early(heard) :
            Dropped(log) < ahead + k => LineAt(log, ahead + k) = written[k]

(* The early log fills up, and then stays full.                            *)
LEMMA EarlyCount ==
  ASSUME NEW n \in Nat
  PROVE  /\ Early(n) \in 0 .. n /\ Early(n) <= EarlyCapacity
         /\ \A m \in Nat : n <= m => Early(n) <= Early(m)
         /\ Early(n) >= EarlyCapacity => Early(n + 1) = Early(n)
         /\ ~(Early(n) >= EarlyCapacity) => Early(n) = n /\ Early(n + 1) = n + 1
BY CapacityAssumption DEF Early

(* One line as a sequence, and none.                                       *)
LEMMA Singles ==
  ASSUME NEW S
  PROVE  /\ <<>> \in Seq(S) /\ Len(<<>>) = 0
         /\ \A x \in S : <<x>> \in Seq(S)
OBVIOUS

LEMMA OneBehind ==
  ASSUME NEW S, NEW s \in Seq(S), NEW x \in S
  PROVE  \A i \in 1 .. Len(s) : Append(s, x)[i] = s[i]
BY AppendProperties

(* A line that is true whenever it is reported joins the early log.        *)
LEMMA ReportKeeps ==
  ASSUME written \in Seq(Sure), early = SubSeq(written, 1, Early(Len(written))),
         NEW condition \in BOOLEAN, NEW code \in LineCode, NEW true,
         condition => true = TRUE, ReportEarly(condition, code, true)
  PROVE  /\ written' \in Seq(Sure)
         /\ early' = SubSeq(written', 1, Early(Len(written')))
         /\ Len(written) <= Len(written')
         /\ \A k \in 1 .. Len(written) : written'[k] = written[k]
<1>1. CASE ~condition
  BY <1>1 DEF ReportEarly, earlyVars
<1>2. CASE condition
  <2> DEFINE x == Host(code, true)
             n == Len(written)
  <2>1. x \in Sure
    BY <1>2 DEF Sure, Said, Host, Line
  <2>2. written' = Append(written, x) /\ early' = EarlyAppended(early, x)
    BY <1>2 DEF ReportEarly
  <2> HIDE DEF x
  <2>3. /\ written' \in Seq(Sure) /\ Len(written') = n + 1 /\ n \in Nat
        /\ written' = written \o <<x>> /\ <<x>> \in Seq(Sure)
    BY <2>1, <2>2
  <2>4. \A k \in 1 .. n : written'[k] = written[k]
    <3>1. \A i \in 1 .. Len(written) : Append(written, x)[i] = written[i]
      BY <2>1, OneBehind
    <3> QED BY <2>2, <3>1
  <2>g. written' \in Seq(Sure) /\ Len(written) <= Len(written')
    BY <2>3
  <2>5. Len(early) = Early(n)
    BY <2>3, EarlyCount, FirstLines
  <2>6. CASE Early(n) >= EarlyCapacity
    <3>1. early' = early
      BY <2>2, <2>5, <2>6 DEF EarlyAppended
    <3>2. Early(n + 1) = Early(n) /\ Early(n) \in 0 .. n
      BY <2>3, <2>6, EarlyCount
    <3>3. SubSeq(written', 1, Early(n)) = SubSeq(written, 1, Early(n))
      BY <2>3, <3>2, FirstLines
    <3> QED BY <2>3, <2>4, <3>1, <3>2, <3>3
  <2>7. CASE ~(Early(n) >= EarlyCapacity)
    <3>1. early' = Append(early, x)
      BY <2>2, <2>5, <2>7 DEF EarlyAppended
    <3>2. Early(n) = n /\ Early(n + 1) = n + 1
      BY <2>3, <2>7, EarlyCount
    <3>3. early = written
      BY <2>3, <3>2, FirstLines
    <3>4. SubSeq(written', 1, n + 1) = written'
      BY <2>3, FirstLines
    <3>5. early' = SubSeq(written', 1, Early(Len(written')))
      BY <2>2, <2>3, <3>1, <3>2, <3>3, <3>4
    <3> QED BY <2>g, <2>4, <3>5
  <2> QED BY <2>3, <2>4, <2>6, <2>7
<1> QED BY <1>1, <1>2

(* The instance is left alone, and the early log at most gets more lines.  *)
LEMMA LogAside ==
  ASSUME LogInv, written \in Seq(Sure), written' \in Seq(Sure),
         log' = log, instance' = instance, heard' = heard, ahead' = ahead,
         Len(written) <= Len(written'),
         \A k \in 1 .. Len(written) : written'[k] = written[k]
  PROVE  LogInv'
<1>1. Len(written) \in Nat /\ Len(written') \in Nat
  OBVIOUS
<1>2. Kept(Honest, log)'
  BY DEF LogInv, Kept
<1>3. ASSUME instance' = "ready"
      PROVE  /\ heard' \in 0 .. Len(written') /\ ahead' \in Nat
             /\ ahead' + Early(heard') <= log'.version
             /\ \A k \in 1 .. Early(heard') :
                  Dropped(log') < ahead' + k =>
                    LineAt(log', ahead' + k) = written'[k]
  <2>1. /\ heard \in 0 .. Len(written) /\ ahead \in Nat
        /\ ahead + Early(heard) <= log.version
        /\ \A k \in 1 .. Early(heard) :
             Dropped(log) < ahead + k => LineAt(log, ahead + k) = written[k]
    BY <1>3 DEF LogInv
  <2>2. Early(heard) \in 0 .. Len(written)
    BY <1>1, <2>1, EarlyCount
  <2>3. \A k \in 1 .. Early(heard) : written'[k] = written[k]
    BY <1>1, <2>2
  <2>4. heard \in 0 .. Len(written')
    BY <1>1, <2>1
  <2> QED BY <2>1, <2>3, <2>4
<1>4. LogInv'
  BY <1>2, <1>3 DEF LogInv, Dropped, LineAt
<1> QED BY <1>4

(* A new log.                                                               *)
LEMMA EmptyKept == Kept(Honest, EmptyLog)
BY CapacityAssumption, Singles DEF Kept, EmptyLog

(* The functions of an instance add lines behind the ones it has.          *)
LEMMA LogsKeep ==
  ASSUME LogInv, written \in Seq(Sure), instance' = instance,
         NEW lines \in Seq(Honest), NEW guilty, Logs(lines, guilty)
  PROVE  LogInv' /\ UNCHANGED <<written, early, inDeclare, frames>>
<1>1. /\ log' = FoldLeft(Appended, log, lines)
      /\ heard' = heard /\ ahead' = ahead
      /\ UNCHANGED <<written, early, inDeclare, frames>>
  BY DEF Logs, earlyVars, providerVars
<1>2. Kept(Honest, log)
  BY DEF LogInv
<1>3. /\ Kept(Honest, log') /\ log'.version = log.version + Len(lines)
      /\ Follows(log, log')
  BY <1>1, <1>2, FoldKeeps
<1>4. log.version \in Nat /\ Len(lines) \in Nat
  BY <1>2 DEF Kept
<1>5. ASSUME instance = "ready"
      PROVE  /\ heard \in 0 .. Len(written) /\ ahead \in Nat
             /\ ahead + Early(heard) <= log'.version
             /\ \A k \in 1 .. Early(heard) :
                  Dropped(log') < ahead + k =>
                    LineAt(log', ahead + k) = written[k]
  <2>1. /\ heard \in 0 .. Len(written) /\ ahead \in Nat
        /\ ahead + Early(heard) <= log.version
        /\ \A k \in 1 .. Early(heard) :
             Dropped(log) < ahead + k => LineAt(log, ahead + k) = written[k]
    BY <1>5 DEF LogInv
  <2>2. Early(heard) \in Nat
    BY <2>1, EarlyCount
  <2>3. \A k \in 1 .. Early(heard) : ahead + k \in 1 .. log.version
    BY <1>4, <2>1, <2>2
  <2>4. \A k \in 1 .. Early(heard) :
          Dropped(log') < ahead + k => LineAt(log', ahead + k) = written[k]
    BY <1>3, <2>1, <2>3 DEF Follows
  <2>5. ahead + Early(heard) <= log'.version
    BY <1>3, <1>4, <2>1, <2>2
  <2> QED BY <2>1, <2>4, <2>5
<1>6. Kept(Honest, log)'
  BY <1>3 DEF Kept
<1>7. LogInv'
  BY <1>1, <1>5, <1>6 DEF LogInv, Dropped, LineAt
<1> QED BY <1>1, <1>7

(* What the thread checks say accuses nobody of what is not so.            *)
LEMMA VerdictsHonest ==
  ASSUME NEW t
  PROVE  /\ MainVerdict(t) \in Seq(Honest) /\ AudioVerdict(t) \in Seq(Honest)
         /\ FlushVerdict(t) \in Seq(Honest)
         /\ \A code \in LineCode : <<Host(code, TRUE)>> \in Seq(Honest)
         /\ \A lines \in Seq(Honest) : MainVerdict(t) \o lines \in Seq(Honest)
         /\ \A lines \in Seq(Honest) : AudioVerdict(t) \o lines \in Seq(Honest)
         /\ <<>> \in Seq(Honest)
<1> DEFINE main == Finding("T01", hasCheck, OffMain(t))
<1>1. ASSUME NEW code \in LineCode PROVE Host(code, TRUE) \in Honest
  BY DEF Host, Line, Honest, Said
<1>2. \A code \in LineCode : <<Host(code, TRUE)>> \in Seq(Honest)
  BY <1>1, Singles
<1>c. \A x \in {"T01", "T02", "T03", "T04", "L02", "R01", "SR01"} :
        x \in LineCode
  BY DEF LineCode
<1>a. Asks <=> hasCheck /\ Informed
  BY DEF Asks
<1>3. <<>> \in Seq(Honest)
  BY Singles
<1>4. MainVerdict(t) \in Seq(Honest)
  <2>1. CASE Informed /\ (IF hasCheck THEN OffMain(t) ELSE t # initThread)
    <3>1. MainVerdict(t) = <<main>>
      BY <2>1 DEF MainVerdict
    <3>2. CASE hasCheck
      <4>1. main = Host("T01", TRUE)
        BY <2>1, <3>2 DEF OffMain, Finding
      <4> HIDE DEF main
      <4> QED BY <1>2, <1>c, <3>1, <4>1
    <3>3. CASE ~hasCheck
      <4>1. main = Line("WARNING", "T01", t # "main")
        BY <3>3 DEF Finding, OffMain
      <4>2. main \in Honest
        <5>1. \A w \in BOOLEAN : Line("WARNING", "T01", w) \in Honest
          BY <1>c DEF Line, Honest, Said
        <5>2. (t # "main") \in BOOLEAN
          OBVIOUS
        <5> QED BY <4>1, <5>1, <5>2
      <4> HIDE DEF main
      <4> QED BY <3>1, <4>2, Singles
    <3> QED BY <3>2, <3>3
  <2>2. CASE ~(Informed /\ (IF hasCheck THEN OffMain(t) ELSE t # initThread))
    BY <1>3, <2>2 DEF MainVerdict
  <2> QED BY <2>1, <2>2
<1>5. AudioVerdict(t) \in Seq(Honest)
  <2>1. CASE Asks /\ OffAudio(t)
    <3>1. AudioVerdict(t) = <<Host("T02", OffAudio(t))>>
      BY <2>1 DEF AudioVerdict, Finding
    <3>2. Host("T02", OffAudio(t)) = Host("T02", TRUE)
      BY <2>1 DEF OffAudio
    <3> QED BY <1>2, <1>c, <3>1, <3>2
  <2> QED BY <1>3, <2>1 DEF AudioVerdict
<1>6. FlushVerdict(t) \in Seq(Honest)
  <2> DEFINE w == IF active THEN OffAudio(t) ELSE OffMain(t)
  <2>1. CASE IF active THEN ConfirmedNotAudio(t) ELSE ConfirmedNotMain(t)
    <3>1. FlushVerdict(t) = <<Host("T03", w)>>
      BY <2>1 DEF FlushVerdict
    <3>2. Host("T03", w) = Host("T03", TRUE)
      BY <2>1 DEF OffAudio, OffMain, ConfirmedNotAudio, ConfirmedNotMain
    <3> HIDE DEF w
    <3> QED BY <1>2, <1>c, <3>1, <3>2
  <2>2. CASE ~IF active THEN ConfirmedNotAudio(t) ELSE ConfirmedNotMain(t)
    BY <1>3, <2>2 DEF FlushVerdict
  <2> QED BY <2>1, <2>2
<1>7. \A lines \in Seq(Honest) : MainVerdict(t) \o lines \in Seq(Honest)
  BY <1>4, FirstLines, ConcatProperties
<1>8. \A lines \in Seq(Honest) : AudioVerdict(t) \o lines \in Seq(Honest)
  BY <1>5, FirstLines, ConcatProperties
<1> QED BY <1>2, <1>3, <1>4, <1>5, <1>6, <1>7, <1>8

(* Each function of the instance logs such lines.                          *)
LEMMA FunctionsKeepLines ==
  ASSUME EarlyInv, LogInv, NEW t \in Threads,
         \/ SInitAgain(t) \/ SetActive(t) \/ AudioThreadCall(t)
         \/ GetExtension \/ ParamsFlush(t) \/ TailGet(t) \/ MainThreadCall(t)
         \/ \E ok \in BOOLEAN : RenderSet(t, ok) \/ GetChannelMap(t, ok)
  PROVE  EarlyInv' /\ LogInv'
<1>1. instance' = instance
  BY DEF GetExtension, SInitAgain, SetActive, AudioThreadCall, ParamsFlush, TailGet,
     MainThreadCall, RenderSet, GetChannelMap, OnMainThread
<1>2. written \in Seq(Sure)
  BY DEF EarlyInv
<1>3. ASSUME NEW lines \in Seq(Honest), NEW guilty, Logs(lines, guilty)
      PROVE  EarlyInv' /\ LogInv'
  <2>1. LogInv' /\ UNCHANGED <<written, early, inDeclare, frames>>
    BY <1>1, <1>2, <1>3, LogsKeep
  <2> QED BY <2>1 DEF EarlyInv
<1> DEFINE g == Guilty("T01", OffMain(t))
<1>4. CASE SInitAgain(t)
  <2>1. <<Host("L02", TRUE)>> \in Seq(Honest)
    BY VerdictsHonest DEF LineCode
  <2>2. Logs(MainVerdict(t) \o <<Host("L02", TRUE)>>, g)
    BY <1>4 DEF SInitAgain
  <2> QED BY <1>3, <2>1, <2>2, VerdictsHonest
<1>5. CASE SetActive(t)
  <2>1. Logs(MainVerdict(t), g)
    BY <1>5 DEF SetActive
  <2> QED BY <1>3, <2>1, VerdictsHonest
<1>6. ASSUME NEW lines \in Seq(Honest), OnMainThread(t, lines)
      PROVE  EarlyInv' /\ LogInv'
  <2>1. Logs(MainVerdict(t) \o lines, g)
    BY <1>6 DEF OnMainThread
  <2> QED BY <1>3, <2>1, VerdictsHonest
<1>7. CASE MainThreadCall(t)
  BY <1>6, <1>7, VerdictsHonest DEF MainThreadCall
<1>8. ASSUME NEW ok \in BOOLEAN, RenderSet(t, ok) \/ GetChannelMap(t, ok)
      PROVE  EarlyInv' /\ LogInv'
  <2>1. CASE ok
    <3>1. OnMainThread(t, <<>>)
      BY <1>8, <2>1 DEF RenderSet, GetChannelMap
    <3> QED BY <1>6, <3>1, VerdictsHonest
  <2>2. CASE ~ok
    <3>1. /\ <<Host("R01", ~ok)>> \in Seq(Honest)
          /\ <<Host("SR01", ~ok)>> \in Seq(Honest)
      <4>1. /\ Host("R01", ~ok) = Host("R01", TRUE)
            /\ Host("SR01", ~ok) = Host("SR01", TRUE)
        BY <2>2
      <4>2. "R01" \in LineCode /\ "SR01" \in LineCode
        BY DEF LineCode
      <4> QED BY <4>1, <4>2, VerdictsHonest
    <3>2. \/ OnMainThread(t, <<Host("R01", ~ok)>>)
          \/ OnMainThread(t, <<Host("SR01", ~ok)>>)
      BY <1>8, <2>2 DEF RenderSet, GetChannelMap
    <3> QED BY <1>6, <3>1, <3>2
  <2> QED BY <2>1, <2>2
<1>9. CASE AudioThreadCall(t)
  <2> DEFINE w == Guilty("T02", OffAudio(t))
  <2>1. \/ Logs(AudioVerdict(t) \o <<>>, w)
        \/ ~active /\ Logs(AudioVerdict(t) \o <<Host("L09", ~active)>>, w)
    BY <1>9 DEF AudioThreadCall
  <2>2. ~active => Host("L09", ~active) = Host("L09", TRUE)
    OBVIOUS
  <2>3. "L09" \in LineCode
    BY DEF LineCode
  <2> HIDE DEF w
  <2>4. CASE Logs(AudioVerdict(t) \o <<>>, w)
    BY <1>3, <2>4, VerdictsHonest
  <2>5. CASE ~active /\ Logs(AudioVerdict(t) \o <<Host("L09", ~active)>>, w)
    <3>1. <<Host("L09", ~active)>> \in Seq(Honest)
      BY <2>2, <2>3, <2>5, VerdictsHonest
    <3>2. AudioVerdict(t) \o <<Host("L09", ~active)>> \in Seq(Honest)
      BY <3>1, VerdictsHonest
    <3> QED BY <1>3, <2>5, <3>2
  <2> QED BY <2>1, <2>4, <2>5
<1>10. CASE ParamsFlush(t)
  <2>1. Logs(FlushVerdict(t),
             Guilty("T03", IF active THEN OffAudio(t) ELSE OffMain(t)))
    BY <1>10 DEF ParamsFlush
  <2> QED BY <1>3, <2>1, VerdictsHonest
<1>11. CASE TailGet(t)
  <2> DEFINE w == OffMain(t) /\ OffAudio(t)
             lines == IF ConfirmedNotMain(t) /\ ConfirmedNotAudio(t)
                      THEN <<Host("T04", w)>> ELSE <<>>
  <2>1. Logs(lines, Guilty("T04", w))
    BY <1>11 DEF TailGet
  <2>c. "T04" \in LineCode
    BY DEF LineCode
  <2>2. ConfirmedNotMain(t) /\ ConfirmedNotAudio(t)
          => Host("T04", w) = Host("T04", TRUE)
    BY DEF OffAudio, OffMain, ConfirmedNotAudio, ConfirmedNotMain
  <2> HIDE DEF w
  <2>3. lines \in Seq(Honest)
    BY <2>2, <2>c, VerdictsHonest
  <2> HIDE DEF lines
  <2> QED BY <1>3, <2>1, <2>3
<1>12. CASE GetExtension
  <2>1. \/ Logs(<<>>, {})
        \/ ~Informed /\ Logs(<<Host("L01", ~Informed)>>, {})
    BY <1>12 DEF GetExtension
  <2>2. ~Informed => Host("L01", ~Informed) = Host("L01", TRUE)
    OBVIOUS
  <2>3. "L01" \in LineCode
    BY DEF LineCode
  <2>4. CASE Logs(<<>>, {})
    BY <1>3, <2>4, VerdictsHonest
  <2>5. CASE ~Informed /\ Logs(<<Host("L01", ~Informed)>>, {})
    <3>1. <<Host("L01", ~Informed)>> \in Seq(Honest)
      BY <2>2, <2>3, <2>5, VerdictsHonest
    <3> QED BY <1>3, <2>5, <3>1
  <2> QED BY <2>1, <2>4, <2>5
<1> QED BY <1>4, <1>5, <1>7, <1>8, <1>9, <1>10, <1>11, <1>12

(* A call that reports to the early log, or not, and spares the instance.  *)
LEMMA EarlyCallKeeps ==
  ASSUME EarlyInv, LogInv, NEW condition \in BOOLEAN, NEW code \in LineCode,
         NEW true, condition => true = TRUE,
         ReportEarly(condition, code, true),
         log' = log, instance' = instance, heard' = heard, ahead' = ahead,
         inDeclare' = inDeclare, frames' = frames
  PROVE  EarlyInv' /\ LogInv'
<1>1. /\ written' \in Seq(Sure)
      /\ early' = SubSeq(written', 1, Early(Len(written')))
      /\ Len(written) <= Len(written')
      /\ \A k \in 1 .. Len(written) : written'[k] = written[k]
  BY ReportKeeps DEF EarlyInv
<1>2. LogInv'
  BY <1>1, LogAside DEF EarlyInv
<1>3. EarlyInv'
  BY <1>1 DEF EarlyInv
<1> QED BY <1>2, <1>3

(* A step that logs nothing at all.                                        *)
LEMMA NothingLogged ==
  ASSUME EarlyInv, LogInv, UNCHANGED earlyVars,
         log' = log, instance' = instance, heard' = heard, ahead' = ahead,
         inDeclare' => frames' # <<>>
  PROVE  EarlyInv' /\ LogInv'
<1>1. written' = written /\ early' = early
  BY DEF earlyVars
<1>2. EarlyInv'
  BY <1>1 DEF EarlyInv
<1>3. LogInv'
  BY <1>1 DEF LogInv, Kept, Dropped, LineAt
<1> QED BY <1>2, <1>3

(* The instance is gone, or new.                                           *)
LEMMA EmptyLogs ==
  ASSUME log' = EmptyLog, instance' # "ready" PROVE LogInv'
BY EmptyKept DEF LogInv, Kept

(* The provider reports to the early log only, and only what is so.        *)
LEMMA ProviderKeepsLines ==
  ASSUME ProviderInv, EarlyInv, LogInv,
         \/ ProviderCreate \/ ProviderDestroy \/ ProviderInit
         \/ ProviderInitAgain \/ SamplesEnsured
         \/ \E accepted \in BOOLEAN : DeclareReturns(accepted)
         \/ ProviderGetMetadata \/ ProviderGetExtension
  PROVE  EarlyInv' /\ LogInv'
<1>0. "PD01" \in LineCode /\ "filetype" \in Stages /\ "samples" \in Stages
      /\ frames \in Seq(Stages)
  BY DEF LineCode, Stages, ProviderInv
<1>1. CASE ProviderCreate \/ ProviderDestroy
  <2>1. /\ UNCHANGED earlyVars /\ UNCHANGED instanceVars
        /\ frames' = frames /\ (inDeclare' => inDeclare)
    BY <1>1 DEF ProviderCreate, ProviderDestroy
  <2>2. inDeclare' => frames' # <<>>
    BY <2>1 DEF EarlyInv
  <2> QED BY <2>1, <2>2, NothingLogged DEF instanceVars
<1>2. CASE ProviderInit
  <2>1. UNCHANGED earlyVars /\ UNCHANGED instanceVars
    BY <1>2 DEF ProviderInit
  <2>2. PICK x \in {"samples", "filetype"} : frames' = Append(frames, x)
    BY <1>2 DEF ProviderInit
  <2>3. Len(frames') = Len(frames) + 1 /\ Len(frames) \in Nat
    BY <1>0, <2>2, Frames
  <2>4. frames' # <<>>
    BY <2>3
  <2> QED BY <2>1, <2>4, NothingLogged DEF instanceVars
<1>3. CASE ProviderInitAgain
  <2>1. /\ ReportEarly(TRUE, "PD01", TRUE) /\ UNCHANGED instanceVars
        /\ inDeclare' = inDeclare /\ frames' = frames
    BY <1>3 DEF ProviderInitAgain, Judged
  <2> QED BY <1>0, <2>1, EarlyCallKeeps DEF instanceVars
<1>4. CASE SamplesEnsured
  <2>1. /\ UNCHANGED earlyVars /\ UNCHANGED instanceVars /\ frames # <<>>
        /\ frames' = [frames EXCEPT ![Len(frames)] = "filetype"]
    BY <1>4 DEF SamplesEnsured, Staged
  <2>2. Len(frames') = Len(frames) /\ Len(frames) \in Nat \ {0}
    BY <1>0, <2>1, Frames
  <2>3. frames' # <<>>
    BY <2>2
  <2> QED BY <2>1, <2>3, NothingLogged DEF instanceVars
<1>5. ASSUME NEW accepted \in BOOLEAN, DeclareReturns(accepted)
      PROVE  EarlyInv' /\ LogInv'
  <2>1. UNCHANGED earlyVars /\ UNCHANGED instanceVars /\ frames # <<>>
    BY <1>5 DEF DeclareReturns, InCallback
  <2>2. CASE Returned /\ inDeclare' = FALSE
    BY <2>1, <2>2, NothingLogged DEF instanceVars
  <2>3. ASSUME NEW x \in Stages, Staged(x) PROVE frames' # <<>>
    <3>1. Len(frames') = Len(frames) /\ Len(frames) \in Nat \ {0}
      BY <1>0, <2>1, <2>3, Frames DEF Staged
    <3> QED BY <3>1
  <2>4. CASE \E x \in Stages : Staged(x)
    BY <2>1, <2>3, <2>4, NothingLogged DEF instanceVars
  <2>5. "file" \in Stages /\ "plugin" \in Stages
    BY DEF Stages
  <2> QED BY <1>5, <2>2, <2>4, <2>5 DEF DeclareReturns
<1>6. CASE ProviderGetMetadata \/ ProviderGetExtension
  <2> DEFINE wrong == ~ProviderReady
             told == ~initialized \/ inDeclare
  <2>1. /\ \/ ReportEarly(told, "PD01", wrong)
           \/ ReportEarly(~initialized, "PD01", wrong)
        /\ UNCHANGED instanceVars /\ inDeclare' = inDeclare /\ frames' = frames
    BY <1>6 DEF ProviderGetMetadata, ProviderGetExtension, Judged
  <2>2. told \in BOOLEAN /\ (~initialized) \in BOOLEAN
    OBVIOUS
  <2>3. (told => wrong = TRUE) /\ (~initialized => wrong = TRUE)
    BY DEF ProviderReady, EarlyInv
  <2> HIDE DEF told, wrong
  <2> QED BY <1>0, <2>1, <2>2, <2>3, EarlyCallKeeps DEF instanceVars
<1> QED BY <1>1, <1>2, <1>3, <1>4, <1>5, <1>6

(* init() copies the early log behind what the instance has logged by then.*)
LEMMA InitCopiesEarly ==
  ASSUME EarlyInv, LogInv, NEW t \in Threads, SInit(t)
  PROVE  EarlyInv' /\ LogInv'
<1> DEFINE info == Line("INFO", "init", TRUE)
           n == Len(written)
           copied == CopiedInto(early, log)
<1>1. /\ instance' = "ready" /\ log' = Appended(copied, info)
      /\ heard' = n /\ ahead' = log.version
      /\ written' = written /\ early' = early
      /\ inDeclare' = inDeclare /\ frames' = frames
  BY DEF SInit, earlyVars, providerVars
<1>2. info \in Honest
  BY DEF Line, Honest, Said, LineCode
<1>3. n \in Nat /\ Early(n) \in 0 .. n
  BY EarlyCount DEF EarlyInv
<1>4. Kept(Honest, log) /\ log.version \in Nat
  BY DEF LogInv, Kept
<1>5. /\ early \in Seq(Honest) /\ Len(early) = Early(n)
      /\ \A k \in 1 .. Early(n) : early[k] = written[k]
  <2>1. early \in Seq(Sure) /\ Len(early) = Early(n)
    BY <1>3, FirstLines DEF EarlyInv
  <2>2. \A x \in Sure : x \in Honest
    BY DEF Sure, Honest
  <2>3. \A i \in 1 .. Len(early) : early[i] \in Sure
    BY <2>1
  <2>4. early \in Seq(Honest)
    BY <2>1, <2>2, <2>3, SeqDef
  <2>5. \A k \in 1 .. Early(n) : early[k] = written[k]
    BY <1>3, FirstLines DEF EarlyInv
  <2> QED BY <2>1, <2>4, <2>5
<1>6. /\ Kept(Honest, copied) /\ copied.version = log.version + Early(n)
      /\ \A k \in 1 .. Early(n) : Dropped(copied) < log.version + k =>
           LineAt(copied, log.version + k) = written[k]
  <2>c. copied = FoldLeft(Appended, log, early)
    BY DEF CopiedInto
  <2> HIDE DEF copied
  <2>1. /\ Kept(Honest, copied) /\ copied.version = log.version + Len(early)
        /\ Behind(log, early, copied)
    BY <1>4, <1>5, <2>c, FoldKeeps
  <2>2. 1 .. Len(early) = 1 .. Early(n)
    BY <1>5
  <2>3. \A k \in 1 .. Early(n) : Dropped(copied) < log.version + k =>
          LineAt(copied, log.version + k) = written[k]
    BY <1>5, <2>1, <2>2 DEF Behind
  <2> QED BY <1>5, <2>1, <2>3
<1> HIDE DEF copied, info, n
<1>7. /\ Kept(Honest, log') /\ log'.version = copied.version + 1
      /\ Follows(copied, log')
  BY <1>1, <1>2, <1>6, AppendedKeeps
<1>8. ASSUME NEW k \in 1 .. Early(n), Dropped(log') < log.version + k
      PROVE  LineAt(log', log.version + k) = written[k]
  <2>1. log.version + k \in 1 .. copied.version
    BY <1>3, <1>4, <1>6
  <2> QED BY <1>6, <1>7, <1>8, <2>1 DEF Follows
<1>9. /\ heard' \in 0 .. Len(written') /\ ahead' \in Nat
      /\ ahead' + Early(heard') <= log'.version
  <2>1. ahead' + Early(heard') <= log'.version
    BY <1>1, <1>3, <1>4, <1>6, <1>7
  <2>2. heard' \in 0 .. Len(written')
    BY <1>1, <1>3 DEF n
  <2> QED BY <1>1, <1>4, <2>1, <2>2
<1>10. \A k \in 1 .. Early(heard') :
         Dropped(log') < ahead' + k => LineAt(log', ahead' + k) = written'[k]
  BY <1>1, <1>8
<1>11. Kept(Honest, log)'
  BY <1>7 DEF Kept
<1>12. EarlyInv'
  BY <1>1 DEF EarlyInv
<1>13. LogInv'
  BY <1>9, <1>10, <1>11 DEF LogInv, Dropped, LineAt
<1> QED BY <1>12, <1>13

(* Every step keeps the early log, and the instance's with it.             *)
LEMMA LinesNext ==
  ProviderInv /\ EarlyInv /\ LogInv /\ [Next]_vars => EarlyInv' /\ LogInv'
<1> SUFFICES ASSUME ProviderInv, EarlyInv, LogInv, [Next]_vars
             PROVE  EarlyInv' /\ LogInv'
  OBVIOUS
<1>0. /\ "E01" \in LineCode /\ "E02" \in LineCode /\ "E03" \in LineCode
  BY DEF LineCode
<1>1. CASE EntryInit \/ EntryDeinit
  <2> DEFINE again == entered > 0
             none == entered = 0
  <2>1. /\ \/ ReportEarly(again, "E02", again)
           \/ ReportEarly(none, "E03", none)
        /\ UNCHANGED instanceVars /\ UNCHANGED providerVars
    BY <1>1 DEF EntryInit, EntryDeinit
  <2>2. again \in BOOLEAN /\ none \in BOOLEAN
        /\ (again => again = TRUE) /\ (none => none = TRUE)
    OBVIOUS
  <2> HIDE DEF again, none
  <2> QED BY <1>0, <2>1, <2>2, EarlyCallKeeps DEF instanceVars, providerVars
<1>2. CASE CreatePlugin
  <2> DEFINE none == entered = 0
  <2>1. /\ ReportEarly(none, "E01", none) /\ log' = EmptyLog
        /\ instance' = "created" /\ UNCHANGED providerVars
    BY <1>2 DEF CreatePlugin
  <2>2. none \in BOOLEAN /\ (none => none = TRUE)
    OBVIOUS
  <2> HIDE DEF none
  <2>3. /\ written' \in Seq(Sure)
        /\ early' = SubSeq(written', 1, Early(Len(written')))
    BY <1>0, <2>1, <2>2, ReportKeeps DEF EarlyInv
  <2>4. EarlyInv'
    BY <2>1, <2>3 DEF EarlyInv, providerVars
  <2> QED BY <2>1, <2>4, EmptyLogs
<1>3. CASE SDestroy
  <2>1. /\ log' = EmptyLog /\ instance' = "none"
        /\ UNCHANGED earlyVars /\ UNCHANGED providerVars
    BY <1>3 DEF SDestroy
  <2>2. EarlyInv'
    BY <2>1 DEF EarlyInv, earlyVars, providerVars
  <2> QED BY <2>1, <2>2, EmptyLogs
<1>4. CASE KillMe
  <2>1. /\ log' = EmptyLog /\ instance' = "none" /\ inDeclare' = FALSE
        /\ early' = <<>> /\ written' = <<>>
    BY <1>4 DEF KillMe
  <2>2. written' \in Seq(Sure) /\ Len(written') = 0
    BY <2>1, Singles
  <2>3. Early(0) = 0 /\ SubSeq(written', 1, 0) = <<>>
    BY <2>2, EarlyCount
  <2>4. EarlyInv'
    BY <2>1, <2>2, <2>3 DEF EarlyInv
  <2> QED BY <2>1, <2>4, EmptyLogs
<1>5. CASE (\E p \in Processes : Scan(p) \/ KillOther(p)) \/ UNCHANGED vars
  <2>1. UNCHANGED earlyVars /\ UNCHANGED instanceVars /\ UNCHANGED providerVars
    BY <1>5 DEF Scan, KillOther, vars
  <2>2. inDeclare' => frames' # <<>>
    BY <2>1 DEF EarlyInv, providerVars
  <2> QED BY <2>1, <2>2, NothingLogged DEF instanceVars
<1>6. CASE \E t \in Threads : SInit(t)
  BY <1>6, InitCopiesEarly
<1>7. CASE \E t \in Threads :
             \/ SInitAgain(t) \/ SetActive(t) \/ AudioThreadCall(t)
             \/ GetExtension \/ ParamsFlush(t) \/ TailGet(t) \/ MainThreadCall(t)
             \/ \E ok \in BOOLEAN : RenderSet(t, ok) \/ GetChannelMap(t, ok)
  BY <1>7, FunctionsKeepLines
<1>8. CASE \/ ProviderCreate \/ ProviderDestroy \/ ProviderInit
           \/ ProviderInitAgain \/ SamplesEnsured
           \/ \E accepted \in BOOLEAN : DeclareReturns(accepted)
           \/ ProviderGetMetadata \/ ProviderGetExtension
  BY <1>8, ProviderKeepsLines
<1> QED BY <1>1, <1>2, <1>3, <1>4, <1>5, <1>6, <1>7, <1>8,
           ServicesAssumption DEF Next

(* What holds of the counts, the provider and the two logs throughout.     *)
LEMMA LinesStayInOrder ==
  Spec => [](CountsInv /\ ProviderInv /\ EarlyInv /\ LogInv)
<1>1. Init => CountsInv /\ ProviderInv
  BY NoticedInit
<1>2. Init => EarlyInv /\ LogInv
  <2> SUFFICES ASSUME Init PROVE EarlyInv /\ LogInv
    OBVIOUS
  <2>1. /\ log = EmptyLog /\ instance = "none" /\ inDeclare = FALSE
        /\ early = <<>> /\ written = <<>>
    BY DEF Init
  <2>2. written \in Seq(Sure) /\ Len(written) = 0
    BY <2>1, Singles
  <2>3. Early(0) = 0 /\ SubSeq(written, 1, 0) = <<>>
    BY <2>2, EarlyCount
  <2>4. EarlyInv
    BY <2>1, <2>2, <2>3 DEF EarlyInv
  <2>5. LogInv
    BY <2>1, EmptyKept DEF LogInv
  <2> QED BY <2>4, <2>5
<1> QED BY <1>1, <1>2, NoticedKeeps, LinesNext, PTL DEF Spec

(* contract.h's severities, as entry.cpp, the preset provider, the         *)
(* trampolines and threadcheck.cpp give them: who is accused of misbehaving*)
(* has done what the line says.                                            *)
THEOREM AccusationsAreTrue == Spec => []SeverityHonest
<1>1. EarlyInv /\ LogInv => SeverityHonest
  <2> SUFFICES ASSUME EarlyInv, LogInv PROVE SeverityHonest
    OBVIOUS
  <2>1. early \in Seq(Sure)
    <3>1. Early(Len(written)) \in 0 .. Len(written)
      BY EarlyCount DEF EarlyInv
    <3> QED BY <3>1, FirstLines DEF EarlyInv
  <2>2. log.lines \in Seq(Honest)
    BY DEF LogInv, Kept
  <2>3. \A i \in DOMAIN early : early[i] \in Sure
    BY <2>1
  <2>4. \A i \in DOMAIN log.lines : log.lines[i] \in Honest
    BY <2>2
  <2> QED BY <2>3, <2>4 DEF SeverityHonest, Sure, Honest
<1> QED BY <1>1, LinesStayInOrder, PTL

(* earlylog.cpp: copyInto() at init() hands on the first lines the process *)
(* logged, behind what the instance has logged of calls before init(), and *)
(* they stay there in one piece until the log drops them from its old end. *)
THEOREM EarlyLinesAreKept == Spec => []EarlyLinesReachLog
<1>1. LogInv => EarlyLinesReachLog
  BY DEF LogInv, EarlyLinesReachLog, Early, Dropped, LineAt
<1> QED BY <1>1, LinesStayInOrder, PTL
=============================================================================
