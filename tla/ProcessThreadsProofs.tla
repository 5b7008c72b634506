------------------------ MODULE ProcessThreadsProofs ------------------------
(***************************************************************************)
(* Proofs about ProcessThreads for any set of audio threads.               *)
(***************************************************************************)
EXTENDS ProcessThreads, TLAPS

-----------------------------------------------------------------------------
(* The flags and the program counters keep their types.                    *)
THEOREM TypeCorrect == Spec => []TypeOK
<1> USE DEF MainStage, AudioStage, InBlock
<1>1. Init => TypeOK
  BY DEF Init, TypeOK
<1>2. TypeOK /\ [Next]_vars => TypeOK'
  <2> SUFFICES ASSUME TypeOK, [Next]_vars PROVE TypeOK'
    OBVIOUS
  <2> USE DEF TypeOK, Goto, Report, ReportIf, monitor, ghosts
  <2>1. CASE ActivateBegin
    BY <2>1 DEF ActivateBegin, Rule
  <2>2. CASE DeactivateBegin
    BY <2>2 DEF DeactivateBegin, DeactivateRule
  <2>3. CASE MainStep
    BY <2>3 DEF MainStep, ActivateFlavor, ActivateDone, DeactivateTest,
                ForcedStop, DeactivateDone
  <2>4. ASSUME NEW t \in Threads, Call(t) PROVE TypeOK'
    BY <2>4 DEF Call, StartBegin, StopBegin, ResetBegin, ProcessBegin,
                AudioRule, Rule
  <2>5. ASSUME NEW t \in Threads, AudioStep(t) PROVE TypeOK'
    <3>1. CASE StartTest(t) \/ StartDone(t) \/ StopTest(t) \/ StopDone(t)
      BY <3>1 DEF StartTest, StartDone, StopTest, StopDone
    <3>2. ASSUME NEW ok \in BOOLEAN, StartStore(t, ok) PROVE TypeOK'
      BY <3>2 DEF StartStore
    <3>3. CASE ResetDone(t) \/ ProcessFlavor(t) \/ ProcessLeave(t)
      BY <3>3 DEF ResetDone, ProcessFlavor, ProcessLeave
    <3>4. CASE ProcessLoadActive(t) \/ ProcessLoadRunning(t)
      BY <3>4 DEF ProcessLoadActive, ProcessLoadRunning
    <3>5. ASSUME NEW p \in BOOLEAN, ProcessChecked(t, p) PROVE TypeOK'
      BY <3>5 DEF ProcessChecked
    <3> QED BY <2>5, <3>1, <3>2, <3>3, <3>4, <3>5 DEF AudioStep
  <2>6. CASE UNCHANGED vars
    BY <2>6 DEF vars
  <2> QED BY <2>1, <2>2, <2>3, <2>4, <2>5, <2>6 DEF Next
<1> QED BY <1>1, <1>2, PTL DEF Spec
-----------------------------------------------------------------------------
\* Mutual exclusion of process()

(* A thread that enters or leaves the block is alone there; every other    *)
(* step keeps each thread on its side of the guard.                        *)
LEMMA SameSide ==
  ASSUME TypeOK, BlockExclusive, NEW t \in Threads, NEW stage,
         pc' = [pc EXCEPT ![t] = stage], inProcess' = inProcess,
         stage \in InBlock <=> pc[t] \in InBlock
  PROVE  BlockExclusive'
<1>1. \A u \in Threads : pc'[u] \in InBlock <=> pc[u] \in InBlock
  BY DEF TypeOK
<1> QED BY <1>1 DEF BlockExclusive

(* One thread at a time is inside process(), and the guard says so.        *)
THEOREM ProcessIsExclusive == Spec => []BlockExclusive
<1>1. Init => BlockExclusive
  BY DEF Init, BlockExclusive, InBlock
<1>2. TypeOK /\ BlockExclusive /\ [Next]_vars => BlockExclusive'
  <2> SUFFICES ASSUME TypeOK, BlockExclusive, [Next]_vars
               PROVE  BlockExclusive'
    OBVIOUS
  <2> USE DEF monitor, ghosts
  <2>0. ASSUME UNCHANGED <<pc, inProcess>> PROVE BlockExclusive'
    BY <2>0 DEF BlockExclusive
  <2>1. CASE ActivateBegin \/ DeactivateBegin \/ MainStep \/ UNCHANGED vars
    BY <2>1, <2>0 DEF ActivateBegin, DeactivateBegin, MainStep,
       ActivateFlavor, ActivateDone, DeactivateTest, ForcedStop,
       DeactivateDone, vars
  <2>2. ASSUME NEW t \in Threads, StartBegin(t) \/ StopBegin(t) \/ ResetBegin(t)
        PROVE  BlockExclusive'
    <3>1. CASE pc' = pc
      BY <2>2, <3>1, <2>0 DEF StartBegin, StopBegin, ResetBegin
    <3>2. CASE pc' # pc
      <4>1. PICK stage \in {"startTest", "stopTest", "resetting"} :
              pc' = [pc EXCEPT ![t] = stage]
        BY <2>2, <3>2 DEF StartBegin, StopBegin, ResetBegin, Goto
      <4>2. pc[t] = "idle" /\ inProcess' = inProcess
        BY <2>2 DEF StartBegin, StopBegin, ResetBegin
      <4>3. stage \in InBlock <=> pc[t] \in InBlock
        BY <4>1, <4>2 DEF InBlock
      <4> QED BY <4>1, <4>2, <4>3, SameSide
    <3> QED BY <3>1, <3>2
  <2>3. ASSUME NEW t \in Threads, ProcessBegin(t) PROVE BlockExclusive'
    <3>1. CASE inProcess
      BY <2>3, <3>1, <2>0 DEF ProcessBegin
    <3>2. CASE ~inProcess
      <4>1. pc' = [pc EXCEPT ![t] = "loadActive"] /\ inProcess' = TRUE
        BY <2>3, <3>2 DEF ProcessBegin, Goto
      <4>2. \A u \in Threads : pc[u] \notin InBlock
        BY <3>2 DEF BlockExclusive
      <4>3. \A u \in Threads : pc'[u] \in InBlock <=> u = t
        BY <4>1, <4>2 DEF TypeOK, InBlock
      <4> QED BY <4>1, <4>3 DEF BlockExclusive
    <3> QED BY <3>1, <3>2
  <2>4. ASSUME NEW t \in Threads, ProcessLeave(t) PROVE BlockExclusive'
    <3>1. pc' = [pc EXCEPT ![t] = "idle"] /\ inProcess' = FALSE
      BY <2>4 DEF ProcessLeave, Goto
    <3>2. \A u \in Threads : pc[u] \in InBlock => u = t
      BY <2>4 DEF ProcessLeave, BlockExclusive, InBlock
    <3>3. \A u \in Threads : pc'[u] \notin InBlock
      BY <3>1, <3>2 DEF TypeOK, InBlock
    <3> QED BY <3>1, <3>3 DEF BlockExclusive
  <2>5. ASSUME NEW t \in Threads, AudioStep(t), ~ProcessLeave(t)
        PROVE  BlockExclusive'
    <3>1. PICK stage : pc' = [pc EXCEPT ![t] = stage]
      BY <2>5 DEF AudioStep, StartTest, StartStore, StartDone, StopTest,
         StopDone, ResetDone, ProcessLoadActive, ProcessLoadRunning,
         ProcessChecked, ProcessFlavor, Goto
    <3>2. inProcess' = inProcess
      BY <2>5 DEF AudioStep, StartTest, StartStore, StartDone, StopTest,
         StopDone, ResetDone, ProcessLoadActive, ProcessLoadRunning,
         ProcessChecked, ProcessFlavor
    <3>3. pc'[t] \in InBlock <=> pc[t] \in InBlock
      BY <2>5 DEF AudioStep, StartTest, StartStore, StartDone, StopTest,
         StopDone, ResetDone, ProcessLoadActive, ProcessLoadRunning,
         ProcessChecked, ProcessFlavor, Goto, TypeOK, InBlock
    <3>4. pc'[t] = stage
      BY <3>1 DEF TypeOK
    <3> QED BY <3>1, <3>2, <3>3, <3>4, SameSide
  <2> QED BY <2>1, <2>2, <2>3, <2>4, <2>5 DEF Next, Call
<1> QED BY <1>1, <1>2, TypeCorrect, PTL DEF Spec
-----------------------------------------------------------------------------
\* A host that keeps the rules is never accused

(* One call at a time, and each stage of a call knows what the host has    *)
(* reached and what the flags are.                                         *)
OneCall ==
  /\ main # "idle" => AudioIdle
  /\ \A t, u \in Threads : pc[t] # "idle" /\ pc[u] # "idle" => t = u

HostKnows ==
  /\ main \in {"activating", "capturing"} => host = "inactive"
  /\ main \in {"loadProcessing", "deactivating"} => host = "active"
  /\ main # "forcing"
  /\ host = "inactive" => AudioIdle
  /\ host = "processing" => main = "idle"
  /\ \A t \in Threads :
       /\ pc[t] \in {"startTest", "starting", "rebasing"} => host = "active"
       /\ pc[t] \in InBlock \cup {"stopTest", "stopping"}
            => host = "processing"

FlagsKnow ==
  /\ active <=> host # "inactive"
  /\ host = "processing" => processing
  /\ host # "processing" /\ processing => \E t \in Threads : pc[t] = "rebasing"

Kept == OneCall /\ HostKnows /\ FlagsKnow /\ ~reported
LawInv == broken = "none" => Kept

(* The monitor reports nothing about a host that follows the rules.        *)
THEOREM NoFalseAccusation == Spec => []NoFalseReport
<1>1. Init => LawInv
  BY DEF Init, LawInv, Kept, OneCall, HostKnows, FlagsKnow, AudioIdle, InBlock
<1>2. TypeOK /\ BlockExclusive /\ LawInv /\ [Next]_vars => LawInv'
  <2> SUFFICES ASSUME TypeOK, BlockExclusive, LawInv, [Next]_vars,
                      broken' = "none"
               PROVE  Kept'
    BY DEF LawInv
  <2>0. broken = "none"
    BY DEF Next, ActivateBegin, DeactivateBegin, DeactivateRule, Rule,
       AudioRule, Call, StartBegin, StopBegin, ResetBegin, ProcessBegin,
       MainStep, ActivateFlavor, ActivateDone, DeactivateTest, ForcedStop,
       DeactivateDone, AudioStep, StartTest, StartStore, StartDone, StopTest,
       StopDone, ResetDone, ProcessLoadActive, ProcessLoadRunning,
       ProcessChecked, ProcessFlavor, ProcessLeave, ghosts, vars
  <2>k. OneCall /\ HostKnows /\ FlagsKnow /\ ~reported
    BY <2>0 DEF LawInv, Kept
  <2> USE <2>0, <2>k DEF monitor, ghosts, Kept, OneCall, HostKnows, FlagsKnow,
          AudioIdle
  <2>1. CASE ActivateBegin
    BY <2>1 DEF ActivateBegin, Rule, Report
  <2>2. CASE DeactivateBegin
    BY <2>2 DEF DeactivateBegin, DeactivateRule, Report
  <2>3. ASSUME NEW ok \in BOOLEAN, ActivateFlavor(ok) PROVE Kept'
    BY <2>3 DEF ActivateFlavor
  <2>4. CASE ActivateDone
    BY <2>4 DEF ActivateDone
  <2>5. CASE DeactivateTest \/ ForcedStop
    BY <2>5 DEF DeactivateTest, ForcedStop, Report
  <2>6. CASE DeactivateDone
    BY <2>6 DEF DeactivateDone
  <2>7. ASSUME NEW t \in Threads, Call(t) PROVE Kept'
    <3>1. AudioIdle /\ main = "idle"
      BY <2>7 DEF Call, StartBegin, StopBegin, ResetBegin, ProcessBegin,
                  AudioRule, Rule
    <3>2. ~inProcess
      BY <3>1 DEF BlockExclusive, InBlock
    <3>3. CASE StartBegin(t)
      BY <3>1, <3>3 DEF StartBegin, AudioRule, Rule, Report, Goto, TypeOK,
                        InBlock
    <3>4. CASE StopBegin(t)
      BY <3>1, <3>4 DEF StopBegin, AudioRule, Rule, ReportIf, Goto, TypeOK,
                        InBlock
    <3>5. CASE ResetBegin(t)
      BY <3>1, <3>5 DEF ResetBegin, AudioRule, Rule, ReportIf, Goto, TypeOK,
                        InBlock
    <3>6. CASE ProcessBegin(t)
      BY <3>1, <3>2, <3>6 DEF ProcessBegin, AudioRule, Rule, Report, Goto,
                              TypeOK, InBlock
    <3> QED BY <2>7, <3>3, <3>4, <3>5, <3>6 DEF Call
  <2>8. ASSUME NEW t \in Threads, AudioStep(t) PROVE Kept'
    <3> USE DEF Goto, TypeOK, InBlock, Report
    <3>1. CASE StartTest(t)
      BY <3>1 DEF StartTest
    <3>2. ASSUME NEW ok \in BOOLEAN, StartStore(t, ok) PROVE Kept'
      BY <3>2 DEF StartStore
    <3>3. CASE StartDone(t)
      BY <3>3 DEF StartDone
    <3>4. CASE StopTest(t)
      BY <3>4 DEF StopTest
    <3>5. CASE StopDone(t)
      BY <3>5 DEF StopDone
    <3>6. CASE ResetDone(t)
      BY <3>6 DEF ResetDone
    <3>7. CASE ProcessLoadActive(t)
      BY <3>7 DEF ProcessLoadActive
    <3>8. CASE ProcessLoadRunning(t)
      BY <3>8 DEF ProcessLoadRunning
    <3>9. ASSUME NEW p \in BOOLEAN, ProcessChecked(t, p) PROVE Kept'
      BY <3>9 DEF ProcessChecked
    <3>10. CASE ProcessFlavor(t)
      BY <3>10 DEF ProcessFlavor
    <3>11. CASE ProcessLeave(t)
      BY <3>11 DEF ProcessLeave
    <3> QED
      BY <2>8, <3>1, <3>2, <3>3, <3>4, <3>5, <3>6, <3>7, <3>8, <3>9, <3>10,
         <3>11 DEF AudioStep
  <2>9. CASE UNCHANGED vars
    BY <2>9 DEF vars
  <2> QED
    BY <2>1, <2>2, <2>3, <2>4, <2>5, <2>6, <2>7, <2>8, <2>9 DEF Next, MainStep
<1>3. LawInv => NoFalseReport
  BY DEF LawInv, Kept, NoFalseReport
<1> QED BY <1>1, <1>2, <1>3, TypeCorrect, ProcessIsExclusive, PTL DEF Spec
-----------------------------------------------------------------------------
(* The forced stop leaves the flags right.                                 *)

(* A start_processing() overlaps nothing but its own audio thread's life;  *)
(* a block, a reset() or a stop_processing() of an activation that was     *)
(* forced to an end may still run, and finds the flags as they must be.    *)
Starting == {"startTest", "starting", "rebasing"}
Settling ==
  /\ \A t, u \in Threads : pc[t] # "idle" /\ pc[u] # "idle" => t = u
  /\ \A t \in Threads :
       /\ pc[t] \in Starting => main = "idle" /\ host = "active"
       /\ pc[t] = "starting" => ~processing
  /\ active <=> host # "inactive"
  /\ main \in {"activating", "capturing"} => host = "inactive"
  /\ main = "deactivating" => ~processing
  /\ processing => host = "processing" \/ \E t \in Threads : pc[t] = "rebasing"
  /\ host = "processing" => processing \/ main = "deactivating"

SettleInv == broken # "others" => Settling

LEMMA MainSettles ==
  ASSUME TypeOK, Settling, broken # "others", broken' # "others",
         ActivateBegin \/ DeactivateBegin \/ MainStep
  PROVE  Settling'
<1> USE DEF TypeOK, Settling, monitor, ghosts, Starting
<1>1. CASE ActivateBegin
  <2>1. host = "inactive"
    BY <1>1 DEF ActivateBegin, Rule
  <2> QED BY <1>1, <2>1 DEF ActivateBegin
<1>2. CASE DeactivateBegin
  <2>1. (host = "active" /\ AudioIdle) \/ host = "processing"
    BY <1>2 DEF DeactivateBegin, DeactivateRule
  <2>2. \A t \in Threads : pc[t] \notin Starting
    BY <2>1 DEF AudioIdle
  <2> QED BY <1>2, <2>2 DEF DeactivateBegin
<1>3. ASSUME NEW ok \in BOOLEAN, ActivateFlavor(ok) PROVE Settling'
  BY <1>3 DEF ActivateFlavor
<1>4. CASE ActivateDone
  BY <1>4 DEF ActivateDone
<1>5. CASE DeactivateTest
  BY <1>5 DEF DeactivateTest
<1>6. CASE ForcedStop
  BY <1>6 DEF ForcedStop
<1>7. CASE DeactivateDone
  BY <1>7 DEF DeactivateDone
<1> QED BY <1>1, <1>2, <1>3, <1>4, <1>5, <1>6, <1>7 DEF MainStep

LEMMA CallSettles ==
  ASSUME TypeOK, Settling, broken # "others", broken' # "others",
         NEW t \in Threads, Call(t)
  PROVE  Settling'
<1> USE DEF TypeOK, Settling, monitor, ghosts, Starting
<1>1. main = "idle" /\ AudioIdle
  BY DEF Call, StartBegin, StopBegin, ResetBegin, ProcessBegin, AudioRule, Rule
<1>2. UNCHANGED <<active, processing, main, host>>
  BY DEF Call, StartBegin, StopBegin, ResetBegin, ProcessBegin
<1>3. pc' = pc \/ \E s \in {"startTest", "stopTest", "resetting", "loadActive"} :
        pc' = [pc EXCEPT ![t] = s] /\ (s = "startTest" => host = "active")
  BY DEF Call, StartBegin, StopBegin, ResetBegin, ProcessBegin, Goto,
     AudioRule, Rule
<1>4. CASE pc' = pc
  BY <1>2, <1>4
<1>5. CASE pc' # pc
  <2>1. PICK s \in {"startTest", "stopTest", "resetting", "loadActive"} :
          pc' = [pc EXCEPT ![t] = s] /\ (s = "startTest" => host = "active")
    BY <1>3, <1>5
  <2>2. \A u \in Threads : pc'[u] = IF u = t THEN s ELSE "idle"
    BY <1>1, <2>1 DEF AudioIdle
  <2>3. \A u \in Threads : pc[u] # "rebasing"
    BY <1>1 DEF AudioIdle
  <2> QED BY <1>1, <1>2, <2>1, <2>2, <2>3
<1> QED BY <1>4, <1>5

LEMMA AudioSettles ==
  ASSUME TypeOK, Settling, NEW t \in Threads, AudioStep(t)
  PROVE  Settling'
<1> USE DEF TypeOK, Settling, monitor, ghosts, Starting
<1>1. PICK s : pc' = [pc EXCEPT ![t] = s]
  BY DEF AudioStep, StartTest, StartStore, StartDone, StopTest, StopDone,
     ResetDone, ProcessLoadActive, ProcessLoadRunning, ProcessChecked,
     ProcessFlavor, ProcessLeave, Goto
<1>2. /\ pc[t] # "idle" /\ main' = main /\ active' = active
      /\ pc'[t] = s /\ \A u \in Threads \ {t} : pc'[u] = pc[u]
  BY <1>1 DEF AudioStep, StartTest, StartStore, StartDone, StopTest, StopDone,
     ResetDone, ProcessLoadActive, ProcessLoadRunning, ProcessChecked,
     ProcessFlavor, ProcessLeave
<1>3. \A u \in Threads \ {t} : pc[u] = "idle" /\ pc'[u] = "idle"
  BY <1>2
<1>4. CASE StartTest(t)
  BY <1>1, <1>2, <1>3, <1>4 DEF StartTest, Goto
<1>5. ASSUME NEW ok \in BOOLEAN, StartStore(t, ok) PROVE Settling'
  BY <1>1, <1>2, <1>3, <1>5 DEF StartStore, Goto
<1>6. CASE StartDone(t)
  BY <1>1, <1>2, <1>3, <1>6 DEF StartDone, Goto
<1>7. CASE StopTest(t)
  BY <1>1, <1>2, <1>3, <1>7 DEF StopTest, Goto
<1>8. CASE StopDone(t)
  BY <1>1, <1>2, <1>3, <1>8 DEF StopDone, Goto
<1>9. CASE \/ ResetDone(t) \/ ProcessLoadActive(t) \/ ProcessLoadRunning(t)
           \/ \E p \in BOOLEAN : ProcessChecked(t, p)
           \/ ProcessFlavor(t) \/ ProcessLeave(t)
  <2>1. /\ UNCHANGED <<processing, host>> /\ pc[t] \notin Starting
        /\ pc'[t] \notin Starting
    BY <1>1, <1>2, <1>9 DEF ResetDone, ProcessLoadActive, ProcessLoadRunning,
       ProcessChecked, ProcessFlavor, ProcessLeave, Goto
  <2> QED BY <1>2, <1>3, <2>1
<1> QED BY <1>4, <1>5, <1>6, <1>7, <1>8, <1>9 DEF AudioStep

(* Once all calls have returned, the flags are what the host has reached,  *)
(* also after a stop_processing() that was forgotten (L05, deactivate()'s  *)
(* forced stop in plugin.cpp), for any number of audio threads.            *)
THEOREM ForcedStopSettles == Spec => []FlagsSettle
<1>1. Init => SettleInv
  BY DEF Init, SettleInv, Settling, Starting
<1>2. TypeOK /\ SettleInv /\ [Next]_vars => SettleInv'
  <2> SUFFICES ASSUME TypeOK, SettleInv, [Next]_vars, broken' # "others"
               PROVE  Settling'
    BY DEF SettleInv
  <2>1. CASE UNCHANGED vars
    BY <2>1 DEF vars, monitor, ghosts, SettleInv, Settling
  <2>2. CASE Next
    <3>1. broken # "others"
      <4>1. CASE ActivateBegin \/ DeactivateBegin
        BY <4>1 DEF ActivateBegin, DeactivateBegin, Rule, DeactivateRule
      <4>2. CASE MainStep
        BY <4>2 DEF MainStep, ActivateFlavor, ActivateDone, DeactivateTest,
           ForcedStop, DeactivateDone, ghosts
      <4>3. ASSUME NEW t \in Threads, Call(t) PROVE broken # "others"
        BY <4>3 DEF Call, StartBegin, StopBegin, ResetBegin, ProcessBegin,
           AudioRule, Rule
      <4>4. ASSUME NEW t \in Threads, AudioStep(t) PROVE broken # "others"
        BY <4>4 DEF AudioStep, StartTest, StartStore, StartDone, StopTest,
           StopDone, ResetDone, ProcessLoadActive, ProcessLoadRunning,
           ProcessChecked, ProcessFlavor, ProcessLeave, ghosts
      <4> QED BY <2>2, <4>1, <4>2, <4>3, <4>4 DEF Next
    <3>2. Settling
      BY <3>1 DEF SettleInv
    <3>3. CASE ActivateBegin \/ DeactivateBegin \/ MainStep
      BY <3>1, <3>2, <3>3, MainSettles
    <3>4. ASSUME NEW t \in Threads, Call(t) \/ AudioStep(t) PROVE Settling'
      BY <3>1, <3>2, <3>4, CallSettles, AudioSettles
    <3> QED BY <2>2, <3>3, <3>4 DEF Next
  <2> QED BY <2>1, <2>2
<1>3. SettleInv => FlagsSettle
  BY DEF SettleInv, Settling, FlagsSettle, AudioIdle
<1> QED BY <1>1, <1>2, <1>3, TypeCorrect, PTL DEF Spec
=============================================================================
