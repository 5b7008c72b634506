------------------------ MODULE PluginLifecycleProofs -----------------------
(***************************************************************************)
(* Proofs about PluginLifecycle for every flavor, every host and every     *)
(* bound on the run.                                                       *)
(***************************************************************************)
EXTENDS PluginLifecycle, TLAPS

-----------------------------------------------------------------------------
\* The helpers

LEMMA LargerType ==
  ASSUME NEW a \in Nat, NEW b \in Nat
  PROVE  /\ Larger(a, b) \in Nat
         /\ a <= Larger(a, b) /\ b <= Larger(a, b)
BY DEF Larger

LEMMA UsableType ==
  ASSUME NEW min \in Nat, NEW max \in Nat
  PROVE  /\ Usable(min, max) \in [min : Nat, max : Nat]
         /\ 1 <= Usable(min, max).min
         /\ Usable(min, max).min <= Usable(min, max).max
BY DEF Usable, Larger

(* Reporting exactly the codes that are charged keeps detection exact, and *)
(* nothing else does the counting.                                         *)
LEMMA ReportExact ==
  ASSUME TypeOK, ExactDetection, NEW S, Report(S), Charge(S)
  PROVE  ExactDetection'
<1>1. ASSUME NEW c \in Code
      PROVE  IF c = "L08" THEN due'[c] <= counters'[c] /\ counters'[c] <= 2 * due'[c]
                          ELSE counters'[c] = due'[c]
  <2>1. due[c] \in Nat /\ counters[c] \in Nat
    BY DEF TypeOK, CountsOK
  <2>2. counters'[c] = IF c \in S THEN counters[c] + 1 ELSE counters[c]
    BY DEF Report, ReportTimes
  <2>3. due'[c] = IF c \in S THEN due[c] + 1 ELSE due[c]
    BY DEF Charge
  <2> QED BY <2>1, <2>2, <2>3 DEF ExactDetection
<1> QED BY <1>1 DEF ExactDetection
-----------------------------------------------------------------------------
\* Type correctness

(* Every variable keeps its type, whatever the host calls.                 *)
THEOREM TypeCorrect == Spec => []TypeOK
<1>1. Init => TypeOK
  <2> SUFFICES ASSUME Init PROVE TypeOK
    OBVIOUS
  <2>1. FlagsOK
    BY DEF Init, FlagsOK
  <2>2. CachesOK
    BY LifecycleAssumption DEF Init, CachesOK, NoBounds
  <2>3. CountsOK
    BY DEF Init, CountsOK, NoCounts
  <2>4. ViewOK
    BY LifecycleAssumption DEF Init, ViewOK, NewView, NoClock
  <2> QED BY <2>1, <2>2, <2>3, <2>4 DEF TypeOK
<1>2. TypeOK /\ [Next]_vars => TypeOK'
  <2> SUFFICES ASSUME TypeOK, [Next]_vars PROVE TypeOK'
    OBVIOUS
  <2>0. FlagsOK /\ CachesOK /\ CountsOK /\ ViewOK
    BY DEF TypeOK
  <2> USE <2>0 DEF monitor, caches
  <2>1. CASE CreatePlugin
    <3>1. FlagsOK'
      BY <2>1 DEF CreatePlugin, FlagsOK
    <3>2. CachesOK'
      BY <2>1, LifecycleAssumption DEF CreatePlugin, CachesOK, NoBounds, NoCounts, NewView, NoClock
    <3>3. CountsOK'
      BY <2>1 DEF CreatePlugin, CountsOK, Report, ReportTimes, Charge, NoBounds, NoCounts, NewView, NoClock
    <3>4. ViewOK'
      BY <2>1, LifecycleAssumption DEF CreatePlugin, ViewOK, NoBounds, NoCounts, NewView, NoClock
    <3> QED BY <3>1, <3>2, <3>3, <3>4 DEF TypeOK
  <2>2. CASE SInit
    <3>1. FlagsOK'
      BY <2>2 DEF SInit, FlagsOK
    <3>2. CachesOK'
      BY <2>2, LifecycleAssumption DEF SInit, CachesOK
    <3>3. CountsOK'
      BY <2>2 DEF SInit, CountsOK, Report, ReportTimes, Charge
    <3>4. ViewOK'
      <4>1. \/ view' = view
            \/ view' = [view EXCEPT !.init = TRUE,
                                   !.asked = view.asked \/ CallbacksInInit > 0]
        BY <2>2 DEF SInit
      <4>2. (view.asked \/ CallbacksInInit > 0) \in BOOLEAN
        OBVIOUS
      <4> QED BY <4>1, <4>2 DEF ViewOK
    <3> QED BY <3>1, <3>2, <3>3, <3>4 DEF TypeOK
  <2>3. CASE SDestroy
    <3>1. FlagsOK'
      BY <2>3 DEF SDestroy, FlagsOK
    <3>2. CachesOK'
      BY <2>3, LifecycleAssumption DEF SDestroy, CachesOK
    <3>3. CountsOK'
      BY <2>3 DEF SDestroy, CountsOK, Report, ReportTimes, Charge
    <3>4. ViewOK'
      BY <2>3, LifecycleAssumption DEF SDestroy, ViewOK
    <3> QED BY <3>1, <3>2, <3>3, <3>4 DEF TypeOK
  <2>4. ASSUME NEW min \in Frames, NEW max \in Frames, SActivate(min, max)
        PROVE  TypeOK'
    <3>1. FlagsOK'
      BY <2>4 DEF SActivate, FlagsOK
    <3>2. CachesOK'
      BY <2>4, LifecycleAssumption, LargerType DEF SActivate, CachesOK
    <3>3. CountsOK'
      BY <2>4 DEF SActivate, CountsOK, Report, ReportTimes, Charge
    <3>4. ViewOK'
      BY <2>4, LifecycleAssumption DEF SActivate, ViewOK
    <3> QED BY <3>1, <3>2, <3>3, <3>4 DEF TypeOK
  <2>5. ASSUME NEW ok \in BOOLEAN, SActivateReturn(ok)
        PROVE  TypeOK'
    <3>1. FlagsOK'
      BY <2>5 DEF SActivateReturn, FlagsOK
    <3>2. CachesOK'
      BY <2>5, LifecycleAssumption DEF SActivateReturn, CachesOK, NoBounds
    <3>3. CountsOK'
      BY <2>5 DEF SActivateReturn, CountsOK, Report, ReportTimes, Charge, NoBounds
    <3>4. ViewOK'
      BY <2>5, LifecycleAssumption DEF SActivateReturn, ViewOK, NoBounds
    <3> QED BY <3>1, <3>2, <3>3, <3>4 DEF TypeOK
  <2>6. CASE SDeactivate
    <3>1. FlagsOK'
      BY <2>6 DEF SDeactivate, FlagsOK
    <3>2. CachesOK'
      BY <2>6, LifecycleAssumption DEF SDeactivate, CachesOK
    <3>3. CountsOK'
      BY <2>6 DEF SDeactivate, CountsOK, Report, ReportTimes, Charge
    <3>4. ViewOK'
      BY <2>6, LifecycleAssumption DEF SDeactivate, ViewOK
    <3> QED BY <3>1, <3>2, <3>3, <3>4 DEF TypeOK
  <2>7. ASSUME NEW ok \in BOOLEAN, SStartProcessing(ok)
        PROVE  TypeOK'
    <3>1. FlagsOK'
      BY <2>7 DEF SStartProcessing, FlagsOK
    <3>2. CachesOK'
      BY <2>7, LifecycleAssumption DEF SStartProcessing, CachesOK, Rebaselined, NoClock
    <3>3. CountsOK'
      BY <2>7 DEF SStartProcessing, CountsOK, Report, ReportTimes, Charge, Rebaselined, NoClock
    <3>4. ViewOK'
      <4>1. \/ view' = view
            \/ view' = [view EXCEPT !.proc = ok, !.clock = NoClock]
        BY <2>7 DEF SStartProcessing
      <4>2. ok \in BOOLEAN /\ NoClock \in Int
        BY <2>7 DEF NoClock
      <4> QED BY <4>1, <4>2 DEF ViewOK
    <3> QED BY <3>1, <3>2, <3>3, <3>4 DEF TypeOK
  <2>8. CASE SStopProcessing
    <3>1. FlagsOK'
      BY <2>8 DEF SStopProcessing, FlagsOK
    <3>2. CachesOK'
      BY <2>8, LifecycleAssumption DEF SStopProcessing, CachesOK
    <3>3. CountsOK'
      BY <2>8 DEF SStopProcessing, CountsOK, Report, ReportTimes, Charge
    <3>4. ViewOK'
      BY <2>8, LifecycleAssumption DEF SStopProcessing, ViewOK
    <3> QED BY <3>1, <3>2, <3>3, <3>4 DEF TypeOK
  <2>9. CASE SReset
    <3>1. FlagsOK'
      BY <2>9 DEF SReset, FlagsOK
    <3>2. CachesOK'
      BY <2>9, LifecycleAssumption DEF SReset, CachesOK, Rebaselined, NoClock
    <3>3. CountsOK'
      BY <2>9 DEF SReset, CountsOK, Report, ReportTimes, Charge, Rebaselined, NoClock
    <3>4. ViewOK'
      BY <2>9, LifecycleAssumption DEF SReset, ViewOK, Rebaselined, NoClock
    <3> QED BY <3>1, <3>2, <3>3, <3>4 DEF TypeOK
  <2>10. ASSUME NEW n \in Frames, NEW t \in Times, NEW l \in Layouts,
               NEW u \in BOOLEAN, SProcess(n, t, l, u)
        PROVE  TypeOK'
    <3>1. FlagsOK'
      BY <2>10 DEF SProcess, FlagsOK
    <3>2. CachesOK'
      <4>1. n \in Nat /\ t \in Int
        BY <2>10, LifecycleAssumption
      <4>2. steady' \in {steady, SteadyAfter(t, n)}
        BY <2>10 DEF SProcess
      <4>3. steady' \in [valid : BOOLEAN, end : Int]
        <5>1. CASE t < 0
          BY <5>1, <4>2 DEF SteadyAfter, CachesOK
        <5>2. CASE ~(t < 0)
          <6>1. SteadyAfter(t, n) = [valid |-> TRUE, end |-> t + n]
            BY <5>2 DEF SteadyAfter
          <6>2. t + n \in Int
            BY <4>1
          <6>3. [valid |-> TRUE, end |-> t + n] \in [valid : BOOLEAN, end : Int]
            BY <6>2
          <6> QED BY <6>1, <6>3, <4>2 DEF CachesOK
        <5> QED BY <5>1, <5>2
      <4> QED BY <2>10, <4>3 DEF SProcess, CachesOK
    <3>3. CountsOK'
      BY <2>10 DEF SProcess, CountsOK, Report, ReportTimes, Charge, SteadyAfter, NoClock
    <3>4. ViewOK'
      <4>1. n \in Nat /\ t \in Int
        BY <2>10, LifecycleAssumption
      <4>2. \/ view' = view
            \/ view' = [view EXCEPT !.block = l # view.ports \/ u,
                          !.clock = IF t < 0 THEN NoClock ELSE t + n]
        BY <2>10 DEF SProcess
      <4>3. /\ (IF t < 0 THEN NoClock ELSE t + n) \in Int
            /\ (l # view.ports \/ u) \in BOOLEAN
        BY <4>1 DEF NoClock
      <4> QED BY <4>2, <4>3 DEF ViewOK
    <3> QED BY <3>1, <3>2, <3>3, <3>4 DEF TypeOK
  <2>11. CASE SProcessReturn
    <3>1. FlagsOK'
      BY <2>11 DEF SProcessReturn, FlagsOK
    <3>2. CachesOK'
      BY <2>11, LifecycleAssumption DEF SProcessReturn, CachesOK
    <3>3. CountsOK'
      BY <2>11 DEF SProcessReturn, CountsOK, Report, ReportTimes, Charge
    <3>4. ViewOK'
      BY <2>11, LifecycleAssumption DEF SProcessReturn, ViewOK
    <3> QED BY <3>1, <3>2, <3>3, <3>4 DEF TypeOK
  <2>12. ASSUME NEW S, NEW T, Inspect(S, T)
        PROVE  TypeOK'
    <3>1. FlagsOK'
      BY <2>12 DEF Inspect, FlagsOK
    <3>2. CachesOK'
      BY <2>12, LifecycleAssumption DEF Inspect, CachesOK
    <3>3. CountsOK'
      BY <2>12 DEF Inspect, CountsOK, Report, ReportTimes, Charge
    <3>4. ViewOK'
      BY <2>12, LifecycleAssumption DEF Inspect, ViewOK
    <3> QED BY <3>1, <3>2, <3>3, <3>4 DEF TypeOK
  <2>13. ASSUME NEW c, NEW l \in Layouts, SConfigure(c, l)
        PROVE  TypeOK'
    <3>1. FlagsOK'
      BY <2>13 DEF SConfigure, FlagsOK
    <3>2. CachesOK'
      BY <2>13, LifecycleAssumption DEF SConfigure, CachesOK
    <3>3. CountsOK'
      BY <2>13 DEF SConfigure, CountsOK, Report, ReportTimes, Charge
    <3>4. ViewOK'
      BY <2>13, LifecycleAssumption DEF SConfigure, ViewOK
    <3> QED BY <3>1, <3>2, <3>3, <3>4 DEF TypeOK
  <2>14. CASE SOnMainThread
    <3>1. FlagsOK'
      BY <2>14 DEF SOnMainThread, PendingConsumed, FlagsOK
    <3>2. CachesOK'
      BY <2>14, LifecycleAssumption DEF SOnMainThread, PendingConsumed, CachesOK
    <3>3. CountsOK'
      BY <2>14 DEF SOnMainThread, PendingConsumed, CountsOK, Report, ReportTimes, Charge
    <3>4. ViewOK'
      BY <2>14, LifecycleAssumption DEF SOnMainThread, PendingConsumed, ViewOK
    <3> QED BY <3>1, <3>2, <3>3, <3>4 DEF TypeOK
  <2>15. CASE UNCHANGED vars
    <3>1. FlagsOK'
      BY <2>15 DEF vars, FlagsOK
    <3>2. CachesOK'
      BY <2>15, LifecycleAssumption DEF vars, CachesOK
    <3>3. CountsOK'
      BY <2>15 DEF vars, CountsOK, Report, ReportTimes, Charge
    <3>4. ViewOK'
      BY <2>15, LifecycleAssumption DEF vars, ViewOK
    <3> QED BY <3>1, <3>2, <3>3, <3>4 DEF TypeOK
  <2> QED
    BY <2>1, <2>2, <2>3, <2>4, <2>5, <2>6, <2>7, <2>8, <2>9, <2>10, <2>11, <2>12, <2>13, <2>14, <2>15
       DEF Next, SGetExtension, SFlush, SPortScan, SLatencyGet, SVoiceInfoGet,
           SCanApply
<1> QED BY <1>1, <1>2, PTL DEF Spec

-----------------------------------------------------------------------------
\* The inductive invariant

FlagsAgree == MonitorTracksHost /\ ProcessingImpliesActive
              /\ OpeningExcludesActive

(* The monitor tracks the host and detects exactly, for every flavor.      *)
THEOREM LifecycleCorrect == Spec => []LifecycleInv
<1>1. Init => LifecycleInv
  <2> SUFFICES ASSUME Init PROVE LifecycleInv
    OBVIOUS
  <2>1. FlagsAgree
    <3>1. pendingCallbacks > 0 <=> view.asked
      BY DEF Init, NewView
    <3>2. /\ initialized = view.init /\ active = view.act
          /\ processing = view.proc /\ beingActivated = view.opening
          /\ inProcess = view.block
      BY DEF Init, NewView
    <3>3. ~processing /\ ~beingActivated
      BY DEF Init
    <3> QED BY <3>1, <3>2, <3>3 DEF FlagsAgree, MonitorTracksHost,
                ProcessingImpliesActive, OpeningExcludesActive
  <2>4. BoundsAgree
    BY DEF Init, BoundsAgree
  <2>2. LayoutAgrees /\ ClockAgrees
    BY DEF Init, LayoutAgrees, ClockAgrees, NewView, NoClock
  <2>3. ExactDetection
    BY DEF Init, ExactDetection, NoCounts
  <2> QED BY <2>1, <2>4, <2>2, <2>3 DEF LifecycleInv, FlagsAgree
<1>2. TypeOK /\ LifecycleInv /\ [Next]_vars => LifecycleInv'
  <2> SUFFICES ASSUME TypeOK, LifecycleInv, [Next]_vars PROVE LifecycleInv'
    OBVIOUS
  <2>0. /\ FlagsOK /\ CachesOK /\ CountsOK /\ ViewOK
        /\ MonitorTracksHost /\ ProcessingImpliesActive
        /\ OpeningExcludesActive /\ BoundsAgree /\ LayoutAgrees
        /\ ClockAgrees /\ ExactDetection
    BY DEF TypeOK, LifecycleInv
  <2> USE <2>0 DEF monitor, caches
  <2>1. CASE CreatePlugin
    <3>1. FlagsAgree'
      <4>1. pendingCallbacks' > 0 <=> view'.asked
        BY <2>1 DEF CreatePlugin, NewView
      <4>2. /\ initialized' = view'.init /\ active' = view'.act
            /\ processing' = view'.proc /\ beingActivated' = view'.opening
            /\ inProcess' = view'.block
        BY <2>1 DEF CreatePlugin, NewView
      <4>3. ~processing' /\ ~beingActivated'
        BY <2>1 DEF CreatePlugin
      <4> QED BY <4>1, <4>2, <4>3 DEF FlagsAgree, MonitorTracksHost,
                  ProcessingImpliesActive, OpeningExcludesActive
    <3>2. BoundsAgree'
      BY <2>1 DEF CreatePlugin, BoundsAgree
    <3>3. LayoutAgrees'
      BY <2>1 DEF CreatePlugin, LayoutAgrees, NewView
    <3>4. ClockAgrees'
      BY <2>1 DEF CreatePlugin, ClockAgrees, NewView, NoClock
    <3>5. ExactDetection'
      BY <2>1 DEF CreatePlugin, ExactDetection, NoCounts
    <3> QED BY <3>1, <3>2, <3>3, <3>4, <3>5 DEF LifecycleInv, FlagsAgree
  <2>2. CASE SInit
    <3>1. FlagsAgree'
      <4>1. CASE initialized
        BY <2>2, <4>1 DEF SInit, FlagsAgree, MonitorTracksHost,
           ProcessingImpliesActive, OpeningExcludesActive
      <4>2. CASE ~initialized
        <5>1. view' = [view EXCEPT !.init = TRUE,
                                   !.asked = view.asked \/ CallbacksInInit > 0]
          BY <2>2, <4>2 DEF SInit, MonitorTracksHost
        <5>2. pendingCallbacks' = pendingCallbacks + CallbacksInInit
          BY <2>2, <4>2 DEF SInit
        <5>3. pendingCallbacks' > 0 <=> view'.asked
          <6>1. view'.asked <=> view.asked \/ CallbacksInInit > 0
            BY <5>1 DEF ViewOK
          <6>2. pendingCallbacks' > 0
                  <=> pendingCallbacks > 0 \/ CallbacksInInit > 0
            BY <5>2, LifecycleAssumption DEF CachesOK
          <6> QED BY <6>1, <6>2 DEF MonitorTracksHost
        <5>4. /\ view'.init /\ view'.act = view.act
              /\ view'.proc = view.proc /\ view'.opening = view.opening
              /\ view'.block = view.block
          BY <5>1 DEF ViewOK
        <5> QED BY <2>2, <4>2, <5>3, <5>4 DEF SInit, FlagsAgree,
                   MonitorTracksHost, ProcessingImpliesActive,
                   OpeningExcludesActive
      <4> QED BY <4>1, <4>2
    <3>2. BoundsAgree'
      BY <2>2 DEF SInit, BoundsAgree, MonitorTracksHost, ViewOK
    <3>3. LayoutAgrees'
      BY <2>2 DEF SInit, LayoutAgrees, MonitorTracksHost, ViewOK
    <3>4. ClockAgrees'
      BY <2>2 DEF SInit, ClockAgrees, MonitorTracksHost, ViewOK, CachesOK,
         NoClock, Rebaselined
    <3>5. ExactDetection'
      <4>1. CASE initialized
        <5>1. Report({"L02"}) /\ Charge({"L02"})
          BY <2>2, <4>1 DEF SInit, MonitorTracksHost, When
        <5> QED BY <5>1, ReportExact
      <4>2. CASE ~initialized
        <5>1. Report({}) /\ Charge({})
          BY <2>2, <4>2 DEF SInit, MonitorTracksHost, When
        <5> QED BY <5>1, ReportExact
      <4> QED BY <4>1, <4>2
    <3> QED BY <3>1, <3>2, <3>3, <3>4, <3>5 DEF LifecycleInv, FlagsAgree
  <2>3. CASE SDestroy
    <3>1. FlagsAgree'
      BY <2>3 DEF SDestroy, FlagsAgree, MonitorTracksHost,
         ProcessingImpliesActive, OpeningExcludesActive, ViewOK
    <3>2. BoundsAgree'
      BY <2>3 DEF SDestroy, BoundsAgree, MonitorTracksHost, ViewOK
    <3>3. LayoutAgrees'
      BY <2>3 DEF SDestroy, LayoutAgrees, MonitorTracksHost, ViewOK
    <3>4. ClockAgrees'
      BY <2>3 DEF SDestroy, ClockAgrees, MonitorTracksHost, ViewOK, CachesOK,
         NoClock, Rebaselined
    <3>5. ExactDetection'
      <4>1. CASE active
        <5>1. Report({"L06"}) /\ Charge({"L06"})
          BY <2>3, <4>1 DEF SDestroy, MonitorTracksHost, When
        <5> QED BY <5>1, ReportExact
      <4>2. CASE ~active
        <5>1. Report({}) /\ Charge({})
          BY <2>3, <4>2 DEF SDestroy, MonitorTracksHost, When
        <5> QED BY <5>1, ReportExact
      <4> QED BY <4>1, <4>2
    <3> QED BY <3>1, <3>2, <3>3, <3>4, <3>5 DEF LifecycleInv, FlagsAgree
  <2>4. ASSUME NEW min \in Frames, NEW max \in Frames, SActivate(min, max)
        PROVE  LifecycleInv'
    <3>1. FlagsAgree'
      BY <2>4 DEF SActivate, FlagsAgree, MonitorTracksHost,
         ProcessingImpliesActive, OpeningExcludesActive, ViewOK
    <3>2. BoundsAgree'
      <4>1. min \in Nat /\ max \in Nat
        BY <2>4, LifecycleAssumption
      <4>2. CASE active
        BY <2>4, <4>2 DEF SActivate, BoundsAgree, MonitorTracksHost
      <4>3. CASE ~active
        <5>1. activation' = Usable(min, max)
          BY <2>4, <4>1, <4>3 DEF SActivate, Usable, Larger
        <5>2. view'.min = min /\ view'.max = max /\ ~active'
          BY <2>4, <4>3 DEF SActivate, MonitorTracksHost, ViewOK
        <5> QED BY <5>1, <5>2 DEF BoundsAgree
      <4> QED BY <4>2, <4>3
    <3>3. LayoutAgrees'
      BY <2>4 DEF SActivate, LayoutAgrees, MonitorTracksHost, ViewOK
    <3>4. ClockAgrees'
      BY <2>4 DEF SActivate, ClockAgrees, MonitorTracksHost, ViewOK, CachesOK,
         NoClock, Rebaselined
    <3>5. ExactDetection'
      <4>1. CASE active
        <5>1. Report({"L03"}) /\ Charge({"L03"})
          BY <2>4, <4>1 DEF SActivate, MonitorTracksHost, When
        <5> QED BY <5>1, ReportExact
      <4>2. CASE ~active /\ (min < 1 \/ max < min)
        <5>1. Report({"L13"}) /\ Charge({"L13"})
          BY <2>4, <4>2, LifecycleAssumption DEF SActivate, MonitorTracksHost, When
        <5> QED BY <5>1, ReportExact
      <4>3. CASE ~active /\ ~(min < 1 \/ max < min)
        <5>1. Report({}) /\ Charge({})
          BY <2>4, <4>3, LifecycleAssumption DEF SActivate, MonitorTracksHost, When
        <5> QED BY <5>1, ReportExact
      <4> QED BY <4>1, <4>2, <4>3
    <3> QED BY <3>1, <3>2, <3>3, <3>4, <3>5 DEF LifecycleInv, FlagsAgree
  <2>5. ASSUME NEW ok \in BOOLEAN, SActivateReturn(ok)
        PROVE  LifecycleInv'
    <3>1. FlagsAgree'
      BY <2>5 DEF SActivateReturn, FlagsAgree, MonitorTracksHost,
         ProcessingImpliesActive, OpeningExcludesActive, ViewOK
    <3>2. BoundsAgree'
      BY <2>5 DEF SActivateReturn, BoundsAgree, MonitorTracksHost, ViewOK
    <3>3. LayoutAgrees'
      BY <2>5 DEF SActivateReturn, LayoutAgrees, MonitorTracksHost, ViewOK
    <3>4. ClockAgrees'
      BY <2>5 DEF SActivateReturn, ClockAgrees, MonitorTracksHost, ViewOK, CachesOK,
         NoClock, Rebaselined
    <3>5. ExactDetection'
      BY <2>5 DEF SActivateReturn, ExactDetection
    <3> QED BY <3>1, <3>2, <3>3, <3>4, <3>5 DEF LifecycleInv, FlagsAgree
  <2>6. CASE SDeactivate
    <3>1. FlagsAgree'
      BY <2>6 DEF SDeactivate, FlagsAgree, MonitorTracksHost,
         ProcessingImpliesActive, OpeningExcludesActive, ViewOK
    <3>2. BoundsAgree'
      BY <2>6 DEF SDeactivate, BoundsAgree, MonitorTracksHost, ViewOK
    <3>3. LayoutAgrees'
      BY <2>6 DEF SDeactivate, LayoutAgrees, MonitorTracksHost, ViewOK
    <3>4. ClockAgrees'
      BY <2>6 DEF SDeactivate, ClockAgrees, MonitorTracksHost, ViewOK, CachesOK,
         NoClock, Rebaselined
    <3>5. ExactDetection'
      <4>1. CASE ~active
        <5>1. Report({"L04"}) /\ Charge({"L04"})
          BY <2>6, <4>1 DEF SDeactivate, MonitorTracksHost, When
        <5> QED BY <5>1, ReportExact
      <4>2. CASE active /\ processing
        <5>1. Report({"L05"}) /\ Charge({"L05"})
          BY <2>6, <4>2 DEF SDeactivate, MonitorTracksHost, When
        <5> QED BY <5>1, ReportExact
      <4>3. CASE active /\ ~processing
        <5>1. Report({}) /\ Charge({})
          BY <2>6, <4>3 DEF SDeactivate, MonitorTracksHost, When
        <5> QED BY <5>1, ReportExact
      <4> QED BY <4>1, <4>2, <4>3
    <3> QED BY <3>1, <3>2, <3>3, <3>4, <3>5 DEF LifecycleInv, FlagsAgree
  <2>7. ASSUME NEW ok \in BOOLEAN, SStartProcessing(ok)
        PROVE  LifecycleInv'
    <3>1. FlagsAgree'
      BY <2>7 DEF SStartProcessing, FlagsAgree, MonitorTracksHost,
         ProcessingImpliesActive, OpeningExcludesActive, ViewOK
    <3>2. BoundsAgree'
      BY <2>7 DEF SStartProcessing, BoundsAgree, MonitorTracksHost, ViewOK
    <3>3. LayoutAgrees'
      BY <2>7 DEF SStartProcessing, LayoutAgrees, MonitorTracksHost, ViewOK
    <3>4. ClockAgrees'
      BY <2>7 DEF SStartProcessing, ClockAgrees, MonitorTracksHost, ViewOK, CachesOK,
         NoClock, Rebaselined
    <3>5. ExactDetection'
      <4>1. CASE ~active \/ processing
        <5>1. Report({"L07"}) /\ Charge({"L07"})
          BY <2>7, <4>1 DEF SStartProcessing, MonitorTracksHost, When
        <5> QED BY <5>1, ReportExact
      <4>2. CASE active /\ ~processing
        <5>1. Report({}) /\ Charge({})
          BY <2>7, <4>2 DEF SStartProcessing, MonitorTracksHost, When
        <5> QED BY <5>1, ReportExact
      <4> QED BY <4>1, <4>2
    <3> QED BY <3>1, <3>2, <3>3, <3>4, <3>5 DEF LifecycleInv, FlagsAgree
  <2>8. CASE SStopProcessing
    <3>1. FlagsAgree'
      BY <2>8 DEF SStopProcessing, FlagsAgree, MonitorTracksHost,
         ProcessingImpliesActive, OpeningExcludesActive, ViewOK
    <3>2. BoundsAgree'
      BY <2>8 DEF SStopProcessing, BoundsAgree, MonitorTracksHost, ViewOK
    <3>3. LayoutAgrees'
      BY <2>8 DEF SStopProcessing, LayoutAgrees, MonitorTracksHost, ViewOK
    <3>4. ClockAgrees'
      BY <2>8 DEF SStopProcessing, ClockAgrees, MonitorTracksHost, ViewOK, CachesOK,
         NoClock, Rebaselined
    <3>5. ExactDetection'
      <4>1. CASE active /\ processing
        <5>1. ReportTimes({"L08"}, 0) /\ Charge({})
          BY <2>8, <4>1 DEF SStopProcessing, MonitorTracksHost, When
        <5>2. \A c \in Code : counters'[c] = counters[c] /\ due'[c] = due[c]
          BY <5>1 DEF ReportTimes, Charge, CountsOK
        <5> QED BY <5>2 DEF ExactDetection
      <4>2. CASE ~(active /\ processing)
        <5>1. PICK n \in {1, 2} : ReportTimes({"L08"}, n)
          BY <2>8, <4>2 DEF SStopProcessing
        <5>2. Charge({"L08"})
          BY <2>8, <4>2 DEF SStopProcessing, MonitorTracksHost, When
        <5>3. \A c \in Code : c # "L08" => counters'[c] = counters[c]
                                          /\ due'[c] = due[c]
          BY <5>1, <5>2 DEF ReportTimes, Charge, CountsOK
        <5>4. "L08" \in Code
          BY DEF Code
        <5>5. /\ counters'["L08"] = counters["L08"] + n
              /\ due'["L08"] = due["L08"] + 1
          BY <5>1, <5>2, <5>4 DEF ReportTimes, Charge, CountsOK
        <5>6. counters["L08"] \in Nat /\ due["L08"] \in Nat
          BY <5>4 DEF CountsOK
        <5> QED BY <5>1, <5>3, <5>4, <5>5, <5>6 DEF ExactDetection
      <4> QED BY <4>1, <4>2
    <3> QED BY <3>1, <3>2, <3>3, <3>4, <3>5 DEF LifecycleInv, FlagsAgree
  <2>9. CASE SReset
    <3>1. FlagsAgree'
      BY <2>9 DEF SReset, FlagsAgree, MonitorTracksHost,
         ProcessingImpliesActive, OpeningExcludesActive, ViewOK
    <3>2. BoundsAgree'
      BY <2>9 DEF SReset, BoundsAgree, MonitorTracksHost, ViewOK
    <3>3. LayoutAgrees'
      BY <2>9 DEF SReset, LayoutAgrees, MonitorTracksHost, ViewOK
    <3>4. ClockAgrees'
      BY <2>9 DEF SReset, ClockAgrees, MonitorTracksHost, ViewOK, CachesOK,
         NoClock, Rebaselined
    <3>5. ExactDetection'
      <4>1. CASE ~active
        <5>1. Report({"L10"}) /\ Charge({"L10"})
          BY <2>9, <4>1 DEF SReset, MonitorTracksHost, When
        <5> QED BY <5>1, ReportExact
      <4>2. CASE active
        <5>1. Report({}) /\ Charge({})
          BY <2>9, <4>2 DEF SReset, MonitorTracksHost, When
        <5> QED BY <5>1, ReportExact
      <4> QED BY <4>1, <4>2
    <3> QED BY <3>1, <3>2, <3>3, <3>4, <3>5 DEF LifecycleInv, FlagsAgree
  <2>10. ASSUME NEW n \in Frames, NEW t \in Times, NEW l \in Layouts,
                NEW u \in BOOLEAN, SProcess(n, t, l, u)
        PROVE  LifecycleInv'
    <3>1. FlagsAgree'
      <4>1. CASE inProcess \/ ~active \/ ~processing
        BY <2>10, <4>1 DEF SProcess, FlagsAgree, MonitorTracksHost,
           ProcessingImpliesActive, OpeningExcludesActive
      <4>2. CASE ~inProcess /\ active /\ processing
        <5> DEFINE runs == l # snapshot \/ u
        <5>1. inProcess' = runs
          BY <2>10, <4>2 DEF SProcess
        <5>2. view' = [view EXCEPT !.block = runs,
                          !.clock = IF t < 0 THEN NoClock ELSE t + n]
          BY <2>10, <4>2 DEF SProcess, MonitorTracksHost, LayoutAgrees
        <5> HIDE DEF runs
        <5>3. /\ view'.init = view.init /\ view'.act = view.act
              /\ view'.proc = view.proc /\ view'.opening = view.opening
              /\ view'.asked = view.asked /\ view'.block = runs
          BY <5>2 DEF ViewOK
        <5> QED BY <2>10, <5>1, <5>3 DEF SProcess, FlagsAgree,
                   MonitorTracksHost, ProcessingImpliesActive,
                   OpeningExcludesActive
      <4> QED BY <4>1, <4>2
    <3>2. BoundsAgree'
      <4>1. view'.min = view.min /\ view'.max = view.max
        BY <2>10 DEF SProcess, ViewOK
      <4> QED BY <2>10, <4>1 DEF SProcess, BoundsAgree
    <3>3. LayoutAgrees'
      <4>1. view'.ports = view.ports
        BY <2>10 DEF SProcess, ViewOK
      <4> QED BY <2>10, <4>1 DEF SProcess, LayoutAgrees
    <3>4. ClockAgrees'
      <4>1. n \in Nat /\ t \in Int
        BY <2>10, LifecycleAssumption
      <4>2. CASE inProcess \/ ~active \/ ~processing
        BY <2>10, <4>2 DEF SProcess, ClockAgrees, MonitorTracksHost
      <4>3. CASE ~inProcess /\ active /\ processing
        <5>1. /\ steady' = SteadyAfter(t, n)
              /\ view'.clock = IF t < 0 THEN NoClock ELSE t + n
          BY <2>10, <4>3 DEF SProcess, MonitorTracksHost, ViewOK
        <5> QED BY <4>1, <5>1 DEF ClockAgrees, SteadyAfter, NoClock, CachesOK
      <4> QED BY <4>2, <4>3
    <3>5. ExactDetection'
      <4>1. n \in Nat /\ t \in Int
        BY <2>10, LifecycleAssumption
      <4>2. CASE inProcess
        <5>1. Report({"L12"}) /\ Charge({"L12"})
          BY <2>10, <4>2 DEF SProcess, MonitorTracksHost, When
        <5> QED BY <5>1, ReportExact
      <4>3. CASE ~inProcess /\ ~(active /\ processing)
        <5>1. Report({"L09"}) /\ Charge({"L09"})
          BY <2>10, <4>3 DEF SProcess, MonitorTracksHost, When
        <5> QED BY <5>1, ReportExact
      <4>4. CASE ~inProcess /\ active /\ processing
        <5> DEFINE S == When(n < bounds.min \/ n > bounds.max, "P01")
                        \cup When(~SteadyOk(t), "P02")
                        \cup When(l # snapshot, "P05")
                        \cup When(l = snapshot /\ ~u, "P09")
        <5>1. Report(S)
          BY <2>10, <4>4 DEF SProcess
        <5>2. (n < bounds.min \/ n > bounds.max)
                <=> ~LegalFrames(n, view.min, view.max)
          <6>1. bounds = Usable(view.min, view.max)
            BY <4>4 DEF BoundsAgree
          <6>2. bounds.min \in Nat /\ bounds.max \in Nat
            BY DEF CachesOK
          <6> QED BY <4>1, <6>1, <6>2 DEF LegalFrames
        <5>3. ~SteadyOk(t) <=> t >= 0 /\ t < view.clock
          BY <4>1 DEF SteadyOk, ClockAgrees, NoClock, CachesOK, ViewOK
        <5>4. l # snapshot <=> l # view.ports
          BY <4>4 DEF LayoutAgrees
        <5>5. Charge(S)
          BY <2>10, <4>4, <5>2, <5>3, <5>4 DEF SProcess, MonitorTracksHost, When
        <5> HIDE DEF S
        <5> QED BY <5>1, <5>5, ReportExact
      <4> QED BY <4>2, <4>3, <4>4
    <3> QED BY <3>1, <3>2, <3>3, <3>4, <3>5 DEF LifecycleInv, FlagsAgree
  <2>11. CASE SProcessReturn
    <3>1. FlagsAgree'
      BY <2>11 DEF SProcessReturn, FlagsAgree, MonitorTracksHost,
         ProcessingImpliesActive, OpeningExcludesActive, ViewOK
    <3>2. BoundsAgree'
      BY <2>11 DEF SProcessReturn, BoundsAgree, MonitorTracksHost, ViewOK
    <3>3. LayoutAgrees'
      BY <2>11 DEF SProcessReturn, LayoutAgrees, MonitorTracksHost, ViewOK
    <3>4. ClockAgrees'
      BY <2>11 DEF SProcessReturn, ClockAgrees, MonitorTracksHost, ViewOK, CachesOK,
         NoClock, Rebaselined
    <3>5. ExactDetection'
      BY <2>11 DEF SProcessReturn, ExactDetection
    <3> QED BY <3>1, <3>2, <3>3, <3>4, <3>5 DEF LifecycleInv, FlagsAgree
  <2>12. ASSUME NEW S, Inspect(S, S) PROVE LifecycleInv'
    <3>1. ExactDetection'
      BY <2>12, ReportExact DEF Inspect
    <3> QED
      BY <2>12, <3>1 DEF Inspect, LifecycleInv, MonitorTracksHost,
         ProcessingImpliesActive, OpeningExcludesActive, BoundsAgree,
         LayoutAgrees, ClockAgrees
  <2>13. ASSUME NEW c, NEW l \in Layouts, SConfigure(c, l)
        PROVE  LifecycleInv'
    <3>1. FlagsAgree'
      BY <2>13 DEF SConfigure, FlagsAgree, MonitorTracksHost,
         ProcessingImpliesActive, OpeningExcludesActive, ViewOK
    <3>2. BoundsAgree'
      BY <2>13 DEF SConfigure, BoundsAgree, MonitorTracksHost, ViewOK
    <3>3. LayoutAgrees'
      BY <2>13 DEF SConfigure, LayoutAgrees, MonitorTracksHost, ViewOK
    <3>4. ClockAgrees'
      BY <2>13 DEF SConfigure, ClockAgrees, MonitorTracksHost, ViewOK, CachesOK,
         NoClock, Rebaselined
    <3>5. ExactDetection'
      <4>1. CASE active
        <5>1. Report({c}) /\ Charge({c})
          BY <2>13, <4>1 DEF SConfigure, MonitorTracksHost, When
        <5> QED BY <5>1, ReportExact
      <4>2. CASE ~active
        <5>1. Report({}) /\ Charge({})
          BY <2>13, <4>2 DEF SConfigure, MonitorTracksHost, When
        <5> QED BY <5>1, ReportExact
      <4> QED BY <4>1, <4>2
    <3> QED BY <3>1, <3>2, <3>3, <3>4, <3>5 DEF LifecycleInv, FlagsAgree
  <2>14. CASE SOnMainThread
    <3>1. FlagsAgree'
      BY <2>14 DEF SOnMainThread, PendingConsumed, FlagsAgree, MonitorTracksHost,
         ProcessingImpliesActive, OpeningExcludesActive, ViewOK
    <3>2. BoundsAgree'
      BY <2>14 DEF SOnMainThread, PendingConsumed, BoundsAgree, MonitorTracksHost, ViewOK
    <3>3. LayoutAgrees'
      BY <2>14 DEF SOnMainThread, PendingConsumed, LayoutAgrees, MonitorTracksHost, ViewOK
    <3>4. ClockAgrees'
      BY <2>14 DEF SOnMainThread, PendingConsumed, ClockAgrees, MonitorTracksHost, ViewOK, CachesOK,
         NoClock, Rebaselined
    <3>5. ExactDetection'
      <4>1. CASE pendingCallbacks = 0
        <5>1. Report({"L11"}) /\ Charge({"L11"})
          BY <2>14, <4>1 DEF SOnMainThread, PendingConsumed, MonitorTracksHost, When, CachesOK
        <5> QED BY <5>1, ReportExact
      <4>2. CASE pendingCallbacks > 0
        <5>1. Report({}) /\ Charge({})
          BY <2>14, <4>2 DEF SOnMainThread, PendingConsumed, MonitorTracksHost, When, CachesOK
        <5> QED BY <5>1, ReportExact
      <4> QED BY <4>1, <4>2 DEF CachesOK
    <3> QED BY <3>1, <3>2, <3>3, <3>4, <3>5 DEF LifecycleInv, FlagsAgree
  <2>15. CASE UNCHANGED vars
    <3>1. FlagsAgree'
      BY <2>15 DEF vars, FlagsAgree, MonitorTracksHost,
         ProcessingImpliesActive, OpeningExcludesActive, ViewOK
    <3>2. BoundsAgree'
      BY <2>15 DEF vars, BoundsAgree, MonitorTracksHost, ViewOK
    <3>3. LayoutAgrees'
      BY <2>15 DEF vars, LayoutAgrees, MonitorTracksHost, ViewOK
    <3>4. ClockAgrees'
      BY <2>15 DEF vars, ClockAgrees, MonitorTracksHost, ViewOK, CachesOK,
         NoClock, Rebaselined
    <3>5. ExactDetection'
      BY <2>15 DEF vars, ExactDetection
    <3> QED BY <3>1, <3>2, <3>3, <3>4, <3>5 DEF LifecycleInv, FlagsAgree
  <2>16. SGetExtension => \E S : Inspect(S, S)
    BY DEF SGetExtension, MonitorTracksHost
  <2>17. SFlush => \E S : Inspect(S, S)
    BY DEF SFlush, MonitorTracksHost
  <2>18. \A c : SPortScan(c) => \E S : Inspect(S, S)
    BY DEF SPortScan, MonitorTracksHost, OpeningExcludesActive, FlagsOK
  <2>19. SLatencyGet => \E S : Inspect(S, S)
    BY DEF SLatencyGet, MonitorTracksHost
  <2>20. SVoiceInfoGet \/ SCanApply => \E S : Inspect(S, S)
    BY DEF SVoiceInfoGet, SCanApply, MonitorTracksHost
  <2> QED
    BY <2>1, <2>2, <2>3, <2>4, <2>5, <2>6, <2>7, <2>8, <2>9, <2>10, <2>11, <2>12, <2>13, <2>14, <2>15, <2>16, <2>17, <2>18, <2>19, <2>20 DEF Next
<1> QED BY <1>1, <1>2, TypeCorrect, PTL DEF Spec
-----------------------------------------------------------------------------
\* What the audio thread compares a block with

(* The captured layout and frame bounds are the flavor's current ones for  *)
(* as long as the plugin is active, whatever was refused in between.       *)
THEOREM SnapshotIsCurrent == Spec => []SnapshotCurrent
<1>1. TypeOK /\ LifecycleInv => SnapshotCurrent
  <2> SUFFICES ASSUME TypeOK, LifecycleInv, active PROVE SnapshotCurrent
    BY DEF SnapshotCurrent
  <2>1. view.min \in Nat /\ view.max \in Nat
    BY DEF TypeOK, ViewOK
  <2>2. bounds = Usable(view.min, view.max)
    BY DEF LifecycleInv, BoundsAgree
  <2>3. 1 <= bounds.min /\ bounds.min <= bounds.max
    BY <2>1, <2>2, UsableType
  <2> QED BY <2>3 DEF LifecycleInv, LayoutAgrees, SnapshotCurrent
<1> QED BY <1>1, TypeCorrect, LifecycleCorrect, PTL

(* Over the life of the instance each code counts exactly the calls that   *)
(* break its rule.                                                         *)
THEOREM DetectionIsExact == Spec => []ExactDetection
<1>1. LifecycleInv => ExactDetection
  BY DEF LifecycleInv
<1> QED BY <1>1, LifecycleCorrect, PTL

(* The monitor's flags are the host's, and processing implies active.      *)
THEOREM MonitorIsRight ==
  Spec => [](MonitorTracksHost /\ ProcessingImpliesActive)
<1>1. LifecycleInv => MonitorTracksHost /\ ProcessingImpliesActive
  BY DEF LifecycleInv
<1> QED BY <1>1, LifecycleCorrect, PTL
-----------------------------------------------------------------------------
\* Rejected calls

Refused == \E c \in RejectCode : counters'[c] > counters[c]

(* A call that reports none of the rejecting codes refuses nothing.        *)
LEMMA NothingRefused ==
  ASSUME TypeOK, NEW S, NEW n, ReportTimes(S, n), S \cap RejectCode = {}
  PROVE  ~Refused
<1> SUFFICES ASSUME NEW c \in RejectCode, counters'[c] > counters[c]
             PROVE  FALSE
  BY DEF Refused
<1>1. c \in Code /\ c \notin S
  BY DEF RejectCode, Code
<1>2. counters'[c] = counters[c] /\ counters[c] \in Nat
  BY <1>1 DEF ReportTimes, TypeOK, CountsOK
<1> QED BY <1>2

(* A call the catalogue answers with Reject leaves no trace but its count. *)
THEOREM RejectionIsClean == Spec => RejectionHasNoEffect
<1> DEFINE Still == UNCHANGED <<monitor, caches, layout, pendingCallbacks>>
<1>1. TypeOK /\ [Next]_vars => [Refused => Still]_vars
  <2> SUFFICES ASSUME TypeOK, Next PROVE ~Refused \/ Still
    OBVIOUS
  <2> USE DEF monitor, caches
  <2>1. ASSUME NEW S, Report(S), S \cap RejectCode = {} PROVE ~Refused
    BY <2>1, NothingRefused DEF Report
  <2>2. ASSUME UNCHANGED counters PROVE ~Refused
    BY <2>2 DEF Refused, RejectCode, Code, TypeOK, CountsOK
  <2>3. ASSUME NEW P, NEW c, c \notin RejectCode
        PROVE  When(P, c) \cap RejectCode = {}
    BY <2>3 DEF When
  <2>4. ASSUME CreatePlugin PROVE ~Refused
    BY <2>4 DEF CreatePlugin, NoCounts, Refused, RejectCode, Code, TypeOK,
                CountsOK
  <2>5. ASSUME SInit PROVE ~Refused \/ Still
    BY <2>5, <2>1 DEF SInit
  <2>6. ASSUME SDestroy PROVE ~Refused \/ Still
    BY <2>6, <2>1, <2>3 DEF SDestroy, RejectCode
  <2>7. ASSUME NEW min, NEW max, SActivate(min, max) PROVE ~Refused \/ Still
    BY <2>7, <2>1, <2>3 DEF SActivate, RejectCode
  <2>8. ASSUME NEW ok, SActivateReturn(ok) PROVE ~Refused \/ Still
    BY <2>8, <2>2 DEF SActivateReturn
  <2>9. ASSUME SDeactivate PROVE ~Refused \/ Still
    <3>1. {"L04"} \cap RejectCode = {}
      BY DEF RejectCode
    <3> QED BY <2>9, <2>1, <2>3, <3>1 DEF SDeactivate, RejectCode
  <2>10. ASSUME NEW ok, SStartProcessing(ok) PROVE ~Refused \/ Still
    BY <2>10, <2>1 DEF SStartProcessing
  <2>11. ASSUME SStopProcessing PROVE ~Refused \/ Still
    BY <2>11, NothingRefused DEF SStopProcessing, RejectCode
  <2>12. ASSUME SReset PROVE ~Refused \/ Still
    BY <2>12, <2>1, <2>3 DEF SReset, RejectCode
  <2>13. ASSUME NEW n, NEW t, NEW l, NEW u, SProcess(n, t, l, u)
         PROVE  ~Refused \/ Still
    <3>1. CASE inProcess \/ ~active \/ ~processing
      BY <2>13, <3>1 DEF SProcess
    <3>2. CASE ~inProcess /\ active /\ processing
      BY <2>13, <3>2, <2>1 DEF SProcess, When, RejectCode
    <3> QED BY <3>1, <3>2
  <2>14. ASSUME SProcessReturn PROVE ~Refused \/ Still
    BY <2>14, <2>2 DEF SProcessReturn
  <2>15. ASSUME NEW S, NEW T, Inspect(S, T) PROVE ~Refused \/ Still
    BY <2>15 DEF Inspect
  <2>16. ASSUME NEW c, NEW l, SConfigure(c, l) PROVE ~Refused \/ Still
    BY <2>16, <2>1 DEF SConfigure, When
  <2>17. ASSUME SOnMainThread PROVE ~Refused \/ Still
    BY <2>17, <2>1, <2>3 DEF SOnMainThread, PendingConsumed, RejectCode
  <2> QED
    BY <2>4, <2>5, <2>6, <2>7, <2>8, <2>9, <2>10, <2>11, <2>12, <2>13,
       <2>14, <2>15, <2>16, <2>17
       DEF Next, SGetExtension, SFlush, SPortScan, SLatencyGet,
           SVoiceInfoGet, SCanApply
<1> QED BY <1>1, TypeCorrect, PTL DEF Spec, RejectionHasNoEffect, Refused
-----------------------------------------------------------------------------
\* The flavor behind the wrapper

(* Without overlapping lifecycle calls a block runs only while processing. *)
BlockRuns == inProcess => alive /\ processing

LEMMA BlockRunsWhileProcessing ==
  ASSUME Overlap = FALSE
  PROVE  Spec => []BlockRuns
<1>1. Init => BlockRuns
  BY DEF Init, BlockRuns
<1>2. TypeOK /\ BlockRuns /\ [Next]_vars => BlockRuns'
  <2> SUFFICES ASSUME TypeOK, BlockRuns, [Next]_vars PROVE BlockRuns'
    OBVIOUS
  <2> USE DEF monitor, caches, BlockRuns, Serial
  <2>0. FlagsOK
    BY DEF TypeOK
  <2>1. CASE CreatePlugin
    BY <2>1 DEF CreatePlugin
  <2>2. CASE SInit \/ SDestroy \/ SReset \/ SOnMainThread
    BY <2>2 DEF SInit, SDestroy, SReset, SOnMainThread
  <2>3. CASE SDeactivate \/ SStopProcessing
    BY <2>3 DEF SDeactivate, SStopProcessing
  <2>4. ASSUME NEW ok, SActivateReturn(ok) \/ SStartProcessing(ok)
        PROVE  BlockRuns'
    BY <2>4 DEF SActivateReturn, SStartProcessing
  <2>5. ASSUME NEW min, NEW max, SActivate(min, max) PROVE BlockRuns'
    BY <2>5 DEF SActivate
  <2>6. ASSUME NEW n, NEW t, NEW l, NEW u, SProcess(n, t, l, u)
        PROVE  BlockRuns'
    BY <2>6, <2>0 DEF SProcess, FlagsOK
  <2>7. CASE SProcessReturn
    BY <2>7 DEF SProcessReturn
  <2>8. ASSUME NEW S, NEW T, Inspect(S, T) PROVE BlockRuns'
    BY <2>8 DEF Inspect
  <2>9. ASSUME NEW c, NEW l, SConfigure(c, l) PROVE BlockRuns'
    BY <2>9 DEF SConfigure
  <2>10. CASE UNCHANGED vars
    BY <2>10 DEF vars
  <2> QED
    BY <2>1, <2>2, <2>3, <2>4, <2>5, <2>6, <2>7, <2>8, <2>9, <2>10
       DEF Next, SGetExtension, SFlush, SPortScan, SLatencyGet,
           SVoiceInfoGet, SCanApply
<1> QED BY <1>1, <1>2, TypeCorrect, PTL DEF Spec

(* With a host that makes no lifecycle call over a running block, every    *)
(* flavor sees its virtuals in the order of FlavorProtocol, however wrong  *)
(* the order of the host's calls is.                                       *)
THEOREM ImplementsFlavorProtocol ==
  ASSUME Overlap = FALSE
  PROVE  Spec => FlavorSpec
<1> DEFINE Inv == TypeOK /\ LifecycleInv /\ BlockRuns
           PStep == [Flavor!ProtocolNext]_(Flavor!protocolVars)
<1>1. Init => Flavor!ProtocolInit
  BY LifecycleAssumption DEF Init, Flavor!ProtocolInit, FlavorPhase
<1>2. Inv /\ [Next]_vars => PStep
  <2> SUFFICES ASSUME Inv, [Next]_vars PROVE PStep
    OBVIOUS
  <2>0. /\ FlagsOK /\ layout \in Layouts
        /\ processing => active
        /\ beingActivated => ~active
        /\ inProcess => alive /\ processing
    BY DEF TypeOK, CachesOK, LifecycleInv, ProcessingImpliesActive,
           OpeningExcludesActive, BlockRuns
  <2>p. /\ ~alive => FlavorPhase = "gone"
        /\ alive /\ processing => FlavorPhase = "processing"
        /\ alive /\ active /\ ~processing => FlavorPhase = "active"
        /\ alive /\ ~active /\ ~processing => FlavorPhase = "idle"
    BY DEF FlavorPhase
  <2>q. /\ ~alive' => FlavorPhase' = "gone"
        /\ alive' /\ processing' => FlavorPhase' = "processing"
        /\ alive' /\ active' /\ ~processing' => FlavorPhase' = "active"
        /\ alive' /\ ~active' /\ ~processing' => FlavorPhase' = "idle"
    BY DEF FlavorPhase
  <2>s. ASSUME UNCHANGED <<alive, active, processing, inProcess, layout,
                           snapshot>>
        PROVE  PStep
    BY <2>s DEF Flavor!protocolVars, FlavorPhase
  <2> USE <2>0, <2>p, <2>q DEF monitor, caches
  <2>1. CASE CreatePlugin
    <3>1. Flavor!Construct
      BY <2>1, LifecycleAssumption DEF CreatePlugin, Flavor!Construct
    <3> QED BY <3>1 DEF Flavor!ProtocolNext
  <2>2. CASE SInit \/ SReset \/ SOnMainThread
    BY <2>2, <2>s DEF SInit, SReset, SOnMainThread
  <2>3. CASE SDestroy
    <3>1. Flavor!Delete
      BY <2>3 DEF SDestroy, MainIdle, Flavor!Delete, FlagsOK
    <3> QED BY <3>1 DEF Flavor!ProtocolNext
  <2>4. ASSUME NEW min, NEW max, SActivate(min, max) PROVE PStep
    BY <2>4, <2>s DEF SActivate
  <2>5. ASSUME NEW ok \in BOOLEAN, SActivateReturn(ok) PROVE PStep
    <3>1. CASE ok
      <4>1. Flavor!Activate
        BY <2>5, <3>1 DEF SActivateReturn, Flavor!Activate
      <4> QED BY <4>1 DEF Flavor!ProtocolNext
    <3>2. CASE ~ok
      BY <2>5, <3>2, <2>s DEF SActivateReturn
    <3> QED BY <3>1, <3>2
  <2>6. CASE SDeactivate
    <3>1. CASE active
      <4>1. Flavor!Deactivate
        BY <2>6, <3>1 DEF SDeactivate, MainIdle, Serial, Flavor!Deactivate
      <4> QED BY <4>1 DEF Flavor!ProtocolNext
    <3>2. CASE ~active
      BY <2>6, <3>2, <2>s DEF SDeactivate
    <3> QED BY <3>1, <3>2
  <2>7. ASSUME NEW ok \in BOOLEAN, SStartProcessing(ok) PROVE PStep
    <3>1. CASE active /\ ~processing /\ ok
      <4>1. Flavor!StartProcessing
        BY <2>7, <3>1 DEF SStartProcessing, Flavor!StartProcessing
      <4> QED BY <4>1 DEF Flavor!ProtocolNext
    <3>2. CASE ~(active /\ ~processing /\ ok)
      BY <2>7, <3>2, <2>s DEF SStartProcessing, FlagsOK
    <3> QED BY <3>1, <3>2
  <2>8. CASE SStopProcessing
    <3>1. CASE processing
      <4>1. Flavor!StopProcessing
        BY <2>8, <3>1 DEF SStopProcessing, Serial, Flavor!StopProcessing
      <4> QED BY <4>1 DEF Flavor!ProtocolNext
    <3>2. CASE ~processing
      BY <2>8, <3>2, <2>s DEF SStopProcessing, FlagsOK
    <3> QED BY <3>1, <3>2
  <2>9. ASSUME NEW n, NEW t, NEW l, NEW u, SProcess(n, t, l, u) PROVE PStep
    <3>1. CASE inProcess' = inProcess
      BY <2>9, <3>1, <2>s DEF SProcess
    <3>2. CASE inProcess' # inProcess
      <4>1. ~inProcess /\ active /\ processing
        BY <2>9, <3>2 DEF SProcess
      <4>2. inProcess' = TRUE
        BY <2>9, <3>2, <4>1 DEF SProcess, FlagsOK
      <4>3. Flavor!BlockBegin
        BY <2>9, <4>1, <4>2 DEF SProcess, Flavor!BlockBegin
      <4> QED BY <4>3 DEF Flavor!ProtocolNext
    <3> QED BY <3>1, <3>2
  <2>10. CASE SProcessReturn
    <3>1. Flavor!BlockEnd
      BY <2>10 DEF SProcessReturn, Flavor!BlockEnd
    <3> QED BY <3>1 DEF Flavor!ProtocolNext
  <2>11. ASSUME NEW S, NEW T, Inspect(S, T) PROVE PStep
    BY <2>11, <2>s DEF Inspect
  <2>12. ASSUME NEW c, NEW l \in Layouts, SConfigure(c, l) PROVE PStep
    <3>1. CASE active
      BY <2>12, <3>1, <2>s DEF SConfigure
    <3>2. CASE ~active
      <4>1. Flavor!Reconfigure
        BY <2>12, <3>2 DEF SConfigure, Flavor!Reconfigure
      <4> QED BY <4>1 DEF Flavor!ProtocolNext
    <3> QED BY <3>1, <3>2
  <2>13. CASE UNCHANGED vars
    BY <2>13, <2>s DEF vars
  <2> HIDE DEF PStep
  <2> QED
    BY <2>1, <2>2, <2>3, <2>4, <2>5, <2>6, <2>7, <2>8, <2>9, <2>10, <2>11,
       <2>12, <2>13
       DEF Next, SGetExtension, SFlush, SPortScan, SLatencyGet,
           SVoiceInfoGet, SCanApply
<1> QED
  BY <1>1, <1>2, TypeCorrect, LifecycleCorrect, BlockRunsWhileProcessing, PTL
     DEF Spec, FlavorSpec, Flavor!ProtocolSpec
=============================================================================
