--------------------------- MODULE ProcessThreads ---------------------------
(***************************************************************************)
(* The lifecycle trampolines of wrapper/plugin.cpp at the grain of the     *)
(* atomics they load and store, run by one main thread and several audio   *)
(* threads of the host.                                                    *)
(*                                                                         *)
(* A trampoline tests a flag, calls the flavor and stores the flag later,  *)
(* so another thread can come between.  Nothing stops a host from doing    *)
(* so; `broken` remembers whether it has: a host with broken = "none" has   *)
(* followed clap/plugin.h to the letter, one with broken = "L05" has only  *)
(* called deactivate() on a plugin it had not stopped, the offence the     *)
(* catalogue answers with a forced stop.                                   *)
(***************************************************************************)
EXTENDS Integers

CONSTANTS Threads         \* the host's audio threads

VARIABLES
  active, processing, inProcess,   \* the monitor's atomics
  main,          \* where the main thread is
  pc,            \* where each audio thread is
  reported,      \* has the monitor reported anything?
  host,          \* how far the host believes to have brought the plugin
  broken         \* the rules of the calling sequence the host has broken

monitor == <<active, processing, inProcess>>
ghosts == <<host, broken>>
vars == <<monitor, main, pc, reported, ghosts>>

(* The stages of each call; a stage that ends in "ing" runs flavor code or *)
(* works on data of the monitor that is not atomic.                        *)
MainStage == {"idle", "activating", "capturing", "loadProcessing", "forcing",
              "deactivating"}
InBlock == {"loadActive", "loadRunning", "checking", "running", "leaving"}
AudioStage == InBlock \cup {"idle", "startTest", "starting", "rebasing",
                            "stopTest", "stopping", "resetting"}

Init ==
  /\ active = FALSE /\ processing = FALSE /\ inProcess = FALSE
  /\ main = "idle" /\ pc = [t \in Threads |-> "idle"]
  /\ reported = FALSE
  /\ host = "inactive" /\ broken = "none"
-----------------------------------------------------------------------------
\* Helpers

Report(code) == reported' = TRUE
ReportIf(P, code) == reported' = (reported \/ P)
Goto(t, stage) == pc' = [pc EXCEPT ![t] = stage]
AudioIdle == \A t \in Threads : pc[t] = "idle"

(* The host begins a call; its rule asks for P.                            *)
Rule(P) == broken' = IF P THEN broken ELSE "others"

(* ... on an audio thread: audio calls are not concurrent, and [active]    *)
(* ends where deactivate() begins.                                         *)
AudioRule(P) == Rule(P /\ main = "idle" /\ AudioIdle)

DeactivateRule ==
  broken' = CASE host = "active" /\ AudioIdle               -> broken
              [] host = "processing" /\ broken # "others"   -> "L05"
              [] OTHER                                      -> "others"
-----------------------------------------------------------------------------
\* Main thread

(* sActivate: the test of isActive().                                      *)
ActivateBegin ==
  /\ main = "idle"
  /\ Rule(host = "inactive")
  /\ IF active THEN Report("L03") /\ UNCHANGED main
               ELSE main' = "activating" /\ UNCHANGED reported
  /\ UNCHANGED <<monitor, pc, host>>

(* The flavor's activate() returns; captureActivateSnapshot() follows when *)
(* it agreed.                                                              *)
ActivateFlavor(ok) ==
  /\ main = "activating"
  /\ main' = IF ok THEN "capturing" ELSE "idle"
  /\ UNCHANGED <<monitor, pc, reported, ghosts>>

ActivateDone ==
  /\ main = "capturing"
  /\ active' = TRUE
  /\ main' = "idle" /\ host' = "active"
  /\ UNCHANGED <<processing, inProcess, pc, reported, broken>>

(* sDeactivate: the test of isActive(), ...                                *)
DeactivateBegin ==
  /\ main = "idle"
  /\ DeactivateRule
  /\ IF active THEN main' = "loadProcessing" /\ UNCHANGED reported
               ELSE Report("L04") /\ UNCHANGED main
  /\ UNCHANGED <<monitor, pc, host>>

(* ... the test of isProcessing(), ...                                     *)
DeactivateTest ==
  /\ main = "loadProcessing"
  /\ IF processing THEN Report("L05") /\ main' = "forcing"
                   ELSE main' = "deactivating" /\ UNCHANGED reported
  /\ UNCHANGED <<monitor, pc, ghosts>>

(* Mutant: the flavor is stopped, the flag is not.                         *)
ForcedStopKeepsFlag ==
  /\ main = "forcing"
  /\ main' = "deactivating"
  /\ UNCHANGED <<monitor, pc, reported, ghosts>>

(* ... the forced stopProcessing(), and the flavor's deactivate().         *)
ForcedStop ==
  /\ main = "forcing"
  /\ processing' = FALSE
  /\ main' = "deactivating"
  /\ UNCHANGED <<active, inProcess, pc, reported, ghosts>>

DeactivateDone ==
  /\ main = "deactivating"
  /\ active' = FALSE
  /\ main' = "idle" /\ host' = "inactive"
  /\ UNCHANGED <<processing, inProcess, pc, reported, broken>>
-----------------------------------------------------------------------------
\* Audio threads: start_processing(), stop_processing(), reset()

StartBegin(t) ==
  /\ pc[t] = "idle"
  /\ AudioRule(host = "active")
  /\ IF active THEN Goto(t, "startTest") /\ UNCHANGED reported
               ELSE Report("L07") /\ UNCHANGED pc
  /\ UNCHANGED <<monitor, main, host>>

StartTest(t) ==
  /\ pc[t] = "startTest"
  /\ IF processing THEN Report("L07") /\ Goto(t, "idle")
                   ELSE Goto(t, "starting") /\ UNCHANGED reported
  /\ UNCHANGED <<monitor, main, ghosts>>

(* setProcessing(ok) ...                                                   *)
StartStore(t, ok) ==
  /\ pc[t] = "starting"
  /\ processing' = ok
  /\ Goto(t, "rebasing")
  /\ UNCHANGED <<active, inProcess, main, reported, ghosts>>

(* ... and only then invalidateSteadyTime(), which is not atomic.          *)
StartDone(t) ==
  /\ pc[t] = "rebasing"
  /\ Goto(t, "idle")
  /\ host' = IF processing THEN "processing" ELSE host
  /\ UNCHANGED <<monitor, main, reported, broken>>

StopBegin(t) ==
  /\ pc[t] = "idle"
  /\ AudioRule(host = "processing")
  /\ ReportIf(~active, "L08")
  /\ Goto(t, "stopTest")
  /\ UNCHANGED <<monitor, main, host>>

StopTest(t) ==
  /\ pc[t] = "stopTest"
  /\ IF processing THEN Goto(t, "stopping") /\ UNCHANGED reported
                   ELSE Report("L08") /\ Goto(t, "idle")
  /\ UNCHANGED <<monitor, main, ghosts>>

(* Mutant: stop_processing() stops the flavor and keeps the flag.          *)
StopDoneKeepsFlag(t) ==
  /\ pc[t] = "stopping"
  /\ Goto(t, "idle")
  /\ host' = IF host = "processing" THEN "active" ELSE host
  /\ UNCHANGED <<monitor, main, reported, broken>>

StopDone(t) ==
  /\ pc[t] = "stopping"
  /\ processing' = FALSE
  /\ Goto(t, "idle")
  /\ host' = IF host = "processing" THEN "active" ELSE host
  /\ UNCHANGED <<active, inProcess, main, reported, broken>>

(* sReset: the test, then invalidateSteadyTime() and the flavor's reset(). *)
ResetBegin(t) ==
  /\ pc[t] = "idle"
  /\ AudioRule(host # "inactive")
  /\ ReportIf(~active, "L10")
  /\ Goto(t, "resetting")
  /\ UNCHANGED <<monitor, main, host>>

ResetDone(t) ==
  /\ pc[t] = "resetting"
  /\ Goto(t, "idle")
  /\ UNCHANGED <<monitor, main, reported, ghosts>>
-----------------------------------------------------------------------------
\* Audio threads: process()

(* Mutant: tryEnterProcess() as a load and a store.                        *)
ProcessBeginUnguarded(t) ==
  /\ pc[t] = "idle"
  /\ AudioRule(host = "processing")
  /\ inProcess' = TRUE
  /\ ReportIf(inProcess, "L12")
  /\ Goto(t, "loadActive")
  /\ UNCHANGED <<active, processing, main, host>>

(* tryEnterProcess(): the compare-exchange on _inProcess.                  *)
ProcessBegin(t) ==
  /\ pc[t] = "idle"
  /\ AudioRule(host = "processing")
  /\ inProcess' = TRUE
  /\ IF inProcess THEN Report("L12") /\ UNCHANGED pc
                  ELSE Goto(t, "loadActive") /\ UNCHANGED reported
  /\ UNCHANGED <<active, processing, main, host>>

ProcessLoadActive(t) ==
  /\ pc[t] = "loadActive"
  /\ IF active THEN Goto(t, "loadRunning") /\ UNCHANGED reported
               ELSE Report("L09") /\ Goto(t, "leaving")
  /\ UNCHANGED <<monitor, main, ghosts>>

ProcessLoadRunning(t) ==
  /\ pc[t] = "loadRunning"
  /\ IF processing THEN Goto(t, "checking") /\ UNCHANGED reported
                   ELSE Report("L09") /\ Goto(t, "leaving")
  /\ UNCHANGED <<monitor, main, ghosts>>

(* checkProcessContracts() is done with the snapshot and the steady-time   *)
(* baseline; the flavor's process() runs unless a port had no buffer.      *)
ProcessChecked(t, processable) ==
  /\ pc[t] = "checking"
  /\ Goto(t, IF processable THEN "running" ELSE "leaving")
  /\ UNCHANGED <<monitor, main, reported, ghosts>>

ProcessFlavor(t) ==
  /\ pc[t] = "running"
  /\ Goto(t, "leaving")
  /\ UNCHANGED <<monitor, main, reported, ghosts>>

(* ~ProcessGuard()                                                         *)
ProcessLeave(t) ==
  /\ pc[t] = "leaving"
  /\ inProcess' = FALSE
  /\ Goto(t, "idle")
  /\ UNCHANGED <<active, processing, main, reported, ghosts>>
-----------------------------------------------------------------------------
MainStep ==
  \/ \E ok \in BOOLEAN : ActivateFlavor(ok)
  \/ ActivateDone \/ DeactivateTest \/ ForcedStop \/ DeactivateDone

AudioStep(t) ==
  \/ StartTest(t) \/ \E ok \in BOOLEAN : StartStore(t, ok)
  \/ StartDone(t) \/ StopTest(t) \/ StopDone(t) \/ ResetDone(t)
  \/ ProcessLoadActive(t) \/ ProcessLoadRunning(t)
  \/ \E processable \in BOOLEAN : ProcessChecked(t, processable)
  \/ ProcessFlavor(t) \/ ProcessLeave(t)

Call(t) ==
  StartBegin(t) \/ StopBegin(t) \/ ResetBegin(t) \/ ProcessBegin(t)

Next ==
  \/ ActivateBegin \/ DeactivateBegin \/ MainStep
  \/ \E t \in Threads : Call(t) \/ AudioStep(t)

(* A thread that is inside a call keeps running and flavor code returns;   *)
(* nothing makes the host begin a call.                                    *)
Fairness == WF_vars(MainStep) /\ \A t \in Threads : WF_vars(AudioStep(t))

Spec == Init /\ [][Next]_vars /\ Fairness
-----------------------------------------------------------------------------
\* Properties

(* Type correctness of the flags and the program counters.                 *)
TypeOK ==
  /\ active \in BOOLEAN /\ processing \in BOOLEAN /\ inProcess \in BOOLEAN
  /\ main \in MainStage
  /\ pc \in [Threads -> AudioStage]
  /\ reported \in BOOLEAN
  /\ host \in {"inactive", "active", "processing"}
  /\ broken \in {"none", "L05", "others"}

(* process() is entered by one thread at a time, whatever the host does    *)
(* (docs L12: the second call is rejected), and the guard is taken exactly *)
(* while a thread is inside: no early return leaks it.                     *)
BlockExclusive ==
  /\ \A t, u \in Threads : pc[t] \in InBlock /\ pc[u] \in InBlock => t = u
  /\ inProcess <=> \E t \in Threads : pc[t] \in InBlock

(* No host that keeps the rules is ever accused, in no interleaving.       *)
NoFalseReport == broken = "none" => ~reported

(* The forced stop repairs the offence it answers: whenever every call has *)
(* returned, the flags are what the host has reached, although the blocks  *)
(* and the stop_processing() it forgot may have run across deactivate()    *)
(* and the next activate().                                                *)
FlagsSettle ==
  broken # "others" /\ main = "idle" /\ AudioIdle =>
    /\ active <=> host # "inactive"
    /\ processing <=> host = "processing"
=============================================================================
