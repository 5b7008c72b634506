----------------------------- MODULE EntryPoints ----------------------------
(***************************************************************************)
(* entry.cpp: entry.init(), entry.deinit() and the other symbols of the    *)
(* library (get_factory() and the plugin factory's methods), called from   *)
(* any thread, and the checks E01..E04 on them.  A step is one access to   *)
(* one of the three atomics.  A call is "inside" from the addition to its  *)
(* depth counter to the subtraction.                                       *)
(*                                                                         *)
(* A call adds to one depth (acq_rel) and then looks at the other          *)
(* (acquire).  C++ lets the look be served before other threads see the    *)
(* addition, so two calls may each miss the other; `InOrder` is what the   *)
(* build makes of it.  With TRUE an addition is visible before the look    *)
(* that follows it: so it is on x86, where an atomic addition is a full    *)
(* barrier.  With FALSE a look finds anything the depth may have held.     *)
(* Accesses to the same atomic have one order for all threads in C++, and  *)
(* a call that begins after another has returned is taken to be ordered    *)
(* after it.                                                               *)
(***************************************************************************)
EXTENDS Integers, FiniteSets

CONSTANTS
  Threads,
  InOrder,         \* does a call's addition come before its look at the rest?
  MaxEntryCalls    \* bound: calls of init() and deinit()

ASSUME EntryAssumption ==
  IsFiniteSet(Threads) /\ InOrder \in BOOLEAN /\ MaxEntryCalls \in Nat

VARIABLES
  initCount,       \* gInitCount
  entryDepth,      \* gEntryCallDepth
  otherDepth,      \* gOtherCallDepth
  pc,              \* the next access of each thread's call
  call,            \* the call each thread is in, or was in last
  reported,        \* the codes the running call has reported
  met,             \* ghost: it was inside together with a call it must not
  clashed,         \* ghost: a deinit() was inside with another entry call
  balance,         \* ghost: the reference count of the calls that returned
  entryCalls       \* calls of init() and deinit() begun (for the bound)

vars == <<initCount, entryDepth, otherDepth, pc, call, reported, met, clashed,
          balance, entryCalls>>

EntryCall == {"init", "deinit"}
Call == EntryCall \cup {"other"}
Looking == {"others", "entries"}
Inside == Looking \cup {"bump", "load", "drop", "check", "leave"}

Init ==
  /\ initCount = 0 /\ entryDepth = 0 /\ otherDepth = 0
  /\ pc = [t \in Threads |-> "idle"]
  /\ call = [t \in Threads |-> "other"]
  /\ reported = [t \in Threads |-> {}]
  /\ met = [t \in Threads |-> FALSE]
  /\ clashed = FALSE /\ balance = 0 /\ entryCalls = 0
-----------------------------------------------------------------------------
Codes == {"E01", "E02", "E03", "E04"}

If(condition, code) == IF condition THEN {code} ELSE {}

Report(t, condition, code) ==
  reported' = [reported EXCEPT ![t] = @ \cup If(condition, code)]

Goto(t, p) == pc' = [pc EXCEPT ![t] = p]

(* The threads whose running call may not overlap a call c of thread t.    *)
Foes(t, c) ==
  {u \in Threads \ {t} : pc[u] \in Inside
                           /\ (c \in EntryCall \/ call[u] \in EntryCall)}

(* Thread t begins call c: what the ghosts see of it.                      *)
Begin(t, c) ==
  /\ pc[t] = "idle"
  /\ call' = [call EXCEPT ![t] = c]
  /\ met' = [u \in Threads |-> IF u = t THEN Foes(t, c) # {}
                                ELSE met[u] \/ u \in Foes(t, c)]
  /\ clashed' = (clashed \/ \E u \in Foes(t, c) :
                   c \in EntryCall /\ call[u] \in EntryCall
                     /\ "deinit" \in {c, call[u]})

EntryEnter(t, c) ==
  /\ c \in EntryCall /\ entryCalls < MaxEntryCalls
  /\ Begin(t, c)
  /\ entryDepth' = entryDepth + 1
  /\ reported' = [reported EXCEPT ![t] = If(entryDepth > 0, "E04")]
  /\ Goto(t, "others")
  /\ entryCalls' = entryCalls + 1
  /\ UNCHANGED <<initCount, otherDepth, balance>>

(* What a call's look at the depth of the other kind may find.             *)
Seen(depth) == IF InOrder THEN {depth} ELSE 0 .. Cardinality(Threads)

(* Mutant: one other call is let through.                                  *)
EntryLookPastOne(t) ==
  /\ pc[t] = "others"
  /\ \E depth \in Seen(otherDepth) : Report(t, depth > 1, "E04")
  /\ Goto(t, IF call[t] = "init" THEN "bump" ELSE "load")
  /\ UNCHANGED <<initCount, entryDepth, otherDepth, call, met, clashed,
                 balance, entryCalls>>

EntryLookOthers(t) ==
  /\ pc[t] = "others"
  /\ \E depth \in Seen(otherDepth) : Report(t, depth > 0, "E04")
  /\ Goto(t, IF call[t] = "init" THEN "bump" ELSE "load")
  /\ UNCHANGED <<initCount, entryDepth, otherDepth, call, met, clashed,
                 balance, entryCalls>>

(* Mutant: E02 by the count after the addition.                            *)
InitBumpLate(t) ==
  /\ pc[t] = "bump"
  /\ initCount' = initCount + 1
  /\ Report(t, initCount + 1 > 0, "E02")
  /\ Goto(t, "leave")
  /\ UNCHANGED <<entryDepth, otherDepth, call, met, clashed, balance,
                 entryCalls>>

(* init() counts, and reports E02 when it was not the first.               *)
InitBump(t) ==
  /\ pc[t] = "bump"
  /\ initCount' = initCount + 1
  /\ Report(t, initCount > 0, "E02")
  /\ Goto(t, "leave")
  /\ UNCHANGED <<entryDepth, otherDepth, call, met, clashed, balance,
                 entryCalls>>

(* Mutant: deinit() counts down without a look.                            *)
DeinitLoadBlindly(t) ==
  /\ pc[t] = "load"
  /\ Goto(t, "drop")
  /\ UNCHANGED <<initCount, entryDepth, otherDepth, call, reported, met,
                 clashed, balance, entryCalls>>

(* deinit() reads the count: zero is E03 and nothing more, ...             *)
DeinitLoad(t) ==
  /\ pc[t] = "load"
  /\ Goto(t, IF initCount = 0 THEN "leave" ELSE "drop")
  /\ Report(t, initCount = 0, "E03")
  /\ UNCHANGED <<initCount, entryDepth, otherDepth, call, met, clashed,
                 balance, entryCalls>>

(* ... else it is counted down in a second access.                         *)
DeinitDrop(t) ==
  /\ pc[t] = "drop"
  /\ initCount' = initCount - 1
  /\ Goto(t, "leave")
  /\ UNCHANGED <<entryDepth, otherDepth, call, reported, met, clashed,
                 balance, entryCalls>>

EntryLeave(t) ==
  /\ pc[t] = "leave" /\ call[t] \in EntryCall
  /\ entryDepth' = entryDepth - 1
  /\ balance' = IF call[t] = "init" THEN balance + 1
                ELSE IF balance > 0 THEN balance - 1 ELSE 0
  /\ Goto(t, "idle")
  /\ UNCHANGED <<initCount, otherDepth, call, reported, met, clashed,
                 entryCalls>>

(* OtherCallScope: the depth first, then the look at the entry calls.      *)
OtherEnter(t) ==
  /\ Begin(t, "other")
  /\ otherDepth' = otherDepth + 1
  /\ reported' = [reported EXCEPT ![t] = {}]
  /\ Goto(t, "entries")
  /\ UNCHANGED <<initCount, entryDepth, balance, entryCalls>>

OtherLookEntries(t) ==
  /\ pc[t] = "entries"
  /\ \E depth \in Seen(entryDepth) : Report(t, depth > 0, "E04")
  /\ Goto(t, "check")
  /\ UNCHANGED <<initCount, entryDepth, otherDepth, call, met, clashed,
                 balance, entryCalls>>

(* checkInitialized(): a count of zero is E01.  The call is served anyway. *)
OtherCheck(t) ==
  /\ pc[t] = "check"
  /\ Goto(t, "leave")
  /\ Report(t, initCount = 0, "E01")
  /\ UNCHANGED <<initCount, entryDepth, otherDepth, call, met, clashed,
                 balance, entryCalls>>

OtherLeave(t) ==
  /\ pc[t] = "leave" /\ call[t] = "other"
  /\ otherDepth' = otherDepth - 1
  /\ Goto(t, "idle")
  /\ UNCHANGED <<initCount, entryDepth, call, reported, met, clashed,
                 balance, entryCalls>>
-----------------------------------------------------------------------------
Next ==
  \E t \in Threads :
    \/ \E c \in EntryCall : EntryEnter(t, c)
    \/ EntryLookOthers(t) \/ EntryLeave(t)
    \/ InitBump(t) \/ DeinitLoad(t) \/ DeinitDrop(t)
    \/ OtherEnter(t) \/ OtherLookEntries(t) \/ OtherCheck(t) \/ OtherLeave(t)

Spec == Init /\ [][Next]_vars
-----------------------------------------------------------------------------
\* Properties

InEntry == {t \in Threads : pc[t] \in Inside /\ call[t] \in EntryCall}
InOther == {t \in Threads : pc[t] \in Inside /\ call[t] = "other"}
Looked == {t \in Threads : pc[t] \in Inside \ Looking}

(* Types, and each depth counter is the number of calls inside.            *)
TypeOK ==
  /\ initCount \in Int /\ balance \in Nat /\ entryCalls \in Nat
  /\ pc \in [Threads -> {"idle"} \cup Inside]
  /\ call \in [Threads -> Call]
  /\ reported \in [Threads -> SUBSET Codes] /\ met \in [Threads -> BOOLEAN]
  /\ clashed \in BOOLEAN
  /\ entryDepth = Cardinality(InEntry) /\ otherDepth = Cardinality(InOther)

(* E04, "init()/deinit() overlapping another entry call or any other DSO   *)
(* symbol": of two such calls that are inside together and have both       *)
(* looked, one has reported, however their accesses interleave, as long    *)
(* as the build keeps each call's accesses in order.  (One that leaves     *)
(* before the other looks goes unseen.)                                    *)
OverlapReported ==
  InOrder =>
    \A t \in Looked : \A u \in Foes(t, call[t]) \cap Looked :
      "E04" \in reported[t] \cup reported[u]

(* E04 is never reported of a call that overlapped nothing it must not, by *)
(* such a build.                                                           *)
OverlapReal ==
  InOrder =>
    \A t \in Threads : pc[t] \in Inside /\ "E04" \in reported[t] => met[t]

(* entry.cpp:18, "successful init() minus deinit()": as long as no         *)
(* deinit() overlaps an entry call, however init() and the other symbols   *)
(* overlap, the count that E01, E02 and E03 go by is the count of the      *)
(* calls that returned, and a deinit() too many changes nothing.           *)
CountIsBalance == ~clashed /\ InEntry = {} => initCount = balance

(* E01, E02 and E03: a call that met no call it must not reports the code  *)
(* exactly when the calls that have returned call for it.                  *)
CountReportsRight ==
  \A t \in Threads :
    pc[t] = "leave" /\ ~met[t] /\ ~clashed =>
      CASE call[t] = "other"  -> "E01" \in reported[t] <=> balance = 0
        [] call[t] = "init"   -> "E02" \in reported[t] <=> balance > 0
        [] call[t] = "deinit" -> "E03" \in reported[t] <=> balance = 0
=============================================================================
