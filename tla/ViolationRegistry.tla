------------------------- MODULE ViolationRegistry -------------------------
(***************************************************************************)
(* The violation counters of ContractMonitor (wrapper/contract.cpp) and    *)
(* the query extension over them (wrapper/plugin.cpp,                      *)
(* include/cvp/violations.h), used by several threads at once.             *)
(*                                                                         *)
(* A step is one access to one atomic, or one critical section of          *)
(* _messageMutex.  Codes are their enum positions 1..NCodes; a message or  *)
(* a log line is known by the occurrence number it was written for.        *)
(***************************************************************************)
EXTENDS Integers, FiniteSetsExt

CONSTANTS
  Threads,
  NCodes,          \* kCodeCount
  FullReports,     \* kFullReports
  RepeatEvery,     \* kRepeatEvery
  MaxCalls,        \* bound: calls of report() and note()
  MaxClears,       \* bound: calls of clear()
  MaxReads         \* bound: calls of distinct() and get()

ASSUME RegistryAssumption ==
  /\ NCodes \in Nat /\ FullReports \in Nat /\ RepeatEvery \in Nat \ {0}
  /\ MaxCalls \in Nat /\ MaxClears \in Nat /\ MaxReads \in Nat

VARIABLES
  counters, total, lastCode,   \* _counters, _total, _lastCode (0 for -1)
  messages,        \* _lastMessages: the occurrence recorded, 0 when empty
  lines,           \* log lines emitted for each code and occurrence number
  pc, loc,         \* where each thread is, and its local variables
  calls,           \* report() and note() calls begun, by code and kind
  clears, reads,   \* clear() and reader calls begun (only for the bounds)
  raced,           \* a clear() has overlapped a report()
  missed           \* a get() below the caller's distinct() has failed

shared == <<counters, total, lastCode, messages, lines>>
ghosts == <<calls, clears, reads, raced, missed>>
vars == <<shared, pc, loc, ghosts>>

Codes == 1 .. NCodes
Occurrences == 1 .. MaxCalls
Recording == {"total", "code", "message", "emit"}
Clearing == {"zero", "zeroTotal", "zeroCode", "zeroMessages"}
Scanning == {"distinct", "get", "copy"}

NoLocals == [code |-> 1, n |-> 0, noted |-> FALSE, at |-> 1, seen |-> 0,
             index |-> 0, known |-> 0]

Init ==
  /\ counters = [c \in Codes |-> 0] /\ total = 0 /\ lastCode = 0
  /\ messages = [c \in Codes |-> 0]
  /\ lines = [c \in Codes |-> [n \in Occurrences |-> 0]]
  /\ pc = [t \in Threads |-> "idle"]
  /\ loc = [t \in Threads |-> NoLocals]
  /\ calls = [c \in Codes |-> [reports |-> 0, notes |-> 0]]
  /\ clears = 0 /\ reads = 0 /\ raced = FALSE /\ missed = FALSE
-----------------------------------------------------------------------------
\* Helpers

At(t, p) == pc[t] = p
Goto(t, p) == pc' = [pc EXCEPT ![t] = p]
SetLocal(t, field, value) == loc' = [loc EXCEPT ![t][field] = value]

(* The call returns; what the caller keeps is the answer of distinct().    *)
Return(t, known) ==
  /\ Goto(t, "idle")
  /\ loc' = [loc EXCEPT ![t] = [NoLocals EXCEPT !.known = known]]

Within(S) == \E t \in Threads : pc[t] \in S

NCalls == MapThenSumSet(LAMBDA c : calls[c].reports + calls[c].notes, Codes)

(* Mutant: one occurrence too few is written out in full.                  *)
ShortThrottle(n) == n < FullReports \/ n % RepeatEvery = 0

(* Is occurrence n logged?  In full up to kFullReports, then every Nth.    *)
Logged(n) == n <= FullReports \/ n % RepeatEvery = 0
-----------------------------------------------------------------------------
\* report() and note()

(* The fetch_add that hands each call its occurrence number.               *)
Count(t, c, noted) ==
  /\ At(t, "idle") /\ NCalls < MaxCalls
  /\ counters' = [counters EXCEPT ![c] = @ + 1]
  /\ loc' = [loc EXCEPT ![t].code = c, ![t].n = counters[c] + 1,
                        ![t].noted = noted]
  /\ Goto(t, "total")
  /\ calls' = IF noted THEN [calls EXCEPT ![c].notes = @ + 1]
                       ELSE [calls EXCEPT ![c].reports = @ + 1]
  /\ raced' = (raced \/ Within(Clearing))
  /\ UNCHANGED <<total, lastCode, messages, lines, clears, reads, missed>>

(* Mutant: note() counts without recording.                                *)
RecordTotalOfReports(t) ==
  /\ At(t, "total")
  /\ total' = IF loc[t].noted THEN total ELSE total + 1
  /\ Goto(t, "code")
  /\ UNCHANGED <<counters, lastCode, messages, lines, loc, ghosts>>

RecordTotal(t) ==
  /\ At(t, "total")
  /\ total' = total + 1
  /\ Goto(t, "code")
  /\ UNCHANGED <<counters, lastCode, messages, lines, loc, ghosts>>

(* What follows record(): note() is done, report() logs by the number.     *)
AfterRecord(t) ==
  IF ~loc[t].noted /\ Logged(loc[t].n)
    THEN Goto(t, "emit") /\ UNCHANGED loc
    ELSE Return(t, loc[t].known)

RecordCode(t) ==
  /\ At(t, "code")
  /\ lastCode' = loc[t].code
  /\ IF loc[t].n <= FullReports THEN Goto(t, "message") /\ UNCHANGED loc
                                ELSE AfterRecord(t)
  /\ UNCHANGED <<counters, total, messages, lines, ghosts>>

RecordMessage(t) ==
  /\ At(t, "message")
  /\ messages' = [messages EXCEPT ![loc[t].code] = loc[t].n]
  /\ AfterRecord(t)
  /\ UNCHANGED <<counters, total, lastCode, lines, ghosts>>

Emit(t) ==
  /\ At(t, "emit")
  /\ lines' = [lines EXCEPT ![loc[t].code][loc[t].n] = @ + 1]
  /\ Return(t, loc[t].known)
  /\ UNCHANGED <<counters, total, lastCode, messages, ghosts>>
-----------------------------------------------------------------------------
\* clear()

ClearBegin(t) ==
  /\ At(t, "idle") /\ clears < MaxClears
  /\ clears' = clears + 1
  /\ raced' = (raced \/ Within(Recording))
  /\ SetLocal(t, "at", 1) /\ Goto(t, "zero")
  /\ UNCHANGED <<shared, calls, reads, missed>>

ClearCounter(t) ==
  /\ At(t, "zero")
  /\ counters' = [counters EXCEPT ![loc[t].at] = 0]
  /\ IF loc[t].at < NCodes
       THEN SetLocal(t, "at", loc[t].at + 1) /\ UNCHANGED pc
       ELSE Goto(t, "zeroTotal") /\ UNCHANGED loc
  /\ UNCHANGED <<total, lastCode, messages, lines, ghosts>>

ClearTotal(t) ==
  /\ At(t, "zeroTotal")
  /\ total' = 0
  /\ Goto(t, "zeroCode")
  /\ UNCHANGED <<counters, lastCode, messages, lines, loc, ghosts>>

ClearCode(t) ==
  /\ At(t, "zeroCode")
  /\ lastCode' = 0
  /\ Goto(t, "zeroMessages")
  /\ UNCHANGED <<counters, total, messages, lines, loc, ghosts>>

ClearMessages(t) ==
  /\ At(t, "zeroMessages")
  /\ messages' = [c \in Codes |-> 0]
  /\ Return(t, loc[t].known)
  /\ UNCHANGED <<counters, total, lastCode, lines, ghosts>>
-----------------------------------------------------------------------------
\* distinct() and get()

ReadBegin(t, what, index) ==
  /\ At(t, "idle") /\ reads < MaxReads
  /\ what = "get" => index < loc[t].known
  /\ reads' = reads + 1
  /\ loc' = [loc EXCEPT ![t].at = 1, ![t].seen = 0, ![t].index = index]
  /\ Goto(t, what)
  /\ UNCHANGED <<shared, calls, clears, raced, missed>>

(* One load of the walk over the counters; the walk ends behind the last.  *)
Walked(t) == loc[t].at > NCodes
Present(t) == counters[loc[t].at] > 0

(* distinct() counts the counters that are not zero.                       *)
Distinct(t) ==
  /\ At(t, "distinct")
  /\ IF Walked(t)
       THEN Return(t, loc[t].seen)
       ELSE /\ loc' = [loc EXCEPT ![t].at = @ + 1,
                         ![t].seen = IF Present(t) THEN @ + 1 ELSE @]
            /\ UNCHANGED pc
  /\ UNCHANGED <<shared, ghosts>>

(* Mutant: the index is compared after it was advanced.                    *)
GetSkipsFirst(t) ==
  /\ At(t, "get")
  /\ IF Walked(t)
       THEN /\ missed' = TRUE
            /\ Return(t, loc[t].known)
       ELSE /\ loc' = [loc EXCEPT ![t].at = @ + 1,
                         ![t].seen = IF Present(t) THEN @ + 1 ELSE @]
            /\ Goto(t, IF Present(t) /\ loc[t].seen = loc[t].index + 1
                         THEN "copy" ELSE "get")
            /\ UNCHANGED missed
  /\ UNCHANGED <<shared, calls, clears, reads, raced>>

(* getEntry() stops at the index-th counter that is not zero.              *)
Get(t) ==
  /\ At(t, "get")
  /\ IF Walked(t)
       THEN /\ missed' = TRUE
            /\ Return(t, loc[t].known)
       ELSE /\ loc' = [loc EXCEPT ![t].at = @ + 1,
                         ![t].seen = IF Present(t) THEN @ + 1 ELSE @]
            /\ Goto(t, IF Present(t) /\ loc[t].seen = loc[t].index
                         THEN "copy" ELSE "get")
            /\ UNCHANGED missed
  /\ UNCHANGED <<shared, calls, clears, reads, raced>>

(* ... and copies the message under the mutex.                             *)
CopyMessage(t) ==
  /\ At(t, "copy")
  /\ Return(t, loc[t].known)
  /\ UNCHANGED <<shared, ghosts>>
-----------------------------------------------------------------------------
Next ==
  \E t \in Threads :
    \/ \E c \in Codes, noted \in BOOLEAN : Count(t, c, noted)
    \/ RecordTotal(t) \/ RecordCode(t) \/ RecordMessage(t) \/ Emit(t)
    \/ ClearBegin(t) \/ ClearCounter(t) \/ ClearTotal(t) \/ ClearCode(t)
    \/ ClearMessages(t)
    \/ ReadBegin(t, "distinct", 0)
    \/ \E i \in 0 .. NCodes - 1 : ReadBegin(t, "get", i)
    \/ Distinct(t) \/ Get(t) \/ CopyMessage(t)

Spec == Init /\ [][Next]_vars
-----------------------------------------------------------------------------
\* Properties

Locals == [code : Codes, n : 0 .. MaxCalls, noted : BOOLEAN,
           at : 1 .. NCodes + 1, seen : 0 .. NCodes, index : 0 .. NCodes,
           known : 0 .. NCodes]

(* Type correctness of the shared atomics and the threads' locals.         *)
TypeOK ==
  /\ counters \in [Codes -> 0 .. MaxCalls]
  /\ total \in 0 .. MaxCalls
  /\ lastCode \in 0 .. NCodes
  /\ messages \in [Codes -> 0 .. FullReports]
  /\ lines \in [Codes -> [Occurrences -> Nat]]
  /\ pc \in [Threads -> {"idle"} \cup Recording \cup Clearing \cup Scanning]
  /\ loc \in [Threads -> Locals]

Counted == MapThenSumSet(LAMBDA c : counters[c], Codes)
Uncounted == Cardinality({t \in Threads : pc[t] = "total"})
Quiet == \A t \in Threads : pc[t] \notin Recording \cup Clearing

(* Unless a clear() overlapped a report(), no call is lost between the     *)
(* per-code counters and the total: they differ by the calls that are      *)
(* between the two additions, and at rest the badge's last code is there   *)
(* exactly when something was counted.                                     *)
TotalsAgree ==
  ~raced =>
    /\ ~Within(Clearing) => Counted = total + Uncounted
    /\ Quiet => (lastCode = 0 <=> total = 0)

(* contract.h:153, "occurrences 1..5 are logged in full, then every 100th":*)
(* however the calls interleave, each occurrence number is handed out once *)
(* and logged once or never, as the rule says.                             *)
ThrottleExact ==
  Quiet /\ clears = 0 =>
    \A c \in Codes, n \in Occurrences :
      calls[c].notes = 0 =>
        lines[c][n] = IF n <= calls[c].reports
                         /\ (n <= FullReports \/ n % RepeatEvery = 0)
                        THEN 1 ELSE 0

(* violations.h:33, distinct() is the number of "valid indices for get":   *)
(* reports that arrive during the walks never make such a get() fail.      *)
IndicesStayValid == clears = 0 => ~missed
=============================================================================
