------------------------------ MODULE LogRings ------------------------------
(***************************************************************************)
(* The two logs of the suite as operators: an instance's log               *)
(* (wrapper/logbuffer.cpp), which drops its oldest line when it is full    *)
(* and numbers its states, and the process-wide ring of lines logged       *)
(* before any instance exists (wrapper/earlylog.cpp), which keeps the      *)
(* earliest.  Each operation is one critical section of the log's mutex.   *)
(***************************************************************************)
EXTENDS Naturals, Sequences, SequencesExt

CONSTANTS
  LogCapacity,     \* LogBuffer::kMaxLines
  EarlyCapacity    \* earlylog's kMaxLines

ASSUME CapacityAssumption == LogCapacity \in Nat \ {0} /\ EarlyCapacity \in Nat

EmptyLog == [lines |-> <<>>, version |-> 0]

(* LogBuffer::append: the version counts the lines ever appended.          *)
Appended(log, line) ==
  LET grown == Append(log.lines, line) IN
  [lines   |-> IF Len(grown) > LogCapacity THEN Tail(grown) ELSE grown,
   version |-> log.version + 1]

(* Mutant: a full ring drops its oldest line, as the instance log does.    *)
EarlyAppendedDropping(ring, line) ==
  IF Len(ring) >= EarlyCapacity THEN Append(Tail(ring), line) ELSE Append(ring, line)

(* earlylog::append: a full ring ignores the line.                         *)
EarlyAppended(ring, line) ==
  IF Len(ring) >= EarlyCapacity THEN ring ELSE Append(ring, line)

(* earlylog::copyInto: every line of the ring, in order.                   *)
CopiedInto(ring, log) == FoldLeft(Appended, log, ring)
=============================================================================
