-------------------------- MODULE TransportSeqlock --------------------------
(***************************************************************************)
(* The transport snapshot of the GUI flavor (plugins/gui/gui_plugin.cpp):  *)
(* process() publishes what the host said about the transport in a plain   *)
(* record, between two increments of a counter; the view's thread copies   *)
(* the record between two loads of the counter and tries again when they   *)
(* differ or are odd.                                                      *)
(*                                                                         *)
(* The copies are plain accesses, here one step for each word.  C++ calls  *)
(* the overlap a data race; what a build makes of it is `InOrder`: with     *)
(* TRUE (x86-64) the words are read between the two loads, with FALSE      *)
(* (nothing orders a plain load before a later acquire load) a word may be *)
(* read after the second.  Blocks are numbered; the counter of 32 bits is  *)
(* not wrapped: a reader would have to sleep through 2^31 blocks.          *)
(***************************************************************************)
EXTENDS Naturals, Sequences, SequencesExt

CONSTANTS
  Words,         \* the words of a TransportInfo
  Transports,    \* what a host may say of its transport
  NoTransport,   \* a null pointer: free-running
  MaxBlocks,     \* bound: blocks processed
  InOrder        \* does the build keep the copy between the two loads?

ASSUME MaxBlocksAssumption == MaxBlocks \in Nat
ASSUME InOrderAssumption == InOrder \in BOOLEAN

VARIABLES
  seq,           \* _transportSeq
  data,          \* _transportData, word by word
  block,         \* the record process() publishes
  unwritten,     \* the words it has still to store
  rstage,        \* where guiTransport() is
  before, after, \* its two loads of the counter
  out, unread,   \* its copy, and the words it has still to load
  published,     \* ledger: the last record published whole
  asked          \* ledger: the last one when the current attempt began

writerVars == <<seq, data, block, unwritten, published>>
readerVars == <<rstage, before, after, out, unread, asked>>
transportVars == <<writerVars, readerVars>>

(* The host hands a transport to the block, or null, and transport events  *)
(* among the block's events; the last of these wins.                       *)
Effective(own, events) == IF events = <<>> THEN own ELSE Last(events)

Records == [number : Nat, transport : Transports \cup {NoTransport}]

TransportInit ==
  LET none == [number |-> 0, transport |-> NoTransport] IN
  /\ seq = 0 /\ before = 0 /\ after = 0
  /\ block = none /\ published = none /\ asked = none
  /\ data = [w \in Words |-> none] /\ out = [w \in Words |-> none]
  /\ unwritten = {} /\ unread = {}
  /\ rstage = "idle"
-----------------------------------------------------------------------------
\* The audio thread

Storing == seq % 2 = 1

(* process() has looked through the events; storeTransport() makes the     *)
(* counter odd.                                                            *)
StoreBegin(own, events) ==
  /\ ~Storing /\ block.number < MaxBlocks
  /\ block' = [number |-> block.number + 1, transport |-> Effective(own, events)]
  /\ unwritten' = Words
  /\ seq' = seq + 1
  /\ UNCHANGED <<data, published>>

StoreWord(w) ==
  /\ w \in unwritten
  /\ data' = [data EXCEPT ![w] = block]
  /\ unwritten' = unwritten \ {w}
  /\ UNCHANGED <<seq, block, published>>

StoreEnd ==
  /\ Storing /\ unwritten = {}
  /\ seq' = seq + 1
  /\ published' = block
  /\ UNCHANGED <<data, block, unwritten>>
-----------------------------------------------------------------------------
\* The view's thread

(* An attempt of guiTransport()'s loop begins.                             *)
LoadBefore ==
  /\ before' = seq
  /\ asked' = published
  /\ unread' = Words
  /\ rstage' = "copying"
  /\ UNCHANGED <<after, out>>

CopyWord(w) ==
  /\ rstage # "idle" /\ w \in unread
  /\ out' = [out EXCEPT ![w] = data[w]]
  /\ unread' = unread \ {w}
  /\ UNCHANGED <<rstage, before, after, asked>>

LoadAfter ==
  /\ rstage = "copying"
  /\ InOrder => unread = {}
  /\ after' = seq
  /\ rstage' = "deciding"
  /\ UNCHANGED <<before, out, unread, asked>>

(* Mutant: an odd counter, a record being written, is taken as well.       *)
ConsistentAnyCount == before = after

Consistent == before = after /\ before % 2 = 0

(* The copy is accepted ...                                                *)
Accept ==
  /\ rstage = "deciding" /\ unread = {} /\ Consistent
  /\ rstage' = "idle"
  /\ UNCHANGED <<before, after, out, unread, asked>>

(* ... or the loop goes round.                                             *)
Retry == rstage = "deciding" /\ unread = {} /\ ~Consistent /\ LoadBefore

Publish ==
  \/ \E own \in Transports \cup {NoTransport}, events \in SeqOf(Transports, 1) :
       StoreBegin(own, events)
  \/ \E w \in Words : StoreWord(w)
  \/ StoreEnd

Reading == \/ \E w \in Words : CopyWord(w)
           \/ LoadAfter \/ Accept \/ Retry

TransportNext == \/ Publish /\ UNCHANGED readerVars
                 \/ Reading /\ UNCHANGED writerVars
                 \/ rstage = "idle" /\ LoadBefore /\ UNCHANGED writerVars

TransportSpec == TransportInit /\ [][TransportNext]_transportVars
-----------------------------------------------------------------------------
TransportTypeOK ==
  /\ seq \in Nat /\ before \in Nat /\ after \in Nat
  /\ {block, published, asked} \subseteq Records
  /\ data \in [Words -> Records] /\ out \in [Words -> Records]
  /\ unwritten \subseteq Words /\ unread \subseteq Words
  /\ rstage \in {"idle", "copying", "deciding"}

(* A copy that guiTransport() returns is one record, never a mixture of    *)
(* two blocks', and it is the one that was last published when the         *)
(* accepted attempt began: on builds that keep the copy between the loads. *)
TransportUntorn ==
  InOrder /\ rstage = "idle" => \A w \in Words : out[w] = asked
=============================================================================
