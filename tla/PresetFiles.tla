----------------------------- MODULE PresetFiles ----------------------------
(***************************************************************************)
(* preset::ensureSamplePresetFiles() (plugins/preset/preset_shared.cpp):   *)
(* the sample preset files that a provider's init() puts on disk.  Each    *)
(* process goes through the samples in order; a step is one call into the  *)
(* file system.  A process may be killed between any two of them, and      *)
(* several processes may scan at once.  The name of the temporary file is  *)
(* the same for all of them.                                               *)
(***************************************************************************)
EXTENDS Naturals

CONSTANTS
  Processes,     \* the processes that load the library
  Samples        \* how many sample files there are

ASSUME FilesAssumption == Samples \in Nat \ {0}

VARIABLES
  usable,        \* can the preset directory be made?
  path, tmp,     \* what the sample's name and its ".tmp" name hold
  at,            \* the sample each process is at
  pc,            \* the next call of each process
  held,          \* the name that the file it has opened goes by now
  spoiled        \* ledger: a write met another process's, or fell short

fileVars == <<usable, path, tmp, at, pc, held, spoiled>>

File == 1..Samples
Content == {"absent", "partial", "whole"}

FilesInit ==
  /\ usable \in BOOLEAN
  /\ path = [f \in File |-> "absent"] /\ tmp = [f \in File |-> "absent"]
  /\ at = [p \in Processes |-> 1] /\ pc = [p \in Processes |-> "idle"]
  /\ held = [p \in Processes |-> "none"]
  /\ spoiled = FALSE

FilesTypeOK ==
  /\ usable \in BOOLEAN /\ spoiled \in BOOLEAN
  /\ path \in [File -> Content] /\ tmp \in [File -> Content]
  /\ at \in [Processes -> File]
  /\ pc \in [Processes -> {"idle", "look", "open", "write", "rename", "done"}]
  /\ held \in [Processes -> {"none", "tmp", "path", "gone"}]
-----------------------------------------------------------------------------
Goto(p, step) == pc' = [pc EXCEPT ![p] = step]

(* The loop goes on to the next sample, or ends.                           *)
Advance(p) ==
  IF at[p] = Samples
  THEN Goto(p, "done") /\ UNCHANGED at
  ELSE Goto(p, "look") /\ at' = [at EXCEPT ![p] = @ + 1]

(* The call begins; without a directory it returns false at once.          *)
EnsureBegin(p) ==
  /\ pc[p] = "idle" /\ usable
  /\ Goto(p, "look") /\ at' = [at EXCEPT ![p] = 1]
  /\ UNCHANGED <<usable, path, tmp, held, spoiled>>

(* A file that exists is never overwritten.                                *)
LookForSample(p) ==
  /\ pc[p] = "look"
  /\ IF path[at[p]] = "absent" THEN Goto(p, "open") /\ UNCHANGED at
     ELSE Advance(p)
  /\ UNCHANGED <<usable, path, tmp, held, spoiled>>

(* Does another process have the sample's temporary file in hand?          *)
Contested(p) ==
  \E q \in Processes \ {p} : at[q] = at[p] /\ pc[q] \in {"write", "rename"}

(* Mutant: the sample is written under its own name.                       *)
OpenInPlace(p) ==
  /\ pc[p] = "open" /\ Goto(p, "write")
  /\ path' = [path EXCEPT ![at[p]] = "partial"]
  /\ held' = [held EXCEPT ![p] = "path"]
  /\ spoiled' = (spoiled \/ Contested(p))
  /\ UNCHANGED <<usable, tmp, at>>

(* std::ofstream file(tmp): the file is made, or emptied, ...              *)
OpenTmp(p) ==
  /\ pc[p] = "open" /\ Goto(p, "write")
  /\ tmp' = [tmp EXCEPT ![at[p]] = "partial"]
  /\ held' = [held EXCEPT ![p] = "tmp"]
  /\ spoiled' = (spoiled \/ Contested(p))
  /\ UNCHANGED <<usable, path, at>>

(* ... or cannot be opened, and the sample is passed over.                 *)
OpenFails(p) ==
  /\ pc[p] = "open" /\ Advance(p)
  /\ UNCHANGED <<usable, path, tmp, held, spoiled>>

(* The content goes to the file that was opened, under whatever name it    *)
(* has now, when it is closed; a write that falls short is not noticed.    *)
WriteSample(p, ok) ==
  /\ pc[p] = "write" /\ Goto(p, "rename")
  /\ tmp' = IF ok /\ held[p] = "tmp" THEN [tmp EXCEPT ![at[p]] = "whole"]
            ELSE tmp
  /\ path' = IF ok /\ held[p] = "path" THEN [path EXCEPT ![at[p]] = "whole"]
             ELSE path
  /\ held' = [held EXCEPT ![p] = "none"]
  /\ spoiled' = (spoiled \/ ~ok)
  /\ UNCHANGED <<usable, at>>

(* The temporary file of sample f leaves its name: where the processes     *)
(* that still write to it find it, and to the file it replaces.            *)
Renamed(f, name) ==
  [q \in Processes |->
     IF at[q] # f \/ held[q] = "none" THEN held[q]
     ELSE IF held[q] = "tmp" THEN name ELSE "gone"]

(* fs::rename(tmp, path).                                                  *)
RenameSample(p) ==
  /\ pc[p] = "rename" /\ Advance(p) /\ tmp[at[p]] # "absent"
  /\ path' = [path EXCEPT ![at[p]] = tmp[at[p]]]
  /\ tmp' = [tmp EXCEPT ![at[p]] = "absent"]
  /\ held' = Renamed(at[p], "path")
  /\ UNCHANGED <<usable, spoiled>>

(* It fails: another process has renamed the file, or for reasons of the   *)
(* file system's own; what is left under the name is removed.              *)
RenameFails(p) ==
  /\ pc[p] = "rename" /\ Advance(p)
  /\ tmp' = [tmp EXCEPT ![at[p]] = "absent"]
  /\ held' = [q \in Processes |-> IF at[q] = at[p] /\ held[q] = "tmp"
                                  THEN "gone" ELSE held[q]]
  /\ UNCHANGED <<usable, path, spoiled>>

EnsureReturn(p) ==
  /\ pc[p] = "done" /\ Goto(p, "idle")
  /\ UNCHANGED <<usable, path, tmp, at, held, spoiled>>

(* A process is killed; what it has written stays.                         *)
Killed(p) ==
  /\ Goto(p, "idle") /\ held' = [held EXCEPT ![p] = "none"]
  /\ UNCHANGED <<usable, path, tmp, at, spoiled>>

FileStep(p) ==
  \/ LookForSample(p) \/ OpenTmp(p) \/ OpenFails(p)
  \/ \E ok \in BOOLEAN : WriteSample(p, ok)
  \/ RenameSample(p) \/ RenameFails(p)
-----------------------------------------------------------------------------
(* No process ever finds a sample file that is not whole, whatever is      *)
(* killed in the middle of writing it, unless two processes had the same   *)
(* temporary file open or a write fell short.                              *)
FilesWhole == spoiled \/ \A f \in File : path[f] # "partial"
=============================================================================
