---------------------------- MODULE HostServices ----------------------------
(***************************************************************************)
(* What the suite offers a host's process around an instance: the preset   *)
(* provider (plugins/preset/preset_discovery.cpp), the misuse lines of     *)
(* entry.cpp and the provider in the early log (wrapper/earlylog.cpp), the *)
(* log an instance copies them into (wrapper/logbuffer.cpp), and the       *)
(* thread checks on the instance's functions (wrapper/threadcheck.cpp and  *)
(* the trampolines under wrapper/ext).  The host may call anything at any  *)
(* time, an instance before its init() and the provider from within its    *)
(* own declarations; it and another process that scans for presets may be  *)
(* killed at any step.                                                     *)
(***************************************************************************)
EXTENDS Integers, LogRings, PresetFiles

CONSTANTS
  Me,            \* the process the host runs in
  Threads,       \* its threads; "main" and "audio" are the host's own
  MaxDepth,      \* bound: provider.init() calls within one another
  MaxMisuses,    \* bound: calls that are reported
  MaxKills       \* bound: processes killed

ASSUME ServicesAssumption ==
  /\ Me \in Processes /\ {"main", "audio"} \subseteq Threads
  /\ MaxDepth \in Nat /\ MaxMisuses \in Nat /\ MaxKills \in Nat

VARIABLES
  entered,       \* gInitCount
  early,         \* the ring of earlylog.cpp
  made,          \* is there a provider?
  initialized, inDeclare,
  frames,        \* the stages of the init() calls that run, outermost first
  hasCheck,      \* does the host have clap.thread-check?
  instance,      \* "none", "created" or "ready"
  initThread,    \* ThreadChecker::_mainThread
  active,
  log, counts,   \* the instance's log and its counters of T01..T04
  written,       \* ledger: every line given to the early log
  heard,         \* ledger: how many of them when init() was called
  ahead,         \* ledger: how many lines the instance had logged by then
  due,           \* ledger: the calls that broke T01..T04 and could be known
  nested,        \* ledger: init() was called from within its own callbacks
  unnoticed,     \* ledger: a misuse of the provider went without a line
  misuses, kills

providerVars == <<made, initialized, inDeclare, frames, nested, unnoticed>>
earlyVars == <<early, written>>
instanceVars ==
  <<instance, initThread, active, log, counts, heard, ahead, due>>
hostVars == <<entered, hasCheck, misuses, kills>>
vars == <<hostVars, earlyVars, providerVars, instanceVars, fileVars>>

ThreadCode == {"T01", "T02", "T03", "T04"}
Zero == [c \in ThreadCode |-> 0]

Init ==
  /\ FilesInit
  /\ entered = 0 /\ early = <<>> /\ written = <<>>
  /\ made = FALSE /\ initialized = FALSE /\ inDeclare = FALSE /\ frames = <<>>
  /\ nested = FALSE /\ unnoticed = FALSE
  /\ hasCheck \in BOOLEAN /\ instance = "none" /\ initThread = "main"
  /\ active = FALSE /\ log = EmptyLog /\ counts = Zero
  /\ heard = 0 /\ ahead = 0 /\ due = Zero
  /\ misuses = 0 /\ kills = 0

(* A call that is reported, within the bound; any other is free.            *)
Counted(reported) ==
  IF reported THEN misuses < MaxMisuses /\ misuses' = misuses + 1
  ELSE UNCHANGED misuses

(* A line: its severity, its code, and whether what it says is true.       *)
Line(severity, code, true) ==
  [severity |-> severity, code |-> code, true |-> true]
Host(code, true) == Line("HOST_MISBEHAVING", code, true)
-----------------------------------------------------------------------------
(* The early log: entry.cpp and the provider report to it.                 *)

ReportEarly(condition, code, true) ==
  /\ Counted(condition)
  /\ IF condition
     THEN /\ early' = EarlyAppended(early, Host(code, true))
          /\ written' = Append(written, Host(code, true))
     ELSE UNCHANGED earlyVars

EntryInit ==
  /\ entered < 2 /\ entered' = entered + 1
  /\ ReportEarly(entered > 0, "E02", entered > 0)
  /\ UNCHANGED <<hasCheck, kills, providerVars, instanceVars, fileVars>>

EntryDeinit ==
  /\ entered' = IF entered = 0 THEN 0 ELSE entered - 1
  /\ ReportEarly(entered = 0, "E03", entered = 0)
  /\ UNCHANGED <<hasCheck, kills, providerVars, instanceVars, fileVars>>

(* Bound: the host has a provider or an instance, not both at once, and an *)
(* instance where there are no sample files and nobody scans.  The two     *)
(* share the early log and nothing else.                                   *)
Scanning == made \/ usable \/ \E p \in Processes : pc[p] # "idle"

(* create_plugin(), with entry.init() before it or not.                    *)
CreatePlugin ==
  /\ instance = "none" /\ ~Scanning /\ instance' = "created"
  /\ ReportEarly(entered = 0, "E01", entered = 0)
  /\ active' = FALSE /\ log' = EmptyLog /\ counts' = Zero /\ due' = Zero
  /\ heard' = 0 /\ ahead' = 0 /\ initThread' = "main"
  /\ UNCHANGED <<entered, hasCheck, kills, providerVars, fileVars>>
-----------------------------------------------------------------------------
(* The preset provider, on the host's main thread.                         *)

Innermost == frames[Len(frames)]
InCallback == frames # <<>> /\ Innermost \in {"filetype", "file", "plugin"}
MayCall == made /\ (frames = <<>> \/ InCallback)

(* The provider was misused, and said so or not.                           *)
Judged(misused, reported) ==
  /\ ReportEarly(reported, "PD01", misused)
  /\ unnoticed' = (unnoticed \/ (misused /\ ~reported))

ProviderCreate ==
  /\ ~made /\ instance = "none" /\ made' = TRUE
  /\ initialized' = FALSE /\ inDeclare' = FALSE
  /\ nested' = FALSE /\ unnoticed' = FALSE
  /\ UNCHANGED <<frames, hostVars, earlyVars, instanceVars, fileVars>>

ProviderDestroy ==
  /\ made /\ frames = <<>> /\ made' = FALSE
  /\ initialized' = FALSE /\ inDeclare' = FALSE
  /\ nested' = FALSE /\ unnoticed' = FALSE
  /\ UNCHANGED <<frames, hostVars, earlyVars, instanceVars, fileVars>>

(* init() again, after it has accepted.                                    *)
ProviderInitAgain ==
  /\ MayCall /\ initialized
  /\ Judged(TRUE, TRUE)
  /\ nested' = (nested \/ InCallback)
  /\ UNCHANGED <<made, initialized, inDeclare, frames, entered, hasCheck,
                 kills, instanceVars, fileVars>>

(* init() begins with the sample files; without a directory it goes on to  *)
(* declare the file type at once.                                          *)
ProviderInit ==
  /\ MayCall /\ ~initialized /\ Len(frames) < MaxDepth
  /\ nested' = (nested \/ InCallback)
  /\ IF usable
     THEN /\ EnsureBegin(Me) /\ frames' = Append(frames, "samples")
          /\ UNCHANGED inDeclare
     ELSE /\ frames' = Append(frames, "filetype") /\ inDeclare' = TRUE
          /\ UNCHANGED fileVars
  /\ UNCHANGED <<made, initialized, unnoticed, hostVars, earlyVars,
                 instanceVars>>

Staged(stage) == frames' = [frames EXCEPT ![Len(frames)] = stage]
Returned == frames' = SubSeq(frames, 1, Len(frames) - 1)

SamplesEnsured ==
  /\ frames # <<>> /\ Innermost = "samples"
  /\ EnsureReturn(Me)
  /\ Staged("filetype") /\ inDeclare' = TRUE
  /\ UNCHANGED <<made, initialized, nested, unnoticed, hostVars, earlyVars,
                 instanceVars>>

(* Mutant: the provider counts as initialised once a type is declared.     *)
DeclareReturnsEarly(accepted) ==
  /\ InCallback
  /\ \/ /\ Innermost = "filetype" /\ ~accepted
        /\ Returned /\ inDeclare' = FALSE /\ UNCHANGED initialized
     \/ /\ Innermost = "filetype" /\ accepted
        /\ Staged(IF usable THEN "file" ELSE "plugin")
        /\ inDeclare' = FALSE /\ initialized' = TRUE
     \/ /\ Innermost = "file"
        /\ Staged("plugin") /\ inDeclare' = FALSE /\ UNCHANGED initialized
     \/ /\ Innermost = "plugin"
        /\ Returned /\ inDeclare' = FALSE /\ initialized' = accepted
  /\ UNCHANGED <<made, nested, unnoticed, hostVars, earlyVars, instanceVars,
                 fileVars>>

(* The indexer answers a declaration: a refused file type ends init(), a   *)
(* refused file location does not matter, the last answer is init()'s own. *)
(* The file location is declared when its directory is there.              *)
DeclareReturns(accepted) ==
  /\ InCallback
  /\ \/ /\ Innermost = "filetype" /\ ~accepted
        /\ Returned /\ inDeclare' = FALSE /\ UNCHANGED initialized
     \/ /\ Innermost = "filetype" /\ accepted
        /\ Staged(IF usable THEN "file" ELSE "plugin")
        /\ inDeclare' = TRUE /\ UNCHANGED initialized
     \/ /\ Innermost = "file"
        /\ Staged("plugin") /\ inDeclare' = TRUE /\ UNCHANGED initialized
     \/ /\ Innermost = "plugin"
        /\ Returned /\ inDeclare' = FALSE /\ initialized' = accepted
  /\ UNCHANGED <<made, nested, unnoticed, hostVars, earlyVars, instanceVars,
                 fileVars>>

(* The host's own view: was the last init() that returned a success, and   *)
(* is none under way?                                                      *)
ProviderReady == initialized /\ frames = <<>>

(* get_metadata(): what it tells the receiver changes nothing here.        *)
ProviderGetMetadata ==
  /\ MayCall
  /\ Judged(~ProviderReady, ~initialized \/ inDeclare)
  /\ UNCHANGED <<made, initialized, inDeclare, frames, nested, entered,
                 hasCheck, kills, instanceVars, fileVars>>

ProviderGetExtension ==
  /\ MayCall
  /\ Judged(~ProviderReady, ~initialized)
  /\ UNCHANGED <<made, initialized, inDeclare, frames, nested, entered,
                 hasCheck, kills, instanceVars, fileVars>>
-----------------------------------------------------------------------------
(* The instance and its thread checks.  The code sees a thread through the *)
(* host's own check or, for the main thread, by comparing it with init()'s.*)
(* Before init() the checker has neither the host's check nor the log; the *)
(* contract monitor has the log from the constructor.                      *)
Informed == instance = "ready"
Asks == hasCheck /\ Informed

OffMain(t) == t # "main"
OffAudio(t) == t # "audio"

(* ThreadChecker::report: the severity, and whether the finding counts.    *)
Finding(code, authoritative, true) ==
  IF authoritative THEN Host(code, true) ELSE Line("WARNING", code, true)

(* Mutant: a thread that is not init()'s is a violation for any host.      *)
MainVerdictSure(t) ==
  IF Informed /\ (IF hasCheck THEN OffMain(t) ELSE t # initThread)
  THEN <<Finding("T01", TRUE, OffMain(t))>> ELSE <<>>

(* assertMainThread: the line it logs, if any.                             *)
MainVerdict(t) ==
  IF Informed /\ (IF hasCheck THEN OffMain(t) ELSE t # initThread)
  THEN <<Finding("T01", hasCheck, OffMain(t))>> ELSE <<>>

(* assertAudioThread: nothing without the host's check.                    *)
AudioVerdict(t) ==
  IF Asks /\ OffAudio(t)
  THEN <<Finding("T02", TRUE, OffAudio(t))>> ELSE <<>>

ConfirmedNotMain(t) == Asks /\ OffMain(t)
ConfirmedNotAudio(t) == Asks /\ OffAudio(t)

Counting(lines, code) ==
  Cardinality({i \in DOMAIN lines : /\ lines[i].code = code
                                    /\ lines[i].severity = "HOST_MISBEHAVING"})

(* Log the lines and count the violations among them; the ledger counts    *)
(* what the calls were guilty of and a host with the check could tell.     *)
Logs(lines, guilty) ==
  /\ Counted(lines # <<>>)
  /\ log' = FoldLeft(Appended, log, lines)
  /\ counts' = [c \in ThreadCode |-> counts[c] + Counting(lines, c)]
  /\ due' = [c \in ThreadCode |->
               due[c] + IF Asks /\ c \in guilty THEN 1 ELSE 0]
  /\ UNCHANGED <<entered, hasCheck, kills, initThread, heard, ahead,
                 earlyVars, providerVars, fileVars>>

Guilty(code, condition) == IF condition THEN {code} ELSE {}

(* init(): the thread is looked at before the checker knows host or        *)
(* thread, so that nothing can be counted; then the early log is copied,   *)
(* behind what the monitor has logged already.  A second call is L02 and   *)
(* changes nothing else.                                                   *)
SInit(t) ==
  /\ instance = "created" /\ instance' = "ready"
  /\ initThread' = t
  /\ log' = Appended(CopiedInto(early, log), Line("INFO", "init", TRUE))
  /\ heard' = Len(written) /\ ahead' = log.version
  /\ UNCHANGED <<active, counts, due, hostVars, earlyVars, providerVars,
                 fileVars>>

SInitAgain(t) ==
  /\ instance = "ready"
  /\ Logs(MainVerdict(t) \o <<Host("L02", TRUE)>>, Guilty("T01", OffMain(t)))
  /\ UNCHANGED <<instance, active>>

SDestroy ==
  /\ instance # "none" /\ instance' = "none"
  /\ active' = FALSE /\ log' = EmptyLog /\ counts' = Zero /\ due' = Zero
  /\ heard' = 0 /\ ahead' = 0 /\ initThread' = "main"
  /\ UNCHANGED <<hostVars, earlyVars, providerVars, fileVars>>

(* get_extension(), for any thread: the one function that init() must      *)
(* precede by a code of its own.                                           *)
GetExtension ==
  /\ instance # "none"
  /\ Logs(IF Informed THEN <<>> ELSE <<Host("L01", ~Informed)>>, {})
  /\ UNCHANGED <<instance, active>>

(* A legal activate() or deactivate() (PluginLifecycle has the others).    *)
SetActive(t) ==
  /\ instance # "none" /\ active' = ~active
  /\ Logs(MainVerdict(t), Guilty("T01", OffMain(t)))
  /\ UNCHANGED instance

(* A function for the main thread, and the lines it has of its own.        *)
OnMainThread(t, lines) ==
  /\ instance # "none"
  /\ Logs(MainVerdict(t) \o lines, Guilty("T01", OffMain(t)))
  /\ UNCHANGED <<instance, active>>

(* Most functions of the extensions judge nothing but the thread.          *)
MainThreadCall(t) == OnMainThread(t, <<>>)

(* render.set(), of a mode that exists or not.                             *)
RenderSet(t, known) ==
  OnMainThread(t, IF known THEN <<>> ELSE <<Host("R01", ~known)>>)

(* surround.get_channel_map(), with room for the port's channels or not.   *)
GetChannelMap(t, fits) ==
  OnMainThread(t, IF fits THEN <<>> ELSE <<Host("SR01", ~fits)>>)

(* process(), or another of the audio thread's functions: each has a line  *)
(* of its own while inactive, for which process()'s stands.                *)
AudioThreadCall(t) ==
  /\ instance # "none"
  /\ Logs(AudioVerdict(t) \o IF active THEN <<>> ELSE <<Host("L09", ~active)>>,
          Guilty("T02", OffAudio(t)))
  /\ UNCHANGED <<instance, active>>

(* params.flush(): for the audio thread while active, else for the main.   *)
FlushVerdict(t) ==
  IF IF active THEN ConfirmedNotAudio(t) ELSE ConfirmedNotMain(t)
  THEN <<Host("T03", IF active THEN OffAudio(t) ELSE OffMain(t))>> ELSE <<>>

ParamsFlush(t) ==
  /\ instance # "none"
  /\ Logs(FlushVerdict(t),
          Guilty("T03", IF active THEN OffAudio(t) ELSE OffMain(t)))
  /\ UNCHANGED <<instance, active>>

TailGet(t) ==
  /\ instance # "none"
  /\ Logs(IF ConfirmedNotMain(t) /\ ConfirmedNotAudio(t)
          THEN <<Host("T04", OffMain(t) /\ OffAudio(t))>> ELSE <<>>,
          Guilty("T04", OffMain(t) /\ OffAudio(t)))
  /\ UNCHANGED <<instance, active>>
-----------------------------------------------------------------------------
(* The host's process is killed with all it holds and starts afresh.       *)
KillMe ==
  /\ kills < MaxKills /\ kills' = kills + 1
  /\ Killed(Me)
  /\ entered' = 0 /\ early' = <<>> /\ written' = <<>>
  /\ made' = FALSE /\ initialized' = FALSE /\ inDeclare' = FALSE
  /\ frames' = <<>> /\ nested' = FALSE /\ unnoticed' = FALSE
  /\ instance' = "none" /\ active' = FALSE /\ log' = EmptyLog
  /\ counts' = Zero /\ due' = Zero /\ heard' = 0 /\ ahead' = 0
  /\ initThread' = "main"
  /\ UNCHANGED <<hasCheck, misuses>>

KillOther(p) ==
  /\ p # Me /\ pc[p] # "idle"
  /\ kills < MaxKills /\ kills' = kills + 1
  /\ Killed(p)
  /\ UNCHANGED <<entered, hasCheck, misuses, earlyVars, providerVars,
                 instanceVars>>

(* A step of a process in ensureSamplePresetFiles(); the provider of the   *)
(* other process is only that.                                             *)
Scan(p) ==
  /\ \/ FileStep(p)
     \/ p # Me /\ instance = "none" /\ EnsureBegin(p)
     \/ p # Me /\ EnsureReturn(p)
  /\ UNCHANGED <<hostVars, earlyVars, providerVars, instanceVars>>

Next ==
  \/ EntryInit \/ EntryDeinit \/ CreatePlugin \/ SDestroy \/ GetExtension
  \/ ProviderCreate \/ ProviderDestroy \/ ProviderInit \/ ProviderInitAgain
  \/ SamplesEnsured \/ (\E accepted \in BOOLEAN : DeclareReturns(accepted))
  \/ ProviderGetMetadata \/ ProviderGetExtension
  \/ \E t \in Threads : \/ SInit(t) \/ SInitAgain(t) \/ SetActive(t)
                        \/ AudioThreadCall(t)
                        \/ ParamsFlush(t) \/ TailGet(t)
                        \/ MainThreadCall(t)
                        \/ \E ok \in BOOLEAN : \/ RenderSet(t, ok)
                                             \/ GetChannelMap(t, ok)
  \/ KillMe
  \/ \E p \in Processes : Scan(p) \/ KillOther(p)

Spec == Init /\ [][Next]_vars
-----------------------------------------------------------------------------
(* A line of the highest severity is a definite finding: the host, the     *)
(* provider's user or the entry's caller did what the line says, in the    *)
(* early log, and in an instance's.                                        *)
SeverityHonest ==
  /\ \A i \in DOMAIN early : early[i].true
  /\ \A i \in DOMAIN log.lines :
       log.lines[i].severity = "HOST_MISBEHAVING" => log.lines[i].true

(* Every call after init() that a host with clap.thread-check makes on a   *)
(* wrong thread is counted, and no other call; and no misuse of the        *)
(* provider goes without a line, unless init() was called from within its  *)
(* own callbacks.                                                          *)
MisuseNoticed == counts = due /\ (unnoticed => nested)

(* An instance hands on the first lines of the early log, up to its        *)
(* capacity, as they were given and in one piece: they come right behind   *)
(* what the host's calls before init() made it log, and each of them is    *)
(* there until the log has dropped the lines up to it.                     *)
EarlyLinesReachLog ==
  LET kept == IF heard < EarlyCapacity THEN heard ELSE EarlyCapacity
      dropped == log.version - Len(log.lines)
  IN instance = "ready" =>
       \A k \in 1 .. kept : ahead + k > dropped =>
         log.lines[(ahead + k) - dropped] = written[k]
=============================================================================
