--------------------------- MODULE FlavorProtocol ---------------------------
(***************************************************************************)
(* What the CLAP wrapper promises the flavor behind it: the order in which *)
(* the virtuals of cvp::Plugin (wrapper/plugin.h) may be entered, whatever *)
(* the host does.  A flavor that overrides activate(), process(), ... may  *)
(* rely on this protocol and on nothing else.                              *)
(*                                                                         *)
(* The state is the phase the flavor is in, whether its process() is       *)
(* running, the port layout it declares and the layout the wrapper froze   *)
(* for the current activation.                                             *)
(***************************************************************************)
CONSTANTS Layouts,       \* the port layouts a flavor can declare
          NoLayout       \* nothing frozen yet

VARIABLES phase, inBlock, ports, frozen

protocolVars == <<phase, inBlock, ports, frozen>>

Phase == {"gone", "idle", "active", "processing"}

ProtocolInit ==
  /\ phase = "idle"
  /\ inBlock = FALSE
  /\ ports \in Layouts
  /\ frozen = NoLayout

(* plugin.h:61, activate() is entered once per activation; the layout the  *)
(* flavor declares at that moment is the one process() will be held to.    *)
Activate ==
  /\ phase = "idle"
  /\ phase' = "active"
  /\ frozen' = ports
  /\ UNCHANGED <<inBlock, ports>>

(* deactivate() never sees a running engine: when the host forgot          *)
(* stop_processing() the wrapper calls stopProcessing() first.             *)
Deactivate ==
  /\ phase \in {"active", "processing"}
  /\ ~inBlock
  /\ phase' = "idle"
  /\ UNCHANGED <<inBlock, ports, frozen>>

StartProcessing ==
  /\ phase = "active"
  /\ phase' = "processing"
  /\ UNCHANGED <<inBlock, ports, frozen>>

StopProcessing ==
  /\ phase = "processing"
  /\ ~inBlock
  /\ phase' = "active"
  /\ UNCHANGED <<inBlock, ports, frozen>>

(* process() runs only while processing, and never twice at a time.        *)
BlockBegin ==
  /\ phase = "processing"
  /\ ~inBlock
  /\ inBlock' = TRUE
  /\ UNCHANGED <<phase, ports, frozen>>

BlockEnd ==
  /\ inBlock
  /\ inBlock' = FALSE
  /\ UNCHANGED <<phase, ports, frozen>>

(* The port layout changes only while the flavor is deactivated.           *)
Reconfigure ==
  /\ phase = "idle"
  /\ ports' \in Layouts
  /\ UNCHANGED <<phase, inBlock, frozen>>

(* The destructor runs when no virtual is on the stack.                    *)
Delete ==
  /\ phase # "gone"
  /\ ~inBlock
  /\ phase' = "gone"
  /\ UNCHANGED <<inBlock, ports, frozen>>

(* The factory builds a fresh flavor.                                      *)
Construct ==
  /\ phase = "gone"
  /\ phase' = "idle"
  /\ inBlock' = FALSE
  /\ ports' \in Layouts
  /\ frozen' = NoLayout

ProtocolNext ==
  \/ Activate \/ Deactivate \/ StartProcessing \/ StopProcessing
  \/ BlockBegin \/ BlockEnd \/ Reconfigure \/ Delete \/ Construct

ProtocolSpec == ProtocolInit /\ [][ProtocolNext]_protocolVars
=============================================================================
