--------------------------- MODULE MCFlavorStreams --------------------------
(***************************************************************************)
(* Every flavor, two values, two saves or loads and two events in them.    *)
(***************************************************************************)
EXTENDS FlavorStreams

Request(port, type, channels, map) ==
  [port |-> port, type |-> type, channels |-> channels, map |-> map]

MCRequests ==
  {Request(0, "any", 4, "none"), Request(0, "surround", 8, "ours"),
   Request(0, "surround", 6, "none"), Request(0, "surround", 8, "other"),
   Request(1, "any", 4, "none"), Request(0, "stereo", 2, "none")}

MCQuiet == {"drive", "bypass", "rotation", "dcOffset", "curve", "mode"}
=============================================================================
