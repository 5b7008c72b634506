----------------------------- MODULE FlavorTables ---------------------------
(***************************************************************************)
(* What the flavors declare (under plugins): for each, its parameters as   *)
(* paramsInfo() describes them, what its handlers do with them (events,    *)
(* the items of the state stream in their order), and the port layouts it  *)
(* offers.  The handlers themselves are those of FlavorStreams, which are  *)
(* parameterised by these tables.  Ranges, names and the conversions       *)
(* between values and text are left out.                                   *)
(***************************************************************************)
EXTENDS Naturals, Sequences, SequencesExt

(* The flags of the parameters.  Most flavors: all are automatable, none   *)
(* is read-only (a meter, which process() writes), none modulatable.       *)
Declares(ids) ==
  [automatable |-> ids, meters |-> {}, modulatable |-> {}, perVoice |-> {}]

(* The state stream: the magic number, the parameters in it, and whether   *)
(* each value is preceded by its id; and the parameters whose change while *)
(* active needs a restart.                                                 *)
Stores(ids) ==
  [magic |-> "CVPS", saved |-> ids, tagged |-> FALSE, restarting |-> {}]

(* The port layouts a host may choose from, and the first one's number of  *)
(* channels or of output ports.                                            *)
Offers(layouts, first) == [layouts |-> layouts, layout |-> first]
FixedPorts == Offers({}, 0)

Flavor(name, declared, stream, ports) ==
  [name |-> name,
   automatable |-> declared.automatable, meters |-> declared.meters,
   modulatable |-> declared.modulatable, perVoice |-> declared.perVoice,
   magic |-> stream.magic, saved |-> stream.saved, tagged |-> stream.tagged,
   restarting |-> stream.restarting,
   layouts |-> ports.layouts, layout |-> ports.layout]

Params(f) == ToSet(f.saved) \cup f.meters
-----------------------------------------------------------------------------
\* Gain, latency (not automatable: it needs a restart) and tail

EffectParams == Declares({"gain", "tail"})
EffectStream ==
  [Stores(<<"gain", "latency", "tail">>) EXCEPT
     !.tagged = TRUE, !.restarting = {"latency"}]
Effect == Flavor("effect", EffectParams, EffectStream, FixedPorts)

\* One parameter of each sort; drive, curve and secret are not automatable

ZooParams ==
  [Declares({"gain", "bypass", "rotation", "dcOffset"}) EXCEPT
     !.meters = {"peak"}, !.modulatable = {"gain"}]
ZooStream ==
  [Stores(<<"gain", "drive", "bypass", "rotation", "dcOffset", "curve",
            "secret">>) EXCEPT !.magic = "CVPP", !.tagged = TRUE]
ParamsZoo == Flavor("params_zoo", ZooParams, ZooStream, FixedPorts)

GuiParams == Declares({"gain", "mode", "mute"})
GuiStream == [Stores(<<"gain", "mode", "mute">>) EXCEPT !.tagged = TRUE]
Gui == Flavor("gui", GuiParams, GuiStream, FixedPorts)

PresetParams == Declares({"gain", "color"})
PresetStream == Stores(<<"gain", "color">>)
Preset == Flavor("preset", PresetParams, PresetStream, FixedPorts)

SidechainParams == Declares({"volume", "amount"})
SidechainStream == Stores(<<"volume", "amount">>)
SidechainSynth ==
  Flavor("sidechain_synth", SidechainParams, SidechainStream, FixedPorts)

\* The volume may be modulated for a single note

SynthParams ==
  [Declares({"volume"}) EXCEPT
     !.modulatable = {"volume"}, !.perVoice = {"volume"}]
SynthStream == Stores(<<"volume">>)
Synth == Flavor("synth", SynthParams, SynthStream, FixedPorts)

NoteFxParams == Declares({"transpose"})
NoteFxStream == Stores(<<"transpose">>)
NoteFx == Flavor("notefx", NoteFxParams, NoteFxStream, FixedPorts)

ZeroParams == Declares({"dummy"})
ZeroStream == Stores(<<"dummy">>)
AudioPortsZero == Flavor("audioports_zero", ZeroParams, ZeroStream, FixedPorts)

SlowParams == Declares({"slowness"})
SlowStream == Stores(<<"slowness">>)
Slow == Flavor("slow", SlowParams, SlowStream, FixedPorts)
-----------------------------------------------------------------------------
\* Surround: quad, 5.1 (the first) or 7.1 on its one port

SurroundParams == Declares({"gain", "solo"})
SurroundStream == Stores(<<"gain", "solo">>)
SurroundLayouts == Offers({4, 6, 8}, 6)
Surround == Flavor("surround", SurroundParams, SurroundStream, SurroundLayouts)

\* The configurations of the two others: one output port, or all of them

GenParams == Declares({"level"})
GenStream == Stores(<<"level">>)
GenConfigs == Offers({1, 5}, 1)
MultiOutGen == Flavor("multiout_gen", GenParams, GenStream, GenConfigs)

FxParams == Declares({"auxLevel"})
FxStream == Stores(<<"auxLevel">>)
FxConfigs == Offers({1, 3}, 1)
MultiOutFx == Flavor("multiout_fx", FxParams, FxStream, FxConfigs)

AllFlavors == {Effect, ParamsZoo, Gui, Preset, SidechainSynth, Synth, NoteFx,
               AudioPortsZero, Slow, Surround, MultiOutGen, MultiOutFx}
=============================================================================
