\* The parameters, streams, presets and layouts of every flavor.
SPECIFICATION StreamsSpec
CONSTANTS
  Flavors <- AllFlavors
  Values = {"low", "high"}
  Default = "low"
  Quiet <- MCQuiet
  Requests <- MCRequests
  MaxParamEvents = 2
  MaxJobs = 2
INVARIANTS LoadRestores RefusedLoadKeeps LatencyNoticed EventsJudged LayoutHonest
CHECK_DEADLOCK FALSE
