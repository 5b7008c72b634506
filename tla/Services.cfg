\* The preset provider, the early log and the thread checks of a process.
SPECIFICATION Spec
CONSTANTS
  LogCapacity = 3
  EarlyCapacity = 2
  Processes = {"host", "other"}
  Me = "host"
  Samples = 1
  Threads = {"main", "audio", "third"}
  MaxDepth = 2
  MaxMisuses = 3
  MaxKills = 1
INVARIANTS SeverityHonest MisuseNoticed EarlyLinesReachLog FilesWhole
CHECK_DEADLOCK FALSE
