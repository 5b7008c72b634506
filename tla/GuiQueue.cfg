\* GUI edits against blocks, flushes, host automation and reactivation.
SPECIFICATION Spec
CONSTANTS
  Values <- MCValues
  NoValue = none
  none = none
  InitialValue = 0
  MaxEdits = 5
  MaxWrites = 1
  MaxCycles = 1
INVARIANTS InOrder HostAgrees GesturesBalanced
PROPERTY EditsReachHost
CHECK_DEADLOCK FALSE
