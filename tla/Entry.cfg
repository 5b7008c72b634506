\* Entry calls against each other and against the factories' methods.
SPECIFICATION Spec
CONSTANTS
  t1 = t1  t2 = t2  t3 = t3
  Threads <- MCThreads
  InOrder = TRUE
  MaxEntryCalls = 5
SYMMETRY Symmetry
INVARIANTS OverlapReported CountIsBalance CountReportsRight
