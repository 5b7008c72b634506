\* Reports, notes, readers and one clear() of two threads.
SPECIFICATION Spec
CONSTANTS
  main = main
  audio = audio
  Threads <- MCThreads
  NCodes = 2
  FullReports = 1
  RepeatEvery = 3
  MaxCalls = 4
  MaxClears = 1
  MaxReads = 2
SYMMETRY MCSymmetry
INVARIANTS TotalsAgree ThrottleExact IndicesStayValid
CHECK_DEADLOCK FALSE
