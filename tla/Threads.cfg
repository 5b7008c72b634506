\* Any call at any time on four threads.
SPECIFICATION Spec
CONSTANTS
  audio1 = audio1
  audio2 = audio2
  audio3 = audio3
  Threads <- MCThreads
INVARIANTS BlockExclusive NoFalseReport FlagsSettle
