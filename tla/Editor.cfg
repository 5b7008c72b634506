\* Any gui call at any time; the reads of the pipe come in chunks of two.
SPECIFICATION EditorSpec
CONSTANTS
  Sizes <- MCSizes
  DefaultSize = 3
  MinSize = 2
  Scales <- MCScales
  Kinds <- MCKinds
  Chunk = 2
  MaxCommands = 2
  MaxViews = 2
  MaxOffences = 1
INVARIANTS GuiJudgedRightly ViewOutlivesThread CommandsInOrder SizeAgrees
PROPERTIES ReturnsUnlessStalled ResizesLand
CHECK_DEADLOCK FALSE
