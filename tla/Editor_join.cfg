\* The chunk of the code: 15 commands and the Quit of the destructor.
SPECIFICATION EditorSpec
CONSTANTS
  Sizes <- MCNoSizes
  DefaultSize = 3
  MinSize = 2
  Scales <- MCNoSizes
  Kinds <- MCMapOnly
  Chunk = 16
  MaxCommands = 15
  MaxViews = 1
  MaxOffences = 0
PROPERTY CallsReturn
CHECK_DEADLOCK FALSE
