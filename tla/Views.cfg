\* A view's ticks and the user's hand against blocks, automation and log lines.
SPECIFICATION Spec
CONSTANTS
  tempo = tempo
  flags = flags
  playing = playing
  slider = slider
  nothing = nothing
  Words <- MCWords
  Transports <- MCTransports
  NoTransport = nothing
  MaxBlocks = 1
  InOrder = TRUE
  LogCapacity = 1
  EarlyCapacity = 1
  Sliders <- MCSliders
  NoSlider = nothing
  Values <- MCValues
  MaxVersion = 2
INVARIANTS TransportUntorn GesturesOrderly SliderInHand
PROPERTY FeedsSettle
CHECK_DEADLOCK FALSE
