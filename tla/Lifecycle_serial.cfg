\* A host that makes no lifecycle call over a running block; the flavor's view.
SPECIFICATION Spec
CONSTANTS
  stereo = stereo
  multiOut = multiOut
  none = none
  Layouts <- MCLayouts
  DefaultLayout = stereo
  NoLayout = none
  Frames <- MCFrames
  Times <- MCTimes
  CallbacksInInit = 1
  Overlap = FALSE
  MaxOffences = 2
PROPERTY FlavorSpec
