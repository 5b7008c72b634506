\* A host without discipline: any call at any time, also over a running block.
SPECIFICATION Spec
CONSTANTS
  stereo = stereo
  multiOut = multiOut
  none = none
  Layouts <- MCLayouts
  DefaultLayout = stereo
  NoLayout = none
  Frames <- MCFrames
  Times <- MCTimes
  CallbacksInInit = 1
  Overlap = TRUE
  MaxOffences = 2
INVARIANTS MonitorTracksHost SnapshotCurrent ExactDetection
