\* Two voices; blocks of up to two frames with up to two notes each.
SPECIFICATION FairSpec
CONSTANTS
  MaxVoices = 2
  ReleaseLen = 2
  MaxKey = 1
  Offered <- MCOffered
  Transposes <- MCTransposes
  FrameCounts <- MCFrameCounts
  Times <- MCTimes
  MaxEvents = 2
  MaxNotes = 3
INVARIANTS SampleAccurate NoHangingVoice
PROPERTIES FallsAsleep NotesLive
