\* The system stops when everything is tapped and the threads have ended.
SPECIFICATION FairSpec
CONSTANTS
  MaxConn = 2
  MaxTaps = 2
  MaxBroadcasts = 1
  Size = 2
INVARIANTS
  WholeFrames
  CutOnlyByRestart
  OnePictureForAScan
  ForeignEnvNeedsFrame
PROPERTIES
  LossIsNoticed
  PictureComes
CHECK_DEADLOCK FALSE
