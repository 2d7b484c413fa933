\* Liveness too, with the camera callback ended before the store is sealed.
SPECIFICATION FairSpec
CONSTANTS
  FrameBytes = 3
  CapFrames = 2
  PoolMax = 2
  Quiesced = TRUE
  MaxFrames = 5
  MaxClips = 3
\* once the last clip is over every thread has ended
CHECK_DEADLOCK FALSE
INVARIANTS TypeOK FifoExact BytesWithinCap  
PROPERTIES  AcceptedIsTaken SealEndsBusyPipe
