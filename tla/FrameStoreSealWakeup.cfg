\* The notify of seal() can be missed: expected to be violated.
SPECIFICATION FairSpec
CONSTANTS
  FrameBytes = 3
  CapFrames = 2
  PoolMax = 2
  Quiesced = TRUE
  MaxFrames = 1
  MaxClips = 1
\* once the last clip is over every thread has ended
CHECK_DEADLOCK FALSE
PROPERTY PopReturnsOnceSealed
