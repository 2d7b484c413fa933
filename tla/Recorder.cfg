\* Both video modes; everything may fail, audio and video meet in any order.
SPECIFICATION FairSpec
CONSTANTS
  VideoModes = {"RAW_PQ", "LEGACY_HLG"}
  Faults = {"pipeline", "noaudio", "camera", "open"}
  MaxTime = 5
  MaxClips = 2
\* once the last clip is over, or the recorder is gone, nothing is left to do
CHECK_DEADLOCK FALSE
INVARIANTS TypeOK WriterHasMuxer TimestampOrdered FileComplete NothingLeft
PROPERTIES FinalizingUntilClosed 
