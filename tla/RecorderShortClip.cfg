\* RAW_PQ: a clip that is stopped before its first packet.
SPECIFICATION Spec
CONSTANTS
  VideoModes = {"RAW_PQ"}
  Faults = {}
  MaxTime = 4
  MaxClips = 1
\* once the last clip is over, or the recorder is gone, nothing is left to do
CHECK_DEADLOCK FALSE
INVARIANTS CapturedAudioKept
