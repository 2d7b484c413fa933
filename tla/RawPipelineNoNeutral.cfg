\* No neutral is ever reported: expected to be violated.
SPECIFICATION FairSpec
CONSTANTS
  KSlots = 5
  KTemporalPast = 2
  KInFlight = 3
  QueueCap = 2
  EncSlots = 1
  DrainPatience = 1
  Modes = {"temporal"}
  Faults = {}
  MaxFrames = 1
  MaxClips = 1
\* once the last clip is over every thread has ended
CHECK_DEADLOCK FALSE
PROPERTY StopReturns
