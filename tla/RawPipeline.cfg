\* Temporal or plain mode; submissions and input buffers may fail.
SPECIFICATION Spec
CONSTANTS
  KSlots = 5
  KTemporalPast = 2
  KInFlight = 3
  QueueCap = 2
  EncSlots = 1
  DrainPatience = 1
  Modes = {"temporal", "raw"}
  Faults = {"submit", "input"}
  MaxFrames = 6
  MaxClips = 2
\* once the last clip is over every thread has ended
CHECK_DEADLOCK FALSE
INVARIANTS TypeOK SlotNotReadByGpu  OwnPicture
  
