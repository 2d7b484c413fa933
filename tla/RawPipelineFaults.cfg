\* Everything that may fail; a neutral is reported sooner or later.
SPECIFICATION FairSpecNeutral
CONSTANTS
  KSlots = 5
  KTemporalPast = 2
  KInFlight = 3
  QueueCap = 2
  EncSlots = 1
  DrainPatience = 1
  Modes = {"temporal", "nlm"}
  Faults = {"submit", "fence", "input", "small", "slow"}
  MaxFrames = 4
  MaxClips = 2
\* once the last clip is over every thread has ended
CHECK_DEADLOCK FALSE
INVARIANTS SlotAvailable FormatOnceFirst
PROPERTIES ImplementsClipPipeline 
