\* libFLAC looks one sample past a block; blocks of three samples.
SPECIFICATION Spec
CONSTANTS
  FrameSamples = 3
  Latency = 1
  Lookahead = 1
  MaxClips = 2
  MaxBlocks = 4
\* once the last clip is over nothing is left to do
CHECK_DEADLOCK FALSE
INVARIANTS  SideCarWhole
