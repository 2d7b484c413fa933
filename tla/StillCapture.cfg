\* Shots and results may get lost, the user presses anything at any time.
SPECIFICATION StillsSpec
CONSTANTS
  BracketCount = 2
  UserCycles = TRUE
  MaxLost = 1
  MaxBursts = 2
  MaxSeconds = 2
  MaxStream = 1
  MaxShots = 3
  MaxStops = 1
\* once every burst is taken nothing is left to do
CHECK_DEADLOCK FALSE
INVARIANTS TypeOK ReaderNeverExhausted StreamHasAllSlots CalmBurstKept 
