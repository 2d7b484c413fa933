\* A device with two streams at most: expected to be violated.
SPECIFICATION Spec
CONSTANTS
  Kinds = {"two"}
  MaxOpens = 1
  MaxSessions = 3
  MaxRevoked = 0
  Prompt = TRUE
  MaxClips = 0
  MaxToggles = 1
  MaxSurfaces = 1
\* once the results are sent the program may rest
CHECK_DEADLOCK FALSE
INVARIANT ModeFollowed
