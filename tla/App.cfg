\* Every kind of device; one pause and resume, one camera taken away.
SPECIFICATION Spec
CONSTANTS
  Kinds = {"raw", "three", "two"}
  MaxOpens = 2
  MaxSessions = 4
  MaxRevoked = 1
  Prompt = TRUE
  MaxClips = 1
  MaxToggles = 1
  MaxSurfaces = 2
\* once the results are sent the program may rest
CHECK_DEADLOCK FALSE
INVARIANTS   PreviewWired
PROPERTY ResultsComplete
