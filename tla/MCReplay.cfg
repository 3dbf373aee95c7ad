SPECIFICATION Spec
CONSTANTS
  SyncsNeeded = 3
  FramesPerRead = 1
  FireOutput = TRUE
  MaxSession = 2
  MaxQueued = 2
INVARIANTS
  NoReplay
CHECK_DEADLOCK FALSE
