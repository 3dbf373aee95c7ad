SPECIFICATION FairSpec
CONSTANTS
  HeartbeatTimeout = 1
  MaxFrames = 3
  MaxClockSteps = 1
INVARIANTS
  FramesAreWhole
PROPERTIES
  TakesTheNewest
  DeadSimulatorIsNoticed
CHECK_DEADLOCK FALSE
