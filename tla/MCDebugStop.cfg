SPECIFICATION FairSpec
CONSTANTS
  Topics = {"impact", "state"}
  MaxClients = 0
  Period = 10
  JitterTolerance = 1
  Capacity = 1
  MinDetect = 3
  FrameGaps = {10}
  MaxFrames = 1
  MaxCycles = 1
PROPERTIES
  StopReturns
CHECK_DEADLOCK FALSE
