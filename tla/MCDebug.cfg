SPECIFICATION Spec
CONSTANTS
  Topics = {"impact", "state"}
  MaxClients = 1
  Period = 10
  JitterTolerance = 1
  Capacity = 1
  MinDetect = 3
  FrameGaps = {10}
  MaxFrames = 3
  MaxCycles = 2
INVARIANTS
  OwedIsTaped
  SelectionOfSameTrack
CHECK_DEADLOCK FALSE
