SPECIFICATION Spec
CONSTANTS
  Labels = {"ONE", "TWO"}
  Priority <- LabelPriority
  Inputs <- TrackerInputs
  MinDetect = 3
  MaxTempLost = 2
  MaxDt = 2
  ConfirmFrames = 2
  ConfirmWindow = 3
  Hold = 3
  InitialGate = 5
  Gate = 3
  RecoveryGate = 5
  CostTrigger = 2
  MaxGeneration = 3
INVARIANTS
  ConfirmedByArmor
  CoastIsBounded
  GenerationNamesOneTrack
  LightsAloneArePaired
  LightsAreMatched
PROPERTIES
  ManeuversAreOnEvidence
CHECK_DEADLOCK FALSE
