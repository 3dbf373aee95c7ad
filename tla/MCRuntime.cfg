SPECIFICATION MCSpec
CONSTANTS
  CameraTimeout = 1
  SinkTimeout = 1
  WaitForRecovery = FALSE
  DisableAfter = 2
  HasControl = TRUE
  HasWindow = FALSE
  HasEvaluator = FALSE
  HasDiagnostics = FALSE
  MaxTime = 1
INVARIANTS
  EndsStopped
  UnhealthyCyclesEndStopped
  ExitIsExplained
  TimeoutsAreReal
  DisabledAfterThreshold
PROPERTIES
  ImplementsLifecycle
  RunsEnd
CHECK_DEADLOCK FALSE
