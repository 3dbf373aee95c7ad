SPECIFICATION Spec
CONSTANTS
  CameraTimeout = 2
  SinkTimeout = 1
  WaitForRecovery = TRUE
  DisableAfter = 1
  HasControl = TRUE
  HasWindow = FALSE
  HasEvaluator = FALSE
  HasDiagnostics = FALSE
  MaxTime = 1
PROPERTIES
  SinkTimeoutTerminates
CHECK_DEADLOCK FALSE
