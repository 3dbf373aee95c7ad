SPECIFICATION MCSpec
CONSTANTS
  Slots = {0, 1}
  Objects = {0, 1}
  StableCycles = 2
  FireInterval = 4
  PulseWidth = 3
  MaxPredictionAge = 1
  MaxTempLostControl = 1
  SwitchConfirmation = 1
  AutoFire = TRUE
  BypassReferee = FALSE
  Inputs <- PulseInputs
  MaxFallbackAge = 2
  PlanPoints = 5
  FrictionHold = 3
  MaxTime = 5
INVARIANTS
  FireIsGated
  PulseIsContinuous
  RuleFiresWhenStable
  FallbackFollowsPublishedPlan
  FallbackSameTargetIfNoThrow
  FrictionIsBounded
PROPERTIES
  PulseSpacing
CHECK_DEADLOCK FALSE
