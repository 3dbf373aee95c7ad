SPECIFICATION FairSpec
CONSTANTS
  Tabs = {t1, t2}
  Started = s
  Edited = a
  Refused = bad
  MaxRevision = 2
  MaxSaves = 3
  MaxCommands = 3
  MaxStates = 2
  MinSamples = 3
  MaxFrames = 3
  MaxSolves = 1
  MaxSamples = 4
  MaxSolutions = 2
  MaxTime = 4
  MaxPairs = 3
  MaxGeneration = 2
  Turn = 3
  MaxAge = 1
  MaxTicks = 3
  MaxRounds = 2
  MaxSequence = 2
  TickRange = 6
  MaxDelta = 3
  Window = 3
  MaxOffsets = 3
  MinOffsets = 2
  Intervals = {1, 2}
  MaxReception = 5
  MaxSessions = 1
  Content = 3
  Scale = 2
  DecodedRows = 3
  Objectness = {1, 2}
  Ends <- DetectorEnds
  MinBrightness = 0
  MinWidth = 1
  Widths = {2, 3, 8}
  Means = {0, 1}
  Profiles <- ScanLines
  MaximumCandidates = 2
  FixedThreshold = 3
  ReferenceOffset = 1
  MinThreshold = 1
  MaxThreshold = 3
  MinimumColorDifference = 1
  Brightness = {1, 5}
  MaxContours = 3
  Differences = {0, 1, 2}
  Areas = {1, 2}
INVARIANTS
  WebKeepsEdits
  PidIsTuned
  ThreadsHaveTheirMeans
  CalibrationsAreEarned
  SinkIsSound
  EvaluationIsTrue
  FrontEndIsSound
PROPERTIES
  ProgramsAnswer
  CaptureTimesRise
  RecordingsAreWhole
  FeedbackIsOfItsSource
CHECK_DEADLOCK FALSE
