SPECIFICATION FairSpec
CONSTANTS
  SyncsNeeded = 2
  FramesPerRead = 1
  FireOutput = TRUE
  MaxSession = 2
  MaxQueued = 2
INVARIANTS
  QueuedCommandsDie
  FeedbackIsQueued
  BooksAreTrue
PROPERTIES
  SessionsGoOn
CHECK_DEADLOCK FALSE
