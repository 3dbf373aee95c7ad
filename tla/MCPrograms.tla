----------------------------- MODULE MCPrograms -----------------------------
(***************************************************************************)
(* The components that have no state in common with another module, in one *)
(* run: a behaviour is one of their programs from its first step on, and   *)
(* `program` tells which.  The variables of the program that runs are the  *)
(* first of x1 .. x10, in the order in which its module declares them; the *)
(* others stay 0.  A formula about one program is read only while it runs. *)
(***************************************************************************)
EXTENDS Integers, Sequences

CONSTANTS
  Tabs,            \* browser tabs
  Started, Edited, \* configurations of the vision front end, the first as of the start
  Refused,         \* one that the parsers refuse
  MinSamples,      \* the samples that the calibrations demand
  MaxRevision, MaxSaves, MaxCommands, MaxStates, \* bounds of web tuning, reload and Talos sink
  MaxFrames, MaxSolves,           \* of the intrinsic calibration
  MaxSamples, MaxSolutions,       \* of the extrinsic calibration
  MaxTime, MaxPairs, MaxGeneration, \* of the hand-eye calibration
  Turn,            \* the directions of a full turn, for the feedback estimator
  MaxAge, MaxTicks, MaxRounds, MaxSequence, \* how old telemetry may be, and bounds
  TickRange, MaxDelta, Window, MaxOffsets, MinOffsets, \* of the MindVision camera
  Intervals, MaxReception, MaxSessions,
  Content, Scale, DecodedRows, Objectness, Ends, \* of the armor decoder
  MinBrightness, MinWidth, Widths, Means, Profiles, \* of the corner refiner
  MaximumCandidates, FixedThreshold, ReferenceOffset, MinThreshold, MaxThreshold,
  MinimumColorDifference, Brightness, MaxContours, Differences, Areas \* of the lightbars

\* The image has a size, intervals may lie in it, and what is seen is counted.
ASSUME FrontEndAssumption ==
  /\ {Content, Scale} \subseteq Nat \ {0}
  /\ Ends \subseteq Int /\ Objectness \subseteq Int /\ Objectness # {}
  /\ \E l, r \in Ends : l < r
  /\ Means \subseteq Int /\ Profiles \subseteq Seq(Int)
  /\ MaximumCandidates \in Nat
  /\ Differences \subseteq Int /\ Areas \subseteq Int

\* Ends of intervals in and out of the image, and scan lines with and without an edge.
DetectorEnds == {-1, 0, 1, 2, 4}
ScanLines == {<<2, 2, 0>>, <<3, 2, 1>>, <<1, 0, 2>>}

\* Ticks are counted, a clock is trusted with one offset at the earliest, and no two
\* frames are received at once.
ASSUME ClockAssumption ==
  /\ {TickRange, MaxDelta, MinOffsets} \subseteq Nat \ {0}
  /\ {Window, MaxOffsets, MaxReception} \subseteq Nat
  /\ Intervals \subseteq Nat \ {0}

\* Opposite directions of a turn are told apart.
ASSUME TurnAssumption == Turn \in Nat /\ Turn % 2 = 1

VARIABLES program, x1, x2, x3, x4, x5, x6, x7, x8, x9, x10

Of7 == <<x1, x2, x3, x4, x5, x6, x7>>
Of9 == <<Of7, x8, x9>>
Of10 == <<Of9, x10>>
After9 == <<x10>>
After7 == <<x8, x9, x10>>
After6 == <<x7, After7>>
After5 == <<x6, After6>>
After4 == <<x5, After5>>
After3 == <<x4, After4>>

Web == INSTANCE WebTuning WITH
  mailbox <- x1, stage <- x2, preview <- x3, worker <- x4, vision <- x5, pipeline <- x6,
  page <- x7, wire <- x8, authors <- x9,
  Clients <- Tabs, Configs <- {Started, Edited}, Startup <- Started, Rejected <- Refused

Reload == INSTANCE GimbalTuningReload WITH
  files <- x1, reader <- x2, pending <- x3, config <- x4, pid <- x5, shown <- x6, editor <- x7

MindVision == INSTANCE MindVisionCamera WITH
  device <- x1, clock <- x2, now <- x3, stamp <- x4, imu <- x5, geometry <- x6, pose <- x7,
  MaxTime <- MaxReception, MaxGeneration <- MaxSessions

App == INSTANCE Application WITH
  backend <- x1, phase <- x2, at <- x3, alive <- x4, threads <- x5, sinks <- x6, code <- x7,
  reported <- x8, signaled <- x9, control <- x10

Intrinsic == INSTANCE IntrinsicCalibration WITH
  disk <- x1, capture <- x2, solver <- x3, MaxSolutions <- MaxSolves

\* Frames of the simulator that may follow one another or not.
SimulatorFrame(sequence, time, round, camera) ==
  [sequence |-> sequence, time |-> time, round |-> round, camera |-> camera]

Extrinsic == INSTANCE ExtrinsicCalibration WITH
  disk <- x1, capture <- x2, solver <- x3, shown <- x4,
  Frames <- {SimulatorFrame(1, 1, 1, 1), SimulatorFrame(2, 2, 1, 1), SimulatorFrame(3, 3, 1, 1),
             SimulatorFrame(4, 4, 1, 1), SimulatorFrame(3, 2, 1, 1), SimulatorFrame(4, 3, 2, 1),
             SimulatorFrame(4, 4, 1, 2)}

Handeye == INSTANCE HandeyeCalibration WITH
  disk <- x1, capture <- x2, solver <- x3, imu <- x4,
  Pose <- <<<<0, 0>>, <<1, 0>>, <<2, 0>>, <<0, 1>>>>, MaxSamples <- MaxPairs

Sink == INSTANCE TalosCommandSink WITH
  buffer <- x1, slots <- x2, sink <- x3, reader <- x4, runtime <- x5, hist <- x6

Estimator == INSTANCE GimbalFeedbackEstimator WITH
  est <- x1, session <- x2, now <- x3, MaxTime <- MaxTicks

Truth == INSTANCE TruthMatching WITH
  problem <- x1, duals <- x2, p <- x3, way <- x4, search <- x5,
  MaxRows <- 3, MaxTruths <- 2, Prices <- {1, 3}

Evaluator == INSTANCE SimulationEvaluator WITH
  sequence <- x1, previous <- x2, counts <- x3, snapshot <- x4, result <- x5, hist <- x6,
  Truths <- {1}, Period <- 2, MaxSequence <- 3

Detector == INSTANCE ArmorDecoding WITH
  rows <- x1, next <- x2, candidates <- x3, order <- x4, kept <- x5, detector <- x6,
  MaxRows <- DecodedRows

Corners == INSTANCE CornerRefinement WITH
  light <- x1, width <- x2, mean <- x3, status <- x4, corners <- x5, found <- x6, lines <- x7,
  step <- x8, result <- x9

Lightbars == INSTANCE LightbarDetection WITH
  step <- x1, threshold <- x2, contours <- x3, passed <- x4, result <- x5

-----------------------------------------------------------------------------
Idle9 == x10 = 0
Idle7 == x8 = 0 /\ x9 = 0 /\ Idle9
Idle6 == x7 = 0 /\ Idle7
Idle5 == x6 = 0 /\ Idle6
Idle4 == x5 = 0 /\ Idle5
Idle3 == x4 = 0 /\ Idle4

Init ==
  \/ program = "web" /\ Web!Init /\ Idle9
  \/ program = "reload" /\ Reload!Init /\ Idle7
  \/ program = "mindvision" /\ MindVision!Init /\ Idle7
  \/ program = "application" /\ App!Init
  \/ program = "intrinsic" /\ Intrinsic!Init /\ Idle3
  \/ program = "extrinsic" /\ Extrinsic!Init /\ Idle4
  \/ program = "handeye" /\ Handeye!Init /\ Idle4
  \/ program = "sink" /\ Sink!Init /\ Idle6
  \/ program = "estimator" /\ Estimator!Init /\ Idle3
  \/ program = "truth" /\ Truth!Init /\ Idle5
  \/ program = "evaluator" /\ Evaluator!Init /\ Idle6
  \/ program = "detector" /\ Detector!Init /\ Idle6
  \/ program = "corners" /\ Corners!Init /\ Idle9
  \/ program = "lightbars" /\ Lightbars!Init /\ Idle5

Next ==
  \/ program = "web" /\ Web!Next /\ UNCHANGED <<program, After9>>
  \/ program = "reload" /\ Reload!Next /\ UNCHANGED <<program, After7>>
  \/ program = "mindvision" /\ MindVision!Next /\ UNCHANGED <<program, After7>>
  \/ program = "application" /\ App!Next /\ UNCHANGED program
  \/ program = "intrinsic" /\ Intrinsic!Next /\ UNCHANGED <<program, After3>>
  \/ program = "extrinsic" /\ Extrinsic!Next /\ UNCHANGED <<program, After4>>
  \/ program = "handeye" /\ Handeye!Next /\ UNCHANGED <<program, After4>>
  \/ program = "sink" /\ Sink!Next /\ UNCHANGED <<program, After6>>
  \/ program = "estimator" /\ Estimator!Next /\ UNCHANGED <<program, After3>>
  \/ program = "truth" /\ Truth!Next /\ UNCHANGED <<program, After5>>
  \/ program = "evaluator" /\ Evaluator!Next /\ UNCHANGED <<program, After6>>
  \/ program = "detector" /\ Detector!Next /\ UNCHANGED <<program, After6>>
  \/ program = "corners" /\ Corners!Next /\ UNCHANGED <<program, After9>>
  \/ program = "lightbars" /\ Lightbars!Next /\ UNCHANGED <<program, After5>>

vars == <<program, Of10>>

\* The threads of the program go on and the camera delivers frames; nothing
\* makes a browser ask or the run end.
WebIsFair ==
  /\ WF_Of9(program = "web" /\ Web!Vision)
  /\ WF_Of9(program = "web" /\ Web!PreviewWorker)
  /\ WF_Of9(program = "web" /\ Web!Stop)
  /\ \A c \in Tabs : WF_Of9(program = "web" /\ Web!Handle(c))

\* The reader polls every 250 ms and the control thread sends at 100 Hz.
ReloadIsFair ==
  /\ WF_Of7(program = "reload" /\ Reload!Reader)
  /\ WF_Of7(program = "reload" /\ Reload!Send)

\* The main thread goes on.  The board may never answer, and a run may last
\* until it is asked to stop (VisionControl's FaultsEndTheRun).
ApplicationIsFair ==
  /\ WF_Of10(program = "application" /\ App!Startup)
  /\ WF_Of10(program = "application" /\ App!Unwind)
  /\ WF_Of10(program = "application" /\ x9 /\ App!EndRun)

FairSpec == Init /\ [][Next]_vars /\ WebIsFair /\ ReloadIsFair /\ ApplicationIsFair

-----------------------------------------------------------------------------
\* What each program is asked for, and its answer.
Asked ==
  \/ program = "web" /\ IF x5 = "done" THEN x2 \in {"serving", "joined"} ELSE Web!HasPending
  \/ program = "reload" /\ x7.saves = MaxSaves /\ Reload!Tunable(x1)
  \/ program = "application" /\ x9

Answered ==
  \/ program = "web" /\ IF x5 = "done" THEN x2 \in {"off", "stopped"} ELSE ~Web!HasPending
  \/ program = "reload" /\ x4 = Reload!Parsed(x1)
  \/ program = "application" /\ x2 = "exited"

\* An edit that the server accepted takes effect while the run goes on, and once it has
\* ended both threads of the server can be joined (vision_tuning.cpp, latest_preview.cpp);
\* the last tunable files reach the controller, those of the start as well, whatever was
\* saved or refused before (gimbal_tuning_reload.cpp); a signal ends the program, also
\* while it waits for a board that never answers (main.cpp 380, 395).
ProgramsAnswer == Asked ~> Answered

\* vision_tuning.cpp: no page overwrites what it has not seen (WEB_DEBUG.md), and the
\* revision that the server reports is the one that frames go through.
WebKeepsEdits == program = "web" => Web!WebKeepsEdits

\* gimbal_tuning_reload.cpp, pid_rate_controller.cpp: the adapter uses only parameters
\* that were on disk as a whole while no file is saved back and forth between two readings,
\* and no axis integrates across a break.
PidIsTuned == program = "reload" => Reload!PidIsTuned

\* mindvision_device.cpp: estimated capture times rise and never pass the reception.
CaptureTimesRise == [][program = "mindvision" => MindVision!StampRises]_vars

\* main.cpp: no thread outlives an object that its code reaches, and none is left behind.
ThreadsHaveTheirMeans == program = "application" => App!ThreadsHaveTheirMeans

\* Whatever of a calibration is on disk as solved was reviewed to the end and had enough
\* samples (calibration.cpp, extrinsic_solve_application.cpp, handeye_application.cpp).
CalibrationsAreEarned ==
  /\ program = "intrinsic" => Intrinsic!IntrinsicsAreEarned
  /\ program = "extrinsic" => Extrinsic!SolvedIsWritten /\ Extrinsic!ReplaysAreSolved
  /\ program = "handeye" => Handeye!CandidatesAreReviewed

\* What a manifest lists is on disk, as it was taken (extrinsic_capture_application.cpp,
\* handeye_application.cpp), and no picture of an intrinsic session is overwritten or lost,
\* whatever the user saves and excludes (calibration.cpp).
RecordingsAreWhole ==
  /\ [](/\ program = "extrinsic" => Extrinsic!SessionsAreWhole
        /\ program = "handeye" => Handeye!PairsAreTrue)
  /\ [][program = "intrinsic" => Intrinsic!KeepsPictures]_vars

\* talos_gimbal_command_sink.cpp: commands are read whole, a sink that was closed in order
\* leaves a stop, and a snapshot of the runtime state is one state.
SinkIsSound == program = "sink" => Sink!SinkIsSound

\* gimbal_feedback_estimator.cpp: the state is from the source the diagnostics name, no
\* older than it may be and of the session's own round; its yaw is unwrapped, and frames
\* are used once and in order.
FeedbackIsOfItsSource ==
  /\ [](program = "estimator" =>
         /\ Estimator!SourceIsTheStates
         /\ Estimator!RuntimeIsFresh
         /\ Estimator!ProjectionIsTheSessions)
  /\ [][program = "estimator" => Estimator!UnwrapsYaw /\ Estimator!GoesForward]_vars

\* simulation_evaluator.cpp: detections are matched at the least cost, and jitter and
\* summary are of the frames they are said to be of.
EvaluationIsTrue ==
  /\ program = "truth" => Truth!MatchingIsOptimal /\ Truth!PlacesAreProved
  /\ program = "evaluator" => Evaluator!JitterIsBetweenNeighbours /\ Evaluator!SummaryIsOfItsFrame

\* armor_detector_postprocess.cpp, armor_corner_refiner.cpp, armor_light_detector.cpp: what
\* the front end hands on are the armors and bars of the picture, each once, with their
\* own corners.
FrontEndIsSound ==
  /\ program = "detector" => Detector!ArmorsAreDetectedOnce /\ Detector!DetectionsAreInTheImage
  /\ program = "corners" => Corners!CornersAreOfOneKind /\ Corners!EdgesAreTheSteepest
  /\ program = "lightbars" => Lightbars!BestLightbarsAreNumbered
=============================================================================
