----------------------------- MODULE ProgramsProofs -----------------------------
(***************************************************************************)
(* What ComponentProofs proves of components is so of the programs that    *)
(* MCPrograms runs, whichever of them runs and for every bound.            *)
(***************************************************************************)
EXTENDS MCPrograms, TLAPS

C == INSTANCE ComponentProofs WITH
  mailbox <- x1, stage <- x2, preview <- x3, worker <- x4, vision <- x5, pipeline <- x6,
  page <- x7, wire <- x8, authors <- x9,
  Clients <- Tabs, Configs <- {Started, Edited}, Startup <- Started, Rejected <- Refused,
  files <- x1, poll <- x2, pending <- x3, config <- x4, pid <- x5, shown <- x6, editor <- x7,
  buffer <- x1, slots <- x2, sink <- x3, reader <- x4, runtime <- x5, hist <- x6,
  backend <- x1, phase <- x2, place <- x3, alive <- x4, threads <- x5, sinks <- x6, code <- x7,
  reported <- x8, signaled <- x9, control <- x10,
  disk <- x1, capture <- x2, solver <- x3, replayed <- x4, imu <- x4,
  est <- x1, stepped <- x2, ticks <- x3,
  device <- x1, clock <- x2, received <- x3, stamp <- x4, sensor <- x5, geometry <- x6,
  attitude <- x7,
  rows <- x1, decoded <- x2, candidates <- x3, order <- x4, retained <- x5, detector <- x6,
  Rows <- DecodedRows,
  light <- x1, width <- x2, mean <- x3, lightStatus <- x4, corners <- x5, found <- x6,
  lines <- x7, cornerStep <- x8, refined <- x9,
  barStep <- x1, threshold <- x2, contours <- x3, passed <- x4, bars <- x5,
  Frames <- {SimulatorFrame(1, 1, 1, 1), SimulatorFrame(2, 2, 1, 1), SimulatorFrame(3, 3, 1, 1),
             SimulatorFrame(4, 4, 1, 1), SimulatorFrame(3, 2, 1, 1), SimulatorFrame(4, 3, 2, 1),
             SimulatorFrame(4, 4, 1, 2)},
  evaluated <- x1, previous <- x2, counts <- x3, summary <- x4, evaluation <- x5, frames <- x6,
  Truths <- {1}, Period <- 2, MaxEvaluated <- 3,
  Pose <- <<<<0, 0>>, <<1, 0>>, <<2, 0>>, <<0, 1>>>>

\* The assignment of detections to true armours, proved next to the tracker's matchings; what
\* is proved of the assignment says nothing of the tracker, which gets the least it may have.
A == INSTANCE ArmorTrackerProofs WITH
  problem <- x1, duals <- x2, rowOf <- x3, way <- x4, search <- x5,
  MaxRows <- 3, MaxTruths <- 2, Prices <- {1, 3},
  track <- x1, stamp <- x2, last <- x3, hist <- x4,
  Labels <- {}, Priority <- <<>>, Inputs <- {}, MinDetect <- 1, MaxTempLost <- 1, MaxDt <- 1,
  ConfirmFrames <- 2, ConfirmWindow <- 1, Hold <- 1, InitialGate <- 3, Gate <- 2,
  RecoveryGate <- 3, CostTrigger <- 1, MaxGeneration <- 0

-----------------------------------------------------------------------------
(* A program of MCPrograms is the component under its own names: expanded,  *)
(* both sides are one formula.                                              *)

LEMMA WebIsTheComponent ==
  /\ Web!Init => C!Web!Init
  /\ [Web!Next]_Web!vars => [C!Web!Next]_C!Web!vars
  /\ C!Web!WebKeepsEdits => Web!WebKeepsEdits
  BY DEF
         Web!vars, Web!None, Web!Blank, Web!NewMailbox, Web!NewPreview, Web!Init,
         Web!HasPending, Web!SubmitStatus, Web!Submit, Web!CanTake, Web!TryTakePending,
         Web!MarkApplied, Web!Grab, Web!Tune, Web!Mark, Web!Process, Web!Push, Web!EndRun,
         Web!WorkerWakes, Web!WorkerEncodes, Web!Get, Web!Edit, Web!Strays, Web!Requests,
         Web!ParseFrontendConfig, Web!SubmitConfig, Web!Snapshot, Web!Handle, Web!Break,
         Web!Send, Web!LoadConfig, Web!ReadStatus, Web!Start, Web!StopServer,
         Web!StopPreview, Web!JoinPreview, Web!Vision, Web!PreviewWorker, Web!Stop, Web!Tab,
         Web!Next, Web!NoLostUpdate, Web!PipelineMatchesMailbox, Web!WebKeepsEdits,
         C!Web!vars, C!Web!None, C!Web!Blank, C!Web!NewMailbox, C!Web!NewPreview,
         C!Web!Init, C!Web!HasPending, C!Web!SubmitStatus, C!Web!Submit, C!Web!CanTake,
         C!Web!TryTakePending, C!Web!MarkApplied, C!Web!Grab, C!Web!Tune, C!Web!Mark,
         C!Web!Process, C!Web!Push, C!Web!EndRun, C!Web!WorkerWakes, C!Web!WorkerEncodes,
         C!Web!Get, C!Web!Edit, C!Web!Strays, C!Web!Requests, C!Web!ParseFrontendConfig,
         C!Web!SubmitConfig, C!Web!Snapshot, C!Web!Handle, C!Web!Break, C!Web!Send,
         C!Web!LoadConfig, C!Web!ReadStatus, C!Web!Start, C!Web!StopServer,
         C!Web!StopPreview, C!Web!JoinPreview, C!Web!Vision, C!Web!PreviewWorker,
         C!Web!Stop, C!Web!Tab, C!Web!Next, C!Web!NoLostUpdate,
         C!Web!PipelineMatchesMailbox, C!Web!WebKeepsEdits

LEMMA ReloadIsTheComponent ==
  /\ Reload!Init => C!Reload!Init
  /\ [Reload!Next]_Reload!vars => [C!Reload!Next]_C!Reload!vars
  /\ C!Reload!PidIsTuned => Reload!PidIsTuned
  BY DEF
         Reload!vars, Reload!None, Reload!Axes, Reload!Texts, Reload!Readable,
         Reload!Tunable, Reload!Parsed, Reload!StartupTexts, Reload!Startup, Reload!Init,
         Reload!Save, Reload!ReadFile, Reload!GiveUpPass, Reload!Read, Reload!Settled,
         Reload!IsNews, Reload!Compare, Reload!Reader, Reload!Cycles, Reload!Zero, Reload!Tuned,
         Reload!Stepped, Reload!AfterSend, Reload!Send, Reload!Next,
         Reload!TunedFromWholeFiles, Reload!TunedFromSteadyFiles, Reload!PidForgetsBreaks,
         Reload!PidIsTuned, C!Reload!vars, C!Reload!None, C!Reload!Axes, C!Reload!Texts,
         C!Reload!Readable, C!Reload!Tunable, C!Reload!Parsed, C!Reload!StartupTexts,
         C!Reload!Startup, C!Reload!Init, C!Reload!Save, C!Reload!ReadFile,
         C!Reload!GiveUpPass, C!Reload!Read, C!Reload!Settled, C!Reload!IsNews, C!Reload!Compare, C!Reload!Reader,
         C!Reload!Cycles, C!Reload!Zero, C!Reload!Tuned, C!Reload!Stepped,
         C!Reload!AfterSend, C!Reload!Send, C!Reload!Next, C!Reload!TunedFromWholeFiles,
         C!Reload!TunedFromSteadyFiles, C!Reload!PidForgetsBreaks, C!Reload!PidIsTuned

LEMMA SinkIsTheComponent ==
  /\ Sink!Init => C!Init
  /\ [Sink!Next]_Sink!vars => [C!Next]_C!vars
  /\ C!SinkIsSound => Sink!SinkIsSound
  BY DEF
         Sink!Index, Sink!Buffer, Sink!FreshBuffer, Sink!Offered, Sink!Rewound, Sink!Taken,
         Sink!Advanced, Sink!Apart, Sink!vars, Sink!Command, Sink!Torn, Sink!Attempts,
         Sink!NoRead, Sink!ClosedSink, Sink!SinkAt, Sink!Open, Sink!Stop, Sink!Close,
         Sink!CloseMapping, Sink!Kill, Sink!BeginSend, Sink!ClearSlot, Sink!FillSlot,
         Sink!Exchange, Sink!StoreIndex, Sink!Send, Sink!BeginRead, Sink!TryAgain,
         Sink!Written, Sink!LoadBefore, Sink!LoadEarly, Sink!LoadLate, Sink!LoadAfter,
         Sink!ReadRuntimeState, Sink!ReaderAt, Sink!TakeCommand, Sink!StoreReadIndex,
         Sink!BeginCopy, Sink!EndCopy, Sink!PublishState, Sink!Init, Sink!Next,
         Sink!CommandsAreWhole, Sink!ClosedGimbalIsStopped, Sink!SnapshotsAreWhole,
         Sink!SinkIsSound, C!Index, C!Buffer, C!FreshBuffer, C!Offered, C!Rewound, C!Taken,
         C!Advanced, C!Apart, C!vars, C!Command, C!Torn, C!Attempts, C!NoRead, C!ClosedSink,
         C!SinkAt, C!Open, C!Stop, C!Close, C!CloseMapping, C!Kill, C!BeginSend,
         C!ClearSlot, C!FillSlot, C!Exchange, C!StoreIndex, C!Send, C!BeginRead, C!TryAgain,
         C!Written, C!LoadBefore, C!LoadEarly, C!LoadLate, C!LoadAfter, C!ReadRuntimeState,
         C!ReaderAt, C!TakeCommand, C!StoreReadIndex, C!BeginCopy, C!EndCopy,
         C!PublishState, C!Init, C!Next, C!CommandsAreWhole, C!ClosedGimbalIsStopped,
         C!SnapshotsAreWhole, C!SinkIsSound

LEMMA AppIsTheComponent ==
  /\ App!Init => C!App!Init
  /\ [App!Next]_App!vars => [C!App!Next]_C!App!vars
  /\ C!App!ThreadsHaveTheirMeans => App!ThreadsHaveTheirMeans
  BY DEF
         App!vars, App!Must, App!May, App!Stages, App!Declared, App!Threaded, App!Uses,
         App!Init, App!Building, App!Stage, App!Advance, App!Skipped, App!Skip, App!Make,
         App!Build, App!LeaveOut, App!Fail, App!BoardAnswers, App!LeaveWait, App!EndRun,
         App!Position, App!Top, App!Join, App!Destroy, App!Exit, App!Signal, App!Unwind,
         App!Startup, App!Next, App!ThreadsHaveTheirMeans, App!Range, C!App!vars,
         C!App!Must, C!App!May, C!App!Stages, C!App!Declared, C!App!Threaded, C!App!Uses,
         C!App!Init, C!App!Building, C!App!Stage, C!App!Advance, C!App!Skipped, C!App!Skip,
         C!App!Make, C!App!Build, C!App!LeaveOut, C!App!Fail, C!App!BoardAnswers,
         C!App!LeaveWait, C!App!EndRun, C!App!Position, C!App!Top, C!App!Join,
         C!App!Destroy, C!App!Exit, C!App!Signal, C!App!Unwind, C!App!Startup, C!App!Next,
         C!App!ThreadsHaveTheirMeans, C!App!Range

LEMMA IntrinsicIsTheComponent ==
  /\ Intrinsic!Init => C!Intrinsic!Init
  /\ [Intrinsic!Next]_Intrinsic!vars => [C!Intrinsic!Next]_C!Intrinsic!vars
  /\ C!Intrinsic!IntrinsicsAreEarned => Intrinsic!IntrinsicsAreEarned
  /\ C!Intrinsic!KeepsPictures => Intrinsic!KeepsPictures
<1>1. Intrinsic!Init => C!Intrinsic!Init
  BY DEF Intrinsic!Init, Intrinsic!NoFile, C!Intrinsic!Init, C!Intrinsic!NoFile
<1>2. Intrinsic!OpenCapture => C!Intrinsic!OpenCapture
  BY DEF Intrinsic!OpenCapture, Intrinsic!WriteSession, Intrinsic!ReplaceOrRemove,
         Intrinsic!Replace, Intrinsic!Outcome, Intrinsic!NoFile, Intrinsic!Session,
         C!Intrinsic!OpenCapture, C!Intrinsic!WriteSession, C!Intrinsic!ReplaceOrRemove,
         C!Intrinsic!Replace, C!Intrinsic!Outcome, C!Intrinsic!NoFile, C!Intrinsic!Session
<1>3. Intrinsic!SaveImage => C!Intrinsic!SaveImage
  BY DEF Intrinsic!SaveImage, Intrinsic!Views, Intrinsic!Cells, Intrinsic!Merge,
         Intrinsic!NextName, C!Intrinsic!SaveImage, C!Intrinsic!Views, C!Intrinsic!Cells,
         C!Intrinsic!Merge, C!Intrinsic!NextName
<1>4. Intrinsic!ExcludeLast => C!Intrinsic!ExcludeLast
  BY DEF Intrinsic!ExcludeLast, Intrinsic!Last, Intrinsic!Merge, Intrinsic!Without,
         Intrinsic!Front, C!Intrinsic!ExcludeLast, C!Intrinsic!Last, C!Intrinsic!Merge,
         C!Intrinsic!Without, C!Intrinsic!Front
<1>5. Intrinsic!EndCapture => C!Intrinsic!EndCapture
  BY DEF Intrinsic!EndCapture, Intrinsic!WriteSession, Intrinsic!ReplaceOrRemove,
         Intrinsic!Replace, Intrinsic!Outcome, Intrinsic!NoFile, Intrinsic!Session,
         C!Intrinsic!EndCapture, C!Intrinsic!WriteSession, C!Intrinsic!ReplaceOrRemove,
         C!Intrinsic!Replace, C!Intrinsic!Outcome, C!Intrinsic!NoFile, C!Intrinsic!Session
<1>6. Intrinsic!LoseCapture => C!Intrinsic!LoseCapture
  BY DEF Intrinsic!LoseCapture, C!Intrinsic!LoseCapture
<1>7. Intrinsic!Begin => C!Intrinsic!Begin
  BY DEF Intrinsic!Begin, Intrinsic!NoFile, Intrinsic!WithNewDirectory,
         Intrinsic!NewSolution, Intrinsic!SetToSortSeq, Intrinsic!SetToSeq,
         Intrinsic!Cardinality, Intrinsic!IsInjective, C!Intrinsic!Begin,
         C!Intrinsic!NoFile, C!Intrinsic!WithNewDirectory, C!Intrinsic!NewSolution,
         C!Intrinsic!SetToSortSeq, C!Intrinsic!SetToSeq, C!Intrinsic!Cardinality,
         C!Intrinsic!IsInjective
<1>8. Intrinsic!Review => C!Intrinsic!Review
  BY DEF Intrinsic!Review, Intrinsic!AddSample, Intrinsic!Observe, Intrinsic!Readable,
         C!Intrinsic!Review, C!Intrinsic!AddSample, C!Intrinsic!Observe, C!Intrinsic!Readable
<1>9. Intrinsic!CancelReview => C!Intrinsic!CancelReview
  BY DEF Intrinsic!CancelReview, Intrinsic!WriteSolution, Intrinsic!ReplaceOrRemove,
         Intrinsic!Replace, Intrinsic!Outcome, Intrinsic!NoFile, Intrinsic!Session,
         C!Intrinsic!CancelReview, C!Intrinsic!WriteSolution, C!Intrinsic!ReplaceOrRemove,
         C!Intrinsic!Replace, C!Intrinsic!Outcome, C!Intrinsic!NoFile, C!Intrinsic!Session
<1>10. Intrinsic!Solve => C!Intrinsic!Solve
  BY DEF Intrinsic!Solve, Intrinsic!MayAccept, Intrinsic!Enough, Intrinsic!Covered,
         Intrinsic!Cells, Intrinsic!WriteSolution, Intrinsic!ReplaceOrRemove,
         Intrinsic!Replace, Intrinsic!Outcome, Intrinsic!NoFile, Intrinsic!Session,
         C!Intrinsic!Solve, C!Intrinsic!MayAccept, C!Intrinsic!Enough, C!Intrinsic!Covered,
         C!Intrinsic!Cells, C!Intrinsic!WriteSolution, C!Intrinsic!ReplaceOrRemove,
         C!Intrinsic!Replace, C!Intrinsic!Outcome, C!Intrinsic!NoFile, C!Intrinsic!Session
<1>11. Intrinsic!WriteIntrinsics => C!Intrinsic!WriteIntrinsics
  BY DEF Intrinsic!WriteIntrinsics, Intrinsic!ReplaceOrRemove, Intrinsic!Replace,
         Intrinsic!Outcome, Intrinsic!NoFile, C!Intrinsic!WriteIntrinsics,
         C!Intrinsic!ReplaceOrRemove, C!Intrinsic!Replace, C!Intrinsic!Outcome,
         C!Intrinsic!NoFile
<1>12. Intrinsic!KillSolver => C!Intrinsic!KillSolver
  BY DEF Intrinsic!KillSolver, C!Intrinsic!KillSolver
<1>13. C!Intrinsic!IntrinsicsAreEarned => Intrinsic!IntrinsicsAreEarned
  BY DEF Intrinsic!IntrinsicsAreEarned, Intrinsic!NoFile, Intrinsic!Enough,
         Intrinsic!Covered, Intrinsic!Cells, C!Intrinsic!IntrinsicsAreEarned,
         C!Intrinsic!NoFile, C!Intrinsic!Enough, C!Intrinsic!Covered, C!Intrinsic!Cells
<1>14. C!Intrinsic!KeepsPictures => Intrinsic!KeepsPictures
  BY DEF Intrinsic!KeepsPictures, Intrinsic!Kept, C!Intrinsic!KeepsPictures,
         C!Intrinsic!Kept
<1>15. Intrinsic!TearImage => C!Intrinsic!TearImage
  BY DEF Intrinsic!TearImage, Intrinsic!Merge, Intrinsic!NextName,
         C!Intrinsic!TearImage, C!Intrinsic!Merge, C!Intrinsic!NextName
<1>16. [Intrinsic!Next]_Intrinsic!vars => [C!Intrinsic!Next]_C!Intrinsic!vars
  BY <1>2, <1>3, <1>4, <1>5, <1>6, <1>7, <1>8, <1>9, <1>10, <1>11, <1>12, <1>15
     DEF Intrinsic!Next, Intrinsic!vars, C!Intrinsic!Next, C!Intrinsic!vars
<1> QED BY <1>1, <1>13, <1>14, <1>16

LEMMA ExtrinsicIsTheComponent ==
  /\ Extrinsic!Init => C!Extrinsic!Init
  /\ [Extrinsic!Next]_Extrinsic!vars => [C!Extrinsic!Next]_C!Extrinsic!vars
  /\ C!Extrinsic!SolvedIsWritten => Extrinsic!SolvedIsWritten
  /\ C!Extrinsic!ReplaysAreSolved => Extrinsic!ReplaysAreSolved
  /\ C!Extrinsic!SessionsAreWhole => Extrinsic!SessionsAreWhole
<1>1. Extrinsic!Init => C!Extrinsic!Init
  BY DEF Extrinsic!Init, Extrinsic!NoFile, C!Extrinsic!Init, C!Extrinsic!NoFile
<1>2. Extrinsic!OpenCapture => C!Extrinsic!OpenCapture
  BY DEF Extrinsic!OpenCapture, Extrinsic!Replace, Extrinsic!Outcome, Extrinsic!Manifest,
         C!Extrinsic!OpenCapture, C!Extrinsic!Replace, C!Extrinsic!Outcome,
         C!Extrinsic!Manifest
<1>3. Extrinsic!FailCapture => C!Extrinsic!FailCapture
  BY DEF Extrinsic!FailCapture, C!Extrinsic!FailCapture
<1>4. Extrinsic!SaveImage => C!Extrinsic!SaveImage
  BY DEF Extrinsic!SaveImage, Extrinsic!Path, Extrinsic!Follows, Extrinsic!Samples,
         Extrinsic!Last, Extrinsic!Put, C!Extrinsic!SaveImage, C!Extrinsic!Path,
         C!Extrinsic!Follows, C!Extrinsic!Samples, C!Extrinsic!Last, C!Extrinsic!Put
<1>5. Extrinsic!CommitSave => C!Extrinsic!CommitSave
  BY DEF Extrinsic!CommitSave, Extrinsic!Replace, Extrinsic!Outcome, Extrinsic!Manifest,
         Extrinsic!Samples, Extrinsic!Drop, Extrinsic!Last, Extrinsic!RollBack,
         Extrinsic!Front, C!Extrinsic!CommitSave, C!Extrinsic!Replace, C!Extrinsic!Outcome,
         C!Extrinsic!Manifest, C!Extrinsic!Samples, C!Extrinsic!Drop, C!Extrinsic!Last,
         C!Extrinsic!RollBack, C!Extrinsic!Front
<1>6. Extrinsic!ExcludeLast => C!Extrinsic!ExcludeLast
  BY DEF Extrinsic!ExcludeLast, Extrinsic!Samples, Extrinsic!LastActive, Extrinsic!Path,
         Extrinsic!Move, Extrinsic!Put, Extrinsic!Drop, Extrinsic!Marked,
         C!Extrinsic!ExcludeLast, C!Extrinsic!Samples, C!Extrinsic!LastActive,
         C!Extrinsic!Path, C!Extrinsic!Move, C!Extrinsic!Put, C!Extrinsic!Drop,
         C!Extrinsic!Marked
<1>7. Extrinsic!CommitExclude => C!Extrinsic!CommitExclude
  BY DEF Extrinsic!CommitExclude, Extrinsic!Manifest, Extrinsic!Samples,
         Extrinsic!UndoExclude, Extrinsic!Move, Extrinsic!Put, Extrinsic!Drop,
         Extrinsic!Marked, Extrinsic!Path, C!Extrinsic!CommitExclude, C!Extrinsic!Manifest,
         C!Extrinsic!Samples, C!Extrinsic!UndoExclude, C!Extrinsic!Move, C!Extrinsic!Put,
         C!Extrinsic!Drop, C!Extrinsic!Marked, C!Extrinsic!Path
<1>8. Extrinsic!EndCapture => C!Extrinsic!EndCapture
  BY DEF Extrinsic!EndCapture, Extrinsic!Replace, Extrinsic!Outcome, Extrinsic!Manifest,
         Extrinsic!Samples, C!Extrinsic!EndCapture, C!Extrinsic!Replace,
         C!Extrinsic!Outcome, C!Extrinsic!Manifest, C!Extrinsic!Samples
<1>9. Extrinsic!AbortCapture => C!Extrinsic!AbortCapture
  BY DEF Extrinsic!AbortCapture, Extrinsic!Replace, Extrinsic!Outcome, Extrinsic!Manifest,
         Extrinsic!Samples, C!Extrinsic!AbortCapture, C!Extrinsic!Replace,
         C!Extrinsic!Outcome, C!Extrinsic!Manifest, C!Extrinsic!Samples
<1>10. Extrinsic!KillCapture => C!Extrinsic!KillCapture
  BY DEF Extrinsic!KillCapture, C!Extrinsic!KillCapture
<1>11. Extrinsic!Begin => C!Extrinsic!Begin
  BY DEF Extrinsic!Begin, Extrinsic!Solution, Extrinsic!LoadSession, Extrinsic!Active,
         Extrinsic!WithNewDirectory, Extrinsic!NewSolution, Extrinsic!NoFile,
         Extrinsic!Replace, Extrinsic!Outcome, Extrinsic!Report, C!Extrinsic!Begin,
         C!Extrinsic!Solution, C!Extrinsic!LoadSession, C!Extrinsic!Active,
         C!Extrinsic!WithNewDirectory, C!Extrinsic!NewSolution, C!Extrinsic!NoFile,
         C!Extrinsic!Replace, C!Extrinsic!Outcome, C!Extrinsic!Report
<1>12. Extrinsic!Review => C!Extrinsic!Review
  BY DEF Extrinsic!Review, C!Extrinsic!Review
<1>13. Extrinsic!CancelReview => C!Extrinsic!CancelReview
  BY DEF Extrinsic!CancelReview, Extrinsic!WriteReport, Extrinsic!Replace,
         Extrinsic!Outcome, Extrinsic!Solution, Extrinsic!Report, C!Extrinsic!CancelReview,
         C!Extrinsic!WriteReport, C!Extrinsic!Replace, C!Extrinsic!Outcome,
         C!Extrinsic!Solution, C!Extrinsic!Report
<1>14. Extrinsic!RejectSamples => C!Extrinsic!RejectSamples
  BY DEF Extrinsic!RejectSamples, Extrinsic!WriteReport, Extrinsic!Replace,
         Extrinsic!Outcome, Extrinsic!Solution, Extrinsic!Report, C!Extrinsic!RejectSamples,
         C!Extrinsic!WriteReport, C!Extrinsic!Replace, C!Extrinsic!Outcome,
         C!Extrinsic!Solution, C!Extrinsic!Report
<1>15. Extrinsic!WriteExtrinsics => C!Extrinsic!WriteExtrinsics
  BY DEF Extrinsic!WriteExtrinsics, Extrinsic!Replace, Extrinsic!Outcome, Extrinsic!NoFile,
         Extrinsic!Solution, C!Extrinsic!WriteExtrinsics, C!Extrinsic!Replace,
         C!Extrinsic!Outcome, C!Extrinsic!NoFile, C!Extrinsic!Solution
<1>16. Extrinsic!ReportSolved => C!Extrinsic!ReportSolved
  BY DEF Extrinsic!ReportSolved, Extrinsic!WriteReport, Extrinsic!Replace,
         Extrinsic!Outcome, Extrinsic!Solution, Extrinsic!Report, C!Extrinsic!ReportSolved,
         C!Extrinsic!WriteReport, C!Extrinsic!Replace, C!Extrinsic!Outcome,
         C!Extrinsic!Solution, C!Extrinsic!Report
<1>17. Extrinsic!FailSolve => C!Extrinsic!FailSolve
  BY DEF Extrinsic!FailSolve, Extrinsic!WriteReport, Extrinsic!Replace, Extrinsic!Outcome,
         Extrinsic!Solution, Extrinsic!Report, C!Extrinsic!FailSolve,
         C!Extrinsic!WriteReport, C!Extrinsic!Replace, C!Extrinsic!Outcome,
         C!Extrinsic!Solution, C!Extrinsic!Report
<1>18. Extrinsic!KillSolver => C!Extrinsic!KillSolver
  BY DEF Extrinsic!KillSolver, C!Extrinsic!KillSolver
<1>19. Extrinsic!Visualize => C!Extrinsic!Visualize
  BY DEF Extrinsic!Visualize, Extrinsic!LoadSolution, Extrinsic!NoFile,
         C!Extrinsic!Visualize, C!Extrinsic!LoadSolution, C!Extrinsic!NoFile
<1>20. C!Extrinsic!SolvedIsWritten => Extrinsic!SolvedIsWritten
  BY DEF Extrinsic!SolvedIsWritten, Extrinsic!NoFile, C!Extrinsic!SolvedIsWritten,
         C!Extrinsic!NoFile
<1>21. C!Extrinsic!ReplaysAreSolved => Extrinsic!ReplaysAreSolved
  BY DEF Extrinsic!ReplaysAreSolved, C!Extrinsic!ReplaysAreSolved
<1>22. C!Extrinsic!SessionsAreWhole => Extrinsic!SessionsAreWhole
  BY DEF Extrinsic!SessionsAreWhole, C!Extrinsic!SessionsAreWhole
<1>23. [Extrinsic!Next]_Extrinsic!vars => [C!Extrinsic!Next]_C!Extrinsic!vars
  BY <1>2, <1>3, <1>4, <1>5, <1>6, <1>7, <1>8, <1>9, <1>10, <1>11, <1>12, <1>13, <1>14,
     <1>15, <1>16, <1>17, <1>18, <1>19
     DEF Extrinsic!Next, Extrinsic!vars, C!Extrinsic!Next, C!Extrinsic!vars
<1> QED BY <1>1, <1>20, <1>21, <1>22, <1>23

LEMMA HandeyeIsTheComponent ==
  /\ Handeye!Init => C!Handeye!Init
  /\ [Handeye!Next]_Handeye!vars => [C!Handeye!Next]_C!Handeye!vars
  /\ C!Handeye!CandidatesAreReviewed => Handeye!CandidatesAreReviewed
  /\ C!Handeye!PairsAreTrue => Handeye!PairsAreTrue
<1>1. Handeye!Init => C!Handeye!Init
  BY DEF Handeye!Init, Handeye!NoFile, Handeye!None, C!Handeye!Init, C!Handeye!NoFile,
         C!Handeye!None
<1>2. Handeye!Reconnect => C!Handeye!Reconnect
  BY DEF Handeye!Reconnect, C!Handeye!Reconnect
<1>3. Handeye!Synchronize => C!Handeye!Synchronize
  BY DEF Handeye!Synchronize, C!Handeye!Synchronize
<1>4. Handeye!OpenCapture => C!Handeye!OpenCapture
  BY DEF Handeye!OpenCapture, Handeye!WriteManifest, Handeye!Replace, Handeye!Outcome,
         Handeye!Manifest, C!Handeye!OpenCapture, C!Handeye!WriteManifest,
         C!Handeye!Replace, C!Handeye!Outcome, C!Handeye!Manifest
<1>5. Handeye!Grab => C!Handeye!Grab
  BY DEF Handeye!Grab, Handeye!NewSession, Handeye!None, Handeye!Abort, C!Handeye!Grab,
         C!Handeye!NewSession, C!Handeye!None, C!Handeye!Abort
<1>6. Handeye!Save => C!Handeye!Save
  BY DEF Handeye!Save, C!Handeye!Save
<1>7. Handeye!At => C!Handeye!At
  BY DEF Handeye!At, C!Handeye!At
<1>8. Handeye!SavePicture => C!Handeye!SavePicture
  BY DEF Handeye!SavePicture, Handeye!NewSession, Handeye!None, Handeye!Abort,
         Handeye!OneSession, Handeye!Store, Handeye!NextId, C!Handeye!SavePicture,
         C!Handeye!NewSession, C!Handeye!None, C!Handeye!Abort, C!Handeye!OneSession,
         C!Handeye!Store, C!Handeye!NextId
<1>9. Handeye!CommitPair => C!Handeye!CommitPair
  BY DEF Handeye!CommitPair, Handeye!Replace, Handeye!Outcome, Handeye!Manifest,
         Handeye!Pair, Handeye!None, C!Handeye!CommitPair, C!Handeye!Replace,
         C!Handeye!Outcome, C!Handeye!Manifest, C!Handeye!Pair, C!Handeye!None
<1>10. Handeye!ExcludeLast => C!Handeye!ExcludeLast
  BY DEF Handeye!ExcludeLast, Handeye!WriteManifest, Handeye!Replace, Handeye!Outcome,
         Handeye!Manifest, C!Handeye!ExcludeLast, C!Handeye!WriteManifest,
         C!Handeye!Replace, C!Handeye!Outcome, C!Handeye!Manifest
<1>11. Handeye!Skip => C!Handeye!Skip
  BY DEF Handeye!Skip, C!Handeye!Skip
<1>12. Handeye!FailCapture => C!Handeye!FailCapture
  BY DEF Handeye!FailCapture, Handeye!Abort, C!Handeye!FailCapture, C!Handeye!Abort
<1>13. Handeye!EndCapture => C!Handeye!EndCapture
  BY DEF Handeye!EndCapture, Handeye!WriteManifest, Handeye!Replace, Handeye!Outcome,
         Handeye!Manifest, C!Handeye!EndCapture, C!Handeye!WriteManifest, C!Handeye!Replace,
         C!Handeye!Outcome, C!Handeye!Manifest
<1>14. Handeye!KillCapture => C!Handeye!KillCapture
  BY DEF Handeye!KillCapture, Handeye!Capturing, C!Handeye!KillCapture, C!Handeye!Capturing
<1>15. Handeye!Begin => C!Handeye!Begin
  BY DEF Handeye!Begin, Handeye!NoFile, Handeye!Consistent, C!Handeye!Begin,
         C!Handeye!NoFile, C!Handeye!Consistent
<1>16. Handeye!Review => C!Handeye!Review
  BY DEF Handeye!Review, Handeye!Add, Handeye!Replace, Handeye!Outcome, C!Handeye!Review,
         C!Handeye!Add, C!Handeye!Replace, C!Handeye!Outcome
<1>17. Handeye!WriteSolution => C!Handeye!WriteSolution
  BY DEF Handeye!WriteSolution, Handeye!Solve, Handeye!Solvable, Handeye!Cardinality,
         Handeye!Spanned, Handeye!Replace, Handeye!Outcome, Handeye!NoFile,
         C!Handeye!WriteSolution, C!Handeye!Solve, C!Handeye!Solvable,
         C!Handeye!Cardinality, C!Handeye!Spanned, C!Handeye!Replace, C!Handeye!Outcome,
         C!Handeye!NoFile
<1>18. Handeye!WriteVerdict => C!Handeye!WriteVerdict
  BY DEF Handeye!WriteVerdict, Handeye!WriteReview, Handeye!Replace, Handeye!Outcome,
         C!Handeye!WriteVerdict, C!Handeye!WriteReview, C!Handeye!Replace, C!Handeye!Outcome
<1>19. Handeye!WriteCandidate => C!Handeye!WriteCandidate
  BY DEF Handeye!WriteCandidate, Handeye!Replace, Handeye!Outcome, Handeye!NoFile,
         C!Handeye!WriteCandidate, C!Handeye!Replace, C!Handeye!Outcome, C!Handeye!NoFile
<1>20. Handeye!AbortSolve => C!Handeye!AbortSolve
  BY DEF Handeye!AbortSolve, Handeye!Replace, Handeye!Outcome, C!Handeye!AbortSolve,
         C!Handeye!Replace, C!Handeye!Outcome
<1>21. Handeye!KillSolver => C!Handeye!KillSolver
  BY DEF Handeye!KillSolver, C!Handeye!KillSolver
<1>22. C!Handeye!CandidatesAreReviewed => Handeye!CandidatesAreReviewed
  BY DEF Handeye!CandidatesAreReviewed, Handeye!NoFile, Handeye!Cardinality,
         Handeye!Spanned, C!Handeye!CandidatesAreReviewed, C!Handeye!NoFile,
         C!Handeye!Cardinality, C!Handeye!Spanned
<1>23. C!Handeye!PairsAreTrue => Handeye!PairsAreTrue
  BY DEF Handeye!PairsAreTrue, Handeye!NoFile, C!Handeye!PairsAreTrue, C!Handeye!NoFile
<1>24. [Handeye!Next]_Handeye!vars => [C!Handeye!Next]_C!Handeye!vars
  BY <1>2, <1>3, <1>4, <1>5, <1>6, <1>7, <1>8, <1>9, <1>10, <1>11, <1>12, <1>13, <1>14,
     <1>15, <1>16, <1>17, <1>18, <1>19, <1>20, <1>21
     DEF Handeye!Next, Handeye!vars, C!Handeye!Next, C!Handeye!vars
<1> QED BY <1>1, <1>22, <1>23, <1>24

LEMMA EstimatorIsTheComponent ==
  /\ Estimator!Init => C!Estimator!Init
  /\ [Estimator!Next]_Estimator!vars => [C!Estimator!Next]_C!Estimator!vars
  /\ C!Estimator!SourceIsTheStates => Estimator!SourceIsTheStates
  /\ C!Estimator!RuntimeIsFresh => Estimator!RuntimeIsFresh
  /\ C!Estimator!ProjectionIsTheSessions => Estimator!ProjectionIsTheSessions
  /\ C!Estimator!UnwrapsYaw => Estimator!UnwrapsYaw
  /\ C!Estimator!GoesForward => Estimator!GoesForward
<1>1. Estimator!Init => C!Estimator!Init
  BY DEF Estimator!Init, Estimator!FreshEstimator, Estimator!NoFeedback,
         Estimator!FreshSession, C!Estimator!Init, C!Estimator!FreshEstimator,
         C!Estimator!NoFeedback, C!Estimator!FreshSession
<1>2. Estimator!Step => C!Estimator!Step
  BY DEF Estimator!Step, Estimator!InRound, Estimator!FreshSession, Estimator!Reset,
         Estimator!FreshEstimator, Estimator!NoFeedback, Estimator!Telemetries,
         Estimator!Direction, Estimator!Half, Estimator!Frames, Estimator!StepInRound,
         Estimator!Untrusted, Estimator!ClearCommandProjection, Estimator!ToCamera,
         Estimator!ClearRuntimeActuator, Estimator!ObserveActuatorTelemetry,
         Estimator!Usable, Estimator!UnwrapNear, Estimator!Wrap, Estimator!Reference,
         Estimator!Unprojected, Estimator!ObserveMeasurement, Estimator!Seen,
         Estimator!Estimate, C!Estimator!Step, C!Estimator!InRound,
         C!Estimator!FreshSession, C!Estimator!Reset, C!Estimator!FreshEstimator,
         C!Estimator!NoFeedback, C!Estimator!Telemetries, C!Estimator!Direction,
         C!Estimator!Half, C!Estimator!Frames, C!Estimator!StepInRound,
         C!Estimator!Untrusted, C!Estimator!ClearCommandProjection, C!Estimator!ToCamera,
         C!Estimator!ClearRuntimeActuator, C!Estimator!ObserveActuatorTelemetry,
         C!Estimator!Usable, C!Estimator!UnwrapNear, C!Estimator!Wrap,
         C!Estimator!Reference, C!Estimator!Unprojected, C!Estimator!ObserveMeasurement,
         C!Estimator!Seen, C!Estimator!Estimate
<1>3. Estimator!Published => C!Estimator!Published
  BY DEF Estimator!Published, Estimator!Half, Estimator!ObservePublishedCommand,
         Estimator!UnwrapNear, Estimator!Wrap, C!Estimator!Published, C!Estimator!Half,
         C!Estimator!ObservePublishedCommand, C!Estimator!UnwrapNear, C!Estimator!Wrap
<1>4. Estimator!NotSent => C!Estimator!NotSent
  BY DEF Estimator!NotSent, Estimator!ClearCommandProjection, Estimator!ToCamera,
         C!Estimator!NotSent, C!Estimator!ClearCommandProjection, C!Estimator!ToCamera
<1>5. Estimator!Tick => C!Estimator!Tick
  BY DEF Estimator!Tick, C!Estimator!Tick
<1>6. C!Estimator!SourceIsTheStates => Estimator!SourceIsTheStates
  BY DEF Estimator!SourceIsTheStates, Estimator!Runtime, C!Estimator!SourceIsTheStates,
         C!Estimator!Runtime
<1>7. C!Estimator!RuntimeIsFresh => Estimator!RuntimeIsFresh
  BY DEF Estimator!RuntimeIsFresh, C!Estimator!RuntimeIsFresh
<1>8. C!Estimator!ProjectionIsTheSessions => Estimator!ProjectionIsTheSessions
  BY DEF Estimator!ProjectionIsTheSessions, C!Estimator!ProjectionIsTheSessions
<1>9. C!Estimator!UnwrapsYaw => Estimator!UnwrapsYaw
  BY DEF Estimator!UnwrapsYaw, Estimator!Direction, Estimator!Half, C!Estimator!UnwrapsYaw,
         C!Estimator!Direction, C!Estimator!Half
<1>10. C!Estimator!GoesForward => Estimator!GoesForward
  BY DEF Estimator!GoesForward, C!Estimator!GoesForward
<1>11. [Estimator!Next]_Estimator!vars => [C!Estimator!Next]_C!Estimator!vars
  BY <1>2, <1>3, <1>4, <1>5
     DEF Estimator!Next, Estimator!vars, C!Estimator!Next, C!Estimator!vars
<1> QED BY <1>1, <1>6, <1>7, <1>8, <1>9, <1>10, <1>11

LEMMA MindVisionIsTheComponent ==
  /\ MindVision!Init => C!MindVision!Init
  /\ [MindVision!Next]_MindVision!vars => [C!MindVision!Next]_C!MindVision!vars
  /\ C!MindVision!StampRises => MindVision!StampRises
<1>1. MindVision!Init => C!MindVision!Init
  BY DEF MindVision!Init, MindVision!Closed, MindVision!Unstarted, MindVision!Unset,
         C!MindVision!Init, C!MindVision!Closed, C!MindVision!Unstarted, C!MindVision!Unset
<1>2. MindVision!Open => C!MindVision!Open
  BY DEF MindVision!Open, MindVision!Closed, C!MindVision!Open, C!MindVision!Closed
<1>3. MindVision!Reset => C!MindVision!Reset
  BY DEF MindVision!Reset, MindVision!Closed, C!MindVision!Reset, C!MindVision!Closed
<1>4. MindVision!Grab => C!MindVision!Grab
  BY DEF MindVision!Grab, MindVision!Ticked, MindVision!Continues, MindVision!Delta,
         MindVision!Recent, MindVision!Cardinality, MindVision!Dropped, MindVision!Trusted,
         MindVision!CaptureTime, MindVision!Min, MindVision!Unset, MindVision!Attach,
         MindVision!Agrees, MindVision!Closed, C!MindVision!Grab, C!MindVision!Ticked,
         C!MindVision!Continues, C!MindVision!Delta, C!MindVision!Recent,
         C!MindVision!Cardinality, C!MindVision!Dropped, C!MindVision!Trusted,
         C!MindVision!CaptureTime, C!MindVision!Min, C!MindVision!Unset,
         C!MindVision!Attach, C!MindVision!Agrees, C!MindVision!Closed
<1>5. C!MindVision!StampRises => MindVision!StampRises
  BY DEF MindVision!StampRises, C!MindVision!StampRises
<1>6. [MindVision!Next]_MindVision!vars => [C!MindVision!Next]_C!MindVision!vars
  BY <1>2, <1>3, <1>4
     DEF MindVision!Next, MindVision!vars, C!MindVision!Next, C!MindVision!vars
<1> QED BY <1>1, <1>5, <1>6

LEMMA DetectorIsTheComponent ==
  /\ Detector!Init => C!Detector!Init
  /\ [Detector!Next]_Detector!vars => [C!Detector!Next]_C!Detector!vars
  /\ C!Detector!ArmorsAreDetectedOnce => Detector!ArmorsAreDetectedOnce
  /\ C!Detector!DetectionsAreInTheImage => Detector!DetectionsAreInTheImage
<1>1. Detector!Init => C!Detector!Init
  BY DEF Detector!Init, Detector!Outputs, Detector!Row, C!Detector!Init, C!Detector!Outputs,
         C!Detector!Row
<1>2. Detector!InferenceFails => C!Detector!InferenceFails
  BY DEF Detector!InferenceFails, C!Detector!InferenceFails
<1>3. Detector!DecodeRow => C!Detector!DecodeRow
  BY DEF Detector!DecodeRow, Detector!Passes, Detector!Centered, Detector!HasExtent,
         Detector!Mapped, Detector!MapPoint, C!Detector!DecodeRow, C!Detector!Passes,
         C!Detector!Centered, C!Detector!HasExtent, C!Detector!Mapped, C!Detector!MapPoint
<1>4. Detector!SortCandidates => C!Detector!SortCandidates
  BY DEF Detector!SortCandidates, Detector!ByObjectness, Detector!Range, Detector!Before,
         C!Detector!SortCandidates, C!Detector!ByObjectness, C!Detector!Range,
         C!Detector!Before
<1>5. Detector!Suppress => C!Detector!Suppress
  BY DEF Detector!Suppress, Detector!Suppressed, Detector!Range, Detector!Overlapping,
         Detector!Intersection, Detector!Larger, Detector!Smaller, C!Detector!Suppress,
         C!Detector!Suppressed, C!Detector!Range, C!Detector!Overlapping,
         C!Detector!Intersection, C!Detector!Larger, C!Detector!Smaller
<1>6. Detector!Finish => C!Detector!Finish
  BY DEF Detector!Finish, C!Detector!Finish
<1>7. C!Detector!ArmorsAreDetectedOnce => Detector!ArmorsAreDetectedOnce
  BY DEF Detector!ArmorsAreDetectedOnce, Detector!Range, Detector!Overlapping,
         Detector!Intersection, Detector!Larger, Detector!Smaller,
         C!Detector!ArmorsAreDetectedOnce, C!Detector!Range, C!Detector!Overlapping,
         C!Detector!Intersection, C!Detector!Larger, C!Detector!Smaller
<1>8. C!Detector!DetectionsAreInTheImage => Detector!DetectionsAreInTheImage
  BY DEF Detector!DetectionsAreInTheImage, Detector!Range, Detector!Larger,
         C!Detector!DetectionsAreInTheImage, C!Detector!Range, C!Detector!Larger
<1>9. [Detector!Next]_Detector!vars => [C!Detector!Next]_C!Detector!vars
  BY <1>2, <1>3, <1>4, <1>5, <1>6
     DEF Detector!Next, Detector!vars, C!Detector!Next, C!Detector!vars
<1> QED BY <1>1, <1>7, <1>8, <1>9

LEMMA CornersIsTheComponent ==
  /\ Corners!Init => C!Corners!Init
  /\ [Corners!Next]_Corners!vars => [C!Corners!Next]_C!Corners!vars
  /\ C!Corners!CornersAreOfOneKind => Corners!CornersAreOfOneKind
  /\ C!Corners!EdgesAreTheSteepest => Corners!EdgesAreTheSteepest
<1>1. Corners!Init => C!Corners!Init
  BY DEF Corners!Init, Corners!Lights, Corners!Unrefined, Corners!Corner, Corners!Original,
         C!Corners!Init, C!Corners!Lights, C!Corners!Unrefined, C!Corners!Corner,
         C!Corners!Original
<1>2. Corners!Refuse => C!Corners!Refuse
  BY DEF Corners!Refuse, Corners!Return, Corners!Unrefined, Corners!Corner, Corners!Lights,
         Corners!Original, C!Corners!Refuse, C!Corners!Return, C!Corners!Unrefined,
         C!Corners!Corner, C!Corners!Lights, C!Corners!Original
<1>3. Corners!MakeLightbar => C!Corners!MakeLightbar
  BY DEF Corners!MakeLightbar, Corners!NextLight, C!Corners!MakeLightbar,
         C!Corners!NextLight
<1>4. Corners!FindSymmetryAxis => C!Corners!FindSymmetryAxis
  BY DEF Corners!FindSymmetryAxis, Corners!AxisFailures, Corners!NextLight,
         C!Corners!FindSymmetryAxis, C!Corners!AxisFailures, C!Corners!NextLight
<1>5. (\E end \in {"TOP", "BOTTOM"} : Corners!FindEnd(end)) => (\E end \in {"TOP", "BOTTOM"} : C!Corners!FindEnd(end))
  BY DEF Corners!FindEnd, Corners!Offsets, Corners!HalfCount, Corners!FindCorner,
         Corners!Edge, Corners!Brighter, Corners!MapThenSumSet, Corners!MapThenFoldSet,
         Corners!Cardinality, Corners!NextLight, Corners!NotFound, C!Corners!FindEnd,
         C!Corners!Offsets, C!Corners!HalfCount, C!Corners!FindCorner, C!Corners!Edge,
         C!Corners!Brighter, C!Corners!MapThenSumSet, C!Corners!MapThenFoldSet,
         C!Corners!Cardinality, C!Corners!NextLight, C!Corners!NotFound
<1>6. Corners!Finish => C!Corners!Finish
  BY DEF Corners!Finish, Corners!Return, Corners!Final, Corners!Unrefined, Corners!Corner,
         Corners!Lights, Corners!Original, C!Corners!Finish, C!Corners!Return,
         C!Corners!Final, C!Corners!Unrefined, C!Corners!Corner, C!Corners!Lights,
         C!Corners!Original
<1>7. C!Corners!CornersAreOfOneKind => Corners!CornersAreOfOneKind
  BY DEF Corners!CornersAreOfOneKind, Corners!Corner, Corners!Lights, Corners!Original,
         C!Corners!CornersAreOfOneKind, C!Corners!Corner, C!Corners!Lights,
         C!Corners!Original
<1>8. C!Corners!EdgesAreTheSteepest => Corners!EdgesAreTheSteepest
  BY DEF Corners!EdgesAreTheSteepest, Corners!Edge, Corners!Brighter,
         C!Corners!EdgesAreTheSteepest, C!Corners!Edge, C!Corners!Brighter
<1>9. [Corners!Next]_Corners!vars => [C!Corners!Next]_C!Corners!vars
  BY <1>2, <1>3, <1>4, <1>5, <1>6
     DEF Corners!Next, Corners!vars, C!Corners!Next, C!Corners!vars
<1> QED BY <1>1, <1>7, <1>8, <1>9

LEMMA LightbarsIsTheComponent ==
  /\ Lightbars!Init => C!Lightbars!Init
  /\ [Lightbars!Next]_Lightbars!vars => [C!Lightbars!Next]_C!Lightbars!vars
  /\ C!Lightbars!BestLightbarsAreNumbered => Lightbars!BestLightbarsAreNumbered
<1>1. Lightbars!Init => C!Lightbars!Init
  BY DEF Lightbars!Init, Lightbars!NoLightbars, C!Lightbars!Init, C!Lightbars!NoLightbars
<1>2. Lightbars!Refuse => C!Lightbars!Refuse
  BY DEF Lightbars!Refuse, Lightbars!NoLightbars, C!Lightbars!Refuse,
         C!Lightbars!NoLightbars
<1>3. Lightbars!ChooseThreshold => C!Lightbars!ChooseThreshold
  BY DEF Lightbars!ChooseThreshold, Lightbars!Clamped, C!Lightbars!ChooseThreshold,
         C!Lightbars!Clamped
<1>4. Lightbars!FindContours => C!Lightbars!FindContours
  BY DEF Lightbars!FindContours, Lightbars!Contour, C!Lightbars!FindContours,
         C!Lightbars!Contour
<1>5. Lightbars!FilterContour => C!Lightbars!FilterContour
  BY DEF Lightbars!FilterContour, Lightbars!Accepted, Lightbars!Lightbar,
         C!Lightbars!FilterContour, C!Lightbars!Accepted, C!Lightbars!Lightbar
<1>6. Lightbars!EndFilter => C!Lightbars!EndFilter
  BY DEF Lightbars!EndFilter, C!Lightbars!EndFilter
<1>7. Lightbars!Return => C!Lightbars!Return
  BY DEF Lightbars!Return, Lightbars!ByScore, Lightbars!Range, Lightbars!Numbered,
         Lightbars!Cut, C!Lightbars!Return, C!Lightbars!ByScore, C!Lightbars!Range,
         C!Lightbars!Numbered, C!Lightbars!Cut
<1>8. Lightbars!Throw => C!Lightbars!Throw
  BY DEF Lightbars!Throw, Lightbars!NoLightbars, C!Lightbars!Throw, C!Lightbars!NoLightbars
<1>9. C!Lightbars!BestLightbarsAreNumbered => Lightbars!BestLightbarsAreNumbered
  BY DEF Lightbars!BestLightbarsAreNumbered, Lightbars!Cut, Lightbars!Cardinality,
         C!Lightbars!BestLightbarsAreNumbered, C!Lightbars!Cut, C!Lightbars!Cardinality
<1>10. [Lightbars!Next]_Lightbars!vars => [C!Lightbars!Next]_C!Lightbars!vars
  BY <1>2, <1>3, <1>4, <1>5, <1>6, <1>7, <1>8
     DEF Lightbars!Next, Lightbars!vars, C!Lightbars!Next, C!Lightbars!vars
<1> QED BY <1>1, <1>9, <1>10

LEMMA TruthIsTheComponent ==
  /\ Truth!Init => A!Truth!Init
  /\ [Truth!Next]_Truth!vars => [A!Truth!Next]_A!Truth!vars
  /\ A!Truth!MatchingIsOptimal => Truth!MatchingIsOptimal
  /\ A!Truth!PlacesAreProved => Truth!PlacesAreProved
<1>1. Truth!Init => A!Truth!Init
  BY DEF Truth!Init, Truth!Problems, Truth!Forbidden, Truth!Rows, Truth!Columns,
         Truth!Reached, A!Truth!Init, A!Truth!Problems, A!Truth!Forbidden, A!Truth!Rows,
         A!Truth!Columns, A!Truth!Reached
<1>2. Truth!StartRow => A!Truth!StartRow
  BY DEF Truth!StartRow, Truth!Begin, Truth!Columns, Truth!Infinity, A!Truth!StartRow,
         A!Truth!Begin, A!Truth!Columns, A!Truth!Infinity
<1>3. Truth!Grow => A!Truth!Grow
  BY DEF Truth!Grow, Truth!Rows, Truth!Columns, Truth!Reached, Truth!CostOf,
         Truth!Unmatched, Truth!Nearest, Truth!Lowered, A!Truth!Grow, A!Truth!Rows,
         A!Truth!Columns, A!Truth!Reached, A!Truth!CostOf, A!Truth!Unmatched,
         A!Truth!Nearest, A!Truth!Lowered
<1>4. Truth!Flip => A!Truth!Flip
  BY DEF Truth!Flip, A!Truth!Flip
<1>5. A!Truth!MatchingIsOptimal => Truth!MatchingIsOptimal
  BY DEF Truth!MatchingIsOptimal, Truth!Matches, Truth!Matchings, Truth!Total, Truth!Rows,
         Truth!CostOf, Truth!Unmatched, Truth!MapThenSumSet, Truth!MapThenFoldSet,
         Truth!Cardinality, A!Truth!MatchingIsOptimal, A!Truth!Matches, A!Truth!Matchings,
         A!Truth!Total, A!Truth!Rows, A!Truth!CostOf, A!Truth!Unmatched,
         A!Truth!MapThenSumSet, A!Truth!MapThenFoldSet, A!Truth!Cardinality
<1>6. A!Truth!PlacesAreProved => Truth!PlacesAreProved
  BY DEF Truth!PlacesAreProved, Truth!Columns, Truth!CostOf, Truth!Unmatched,
         A!Truth!PlacesAreProved, A!Truth!Columns, A!Truth!CostOf, A!Truth!Unmatched
<1>7. [Truth!Next]_Truth!vars => [A!Truth!Next]_A!Truth!vars
  BY <1>2, <1>3, <1>4 DEF Truth!Next, Truth!vars, A!Truth!Next, A!Truth!vars
<1> QED BY <1>1, <1>5, <1>6, <1>7

LEMMA EvaluatorIsTheComponent ==
  /\ Evaluator!Init => C!Evaluator!Init
  /\ [Evaluator!Next]_Evaluator!vars => [C!Evaluator!Next]_C!Evaluator!vars
  /\ C!Evaluator!JitterIsBetweenNeighbours => Evaluator!JitterIsBetweenNeighbours
  /\ C!Evaluator!SummaryIsOfItsFrame => Evaluator!SummaryIsOfItsFrame
  BY DEF Evaluator!Key, Evaluator!Candidates, Evaluator!vars, Evaluator!Never,
         Evaluator!Visible, Evaluator!Poses, Evaluator!Detections, Evaluator!Pose,
         Evaluator!Strays, C!Evaluator!Strays, Evaluator!Armor, Evaluator!Consecutive, Evaluator!RecordAttempts,
         Evaluator!Counted, Evaluator!PopulateSnapshot, Evaluator!Evaluate,
         Evaluator!EvaluationThrows, Evaluator!EvaluateFrame, Evaluator!Init,
         Evaluator!Next, Evaluator!JitterIsBetweenNeighbours, Evaluator!SummaryIsOfItsFrame,
         Evaluator!Cardinality, C!Evaluator!Key, C!Evaluator!Candidates, C!Evaluator!vars,
         C!Evaluator!Never, C!Evaluator!Visible, C!Evaluator!Poses, C!Evaluator!Detections,
         C!Evaluator!Pose, C!Evaluator!Armor, C!Evaluator!Consecutive,
         C!Evaluator!RecordAttempts, C!Evaluator!Counted, C!Evaluator!PopulateSnapshot,
         C!Evaluator!Evaluate, C!Evaluator!EvaluationThrows, C!Evaluator!EvaluateFrame,
         C!Evaluator!Init, C!Evaluator!Next, C!Evaluator!JitterIsBetweenNeighbours,
         C!Evaluator!SummaryIsOfItsFrame, C!Evaluator!Cardinality

\* A step is one of the program that runs, or leaves its variables alone.
LEMMA ProgramGoesOn ==
  ASSUME [Next]_vars
  PROVE  /\ program' = program
         /\ program = "web" => [Web!Next]_Web!vars
         /\ program = "reload" => [Reload!Next]_Reload!vars
         /\ program = "sink" => [Sink!Next]_Sink!vars
         /\ program = "application" => [App!Next]_App!vars
         /\ program = "intrinsic" => [Intrinsic!Next]_Intrinsic!vars
         /\ program = "extrinsic" => [Extrinsic!Next]_Extrinsic!vars
         /\ program = "handeye" => [Handeye!Next]_Handeye!vars
         /\ program = "estimator" => [Estimator!Next]_Estimator!vars
         /\ program = "mindvision" => [MindVision!Next]_MindVision!vars
         /\ program = "detector" => [Detector!Next]_Detector!vars
         /\ program = "corners" => [Corners!Next]_Corners!vars
         /\ program = "lightbars" => [Lightbars!Next]_Lightbars!vars
         /\ program = "truth" => [Truth!Next]_Truth!vars
         /\ program = "evaluator" => [Evaluator!Next]_Evaluator!vars
<1>1. CASE UNCHANGED vars
  BY <1>1 DEF vars, Of10, Of9, Of7, Web!vars, Reload!vars, Sink!vars, App!vars,
              Intrinsic!vars, Extrinsic!vars, Handeye!vars, Estimator!vars,
              MindVision!vars, Detector!vars, Corners!vars, Lightbars!vars, Truth!vars,
              Evaluator!vars
<1>2. CASE Next
  BY <1>2 DEF Next
<1> QED BY <1>1, <1>2

-----------------------------------------------------------------------------
(* The theorems. *)

\* No page overwrites what it has not seen, and the revision that is reported is the one
\* that frames go through: for every number of tabs and of edits (vision_tuning.cpp).
THEOREM WebEditsAreKept == FairSpec => []WebKeepsEdits
<1> DEFINE Inv == program = "web" => C!WebInv
<1>1. Init => Inv
  BY WebIsTheComponent, C!WebInit DEF Init
<1>2. Inv /\ [Next]_vars => Inv'
  BY WebIsTheComponent, ProgramGoesOn, C!WebStep
<1>3. Inv => WebKeepsEdits
  BY WebIsTheComponent, C!WebInvIsKept DEF WebKeepsEdits
<1> QED BY <1>1, <1>2, <1>3, PTL DEF FairSpec

\* As long as no file is saved twice between two of its readings, the gimbal follows a set
\* of files that was on disk as a whole, and it never integrates across a break: for every
\* number of saves (gimbal_tuning_reload.cpp, pid_rate_controller.cpp).
THEOREM GimbalIsTuned == FairSpec => []PidIsTuned
<1> DEFINE Inv == program = "reload" => C!ReloadInv
<1>1. Init => Inv
  BY ReloadIsTheComponent, C!ReloadInit DEF Init
<1>2. Inv /\ [Next]_vars => Inv'
  BY ReloadIsTheComponent, ProgramGoesOn, C!ReloadStep
<1>3. Inv => PidIsTuned
  BY ReloadIsTheComponent, C!ReloadInvIsTuned DEF PidIsTuned
<1> QED BY <1>1, <1>2, <1>3, PTL DEF FairSpec

\* Commands and states cross the shared memory whole and a sink that was closed in order
\* leaves a stop: for every number of commands and states (talos_command_sink.cpp).
THEOREM SharedMemoryIsSound == FairSpec => []SinkIsSound
<1> DEFINE Inv == program = "sink" => C!IInv
<1>1. Init => Inv
  BY SinkIsTheComponent, C!InitIInv DEF Init
<1>2. Inv /\ [Next]_vars => Inv'
  BY SinkIsTheComponent, ProgramGoesOn, C!NextStep
<1>3. Inv => SinkIsSound
  BY SinkIsTheComponent, C!IInvIsSound DEF SinkIsSound
<1> QED BY <1>1, <1>2, <1>3, PTL DEF FairSpec

\* Whatever fails or ends at whichever stage, no thread outlives an object that its code
\* reaches, and none is left behind (main.cpp).
THEOREM ThreadsAreJoined == FairSpec => []ThreadsHaveTheirMeans
<1> DEFINE Inv == program = "application" => C!AppInv
<1>1. Init => Inv
  BY AppIsTheComponent, C!AppInit DEF Init
<1>2. Inv /\ [Next]_vars => Inv'
  BY AppIsTheComponent, ProgramGoesOn, C!AppStep
<1>3. Inv => ThreadsHaveTheirMeans
  BY AppIsTheComponent, C!AppInvIsSound DEF ThreadsHaveTheirMeans
<1> QED BY <1>1, <1>2, <1>3, PTL DEF FairSpec

\* The invariants of the calibrations, of which those of the solves and of the recordings
\* are parts.
CalibrationInv ==
  /\ program = "intrinsic" => C!IntrinsicsInv
  /\ program = "extrinsic" => C!ExtrinsicsInv
  /\ program = "handeye" => C!HandeyeInv

LEMMA CalibrationInit == Init => CalibrationInv
  BY IntrinsicIsTheComponent, ExtrinsicIsTheComponent, HandeyeIsTheComponent,
     C!IntrinsicsInit, C!ExtrinsicsInit, C!HandeyeInit
     DEF Init, CalibrationInv

\* The frames that the simulator may send are stamped with integers.
LEMMA FramesAreStamped == C!Stamped
  BY DEF C!Stamped, SimulatorFrame

LEMMA CalibrationStep ==
  ASSUME CalibrationInv, [Next]_vars
  PROVE  CalibrationInv' /\ (program = "intrinsic" => Intrinsic!KeepsPictures)
<1>1. program' = program
  BY ProgramGoesOn
<1>2. CASE program = "intrinsic"
  <2>1. C!IntrinsicsInv /\ [C!Intrinsic!Next]_C!Intrinsic!vars
    BY <1>2, ProgramGoesOn, IntrinsicIsTheComponent DEF CalibrationInv
  <2>2. C!IntrinsicsInv' /\ C!Intrinsic!KeepsPictures
    BY <2>1, C!IntrinsicsStep
  <2> QED BY <1>1, <1>2, <2>2, IntrinsicIsTheComponent DEF CalibrationInv
<1>3. CASE program = "extrinsic"
  <2>1. C!ExtrinsicsInv /\ [C!Extrinsic!Next]_C!Extrinsic!vars
    BY <1>3, ProgramGoesOn, ExtrinsicIsTheComponent DEF CalibrationInv
  <2>2. C!ExtrinsicsInv'
    BY <2>1, FramesAreStamped, C!ExtrinsicsStep
  <2> QED BY <1>1, <1>3, <2>2 DEF CalibrationInv
<1>4. CASE program = "handeye"
  <2>1. C!HandeyeInv /\ [C!Handeye!Next]_C!Handeye!vars
    BY <1>4, ProgramGoesOn, HandeyeIsTheComponent DEF CalibrationInv
  <2>2. C!HandeyeInv'
    BY <2>1, C!HandeyeStep
  <2> QED BY <1>1, <1>4, <2>2 DEF CalibrationInv
<1> QED BY <1>1, <1>2, <1>3, <1>4 DEF CalibrationInv

\* Nothing is on disk as solved that was not reviewed to the end, or came from too few
\* samples, whatever write fails and wherever a process is killed: for every number of
\* samples demanded and taken (calibration.cpp, extrinsic_solve_application.cpp,
\* handeye_application.cpp).
THEOREM OnlyEarnedIsSolved == FairSpec => []CalibrationsAreEarned
<1>1. CalibrationInv => CalibrationsAreEarned
  BY IntrinsicIsTheComponent, ExtrinsicIsTheComponent, HandeyeIsTheComponent,
     C!ExtrinsicInvIsSound
     DEF CalibrationInv, CalibrationsAreEarned, C!IntrinsicsInv, C!IntrinsicInv, C!ExtrinsicsInv,
         C!HandeyeInv, C!CandidateInv
<1> QED BY <1>1, CalibrationInit, CalibrationStep, PTL DEF FairSpec

\* What a manifest lists is on disk as it was taken, and no picture of an intrinsic session
\* is lost: for every number of samples (extrinsic_capture_application.cpp,
\* handeye_application.cpp, calibration.cpp).
THEOREM RecordingsStayWhole == FairSpec => RecordingsAreWhole
<1> DEFINE Whole == /\ program = "extrinsic" => Extrinsic!SessionsAreWhole
                    /\ program = "handeye" => Handeye!PairsAreTrue
           Kept == program = "intrinsic" => Intrinsic!KeepsPictures
<1>1. CalibrationInv => Whole
  BY ExtrinsicIsTheComponent, HandeyeIsTheComponent, C!SessionInvIsWhole,
     C!PairsAreTrueFollows
     DEF CalibrationInv, C!ExtrinsicsInv, C!HandeyeInv
<1>2. CalibrationInv /\ [Next]_vars => CalibrationInv' /\ [Kept]_vars
  BY CalibrationStep
<1>3. RecordingsAreWhole <=> []Whole /\ [][Kept]_vars
  BY DEF RecordingsAreWhole
<1> HIDE DEF Whole, Kept
<1> QED BY <1>1, <1>2, <1>3, CalibrationInit, PTL DEF FairSpec

\* The estimator's state is from the source the diagnostics name, no older than it may be
\* and of this round, its yaw is unwrapped and frames go forward: for every odd number of
\* directions, every age, and every number of rounds (gimbal_feedback_estimator.cpp).
THEOREM SourcesAreNamed == FairSpec => FeedbackIsOfItsSource
<1> DEFINE Inv == program = "estimator" => C!EstimatorInv
           Sound == program = "estimator" =>
                      /\ Estimator!SourceIsTheStates
                      /\ Estimator!RuntimeIsFresh
                      /\ Estimator!ProjectionIsTheSessions
           GoesOn == program = "estimator" => Estimator!UnwrapsYaw /\ Estimator!GoesForward
<1>1. C!TurnIsOdd
  <2>1. Turn = 2 * (Turn \div 2) + 1 /\ Turn \div 2 \in Nat /\ Turn \in Nat
    BY TurnAssumption
  <2> QED BY <2>1 DEF C!TurnIsOdd, C!Estimator!Half
<1>2. Init => Inv
  BY EstimatorIsTheComponent, C!EstimatorInit DEF Init
<1>3. Inv /\ [Next]_vars => Inv' /\ [GoesOn]_vars
  <2> SUFFICES ASSUME Inv, [Next]_vars PROVE Inv' /\ GoesOn
    OBVIOUS
  <2>1. program' = program
    BY ProgramGoesOn
  <2>2. CASE program = "estimator"
    <3>1. C!EstimatorInv /\ [C!Estimator!Next]_C!Estimator!vars
      BY <2>2, ProgramGoesOn, EstimatorIsTheComponent
    <3>2. C!EstimatorInv' /\ C!Estimator!UnwrapsYaw /\ C!Estimator!GoesForward
      BY <1>1, <3>1, C!EstimatorStep DEF C!YawGoesOn
    <3> QED BY <2>1, <2>2, <3>2, EstimatorIsTheComponent
  <2> QED BY <2>1, <2>2
<1>4. Inv => Sound
  BY EstimatorIsTheComponent, C!EstimatorInvIsSound
<1>5. FeedbackIsOfItsSource <=> []Sound /\ [][GoesOn]_vars
  BY DEF FeedbackIsOfItsSource
<1> HIDE DEF Inv, Sound, GoesOn
<1> QED BY <1>2, <1>3, <1>4, <1>5, PTL DEF FairSpec

\* The times at which frames are said to be captured rise from frame to frame and never
\* pass the reception, whatever the ticks, the latencies and the offsets that are kept
\* (mindvision_device.cpp).
THEOREM TimesRise == FairSpec => CaptureTimesRise
<1> DEFINE Inv == program = "mindvision" => C!ClockInv
           Rises == program = "mindvision" => MindVision!StampRises
<1>1. C!ClockCounts
  BY ClockAssumption DEF C!ClockCounts
<1>2. Init => Inv
  BY MindVisionIsTheComponent, C!ClockInit DEF Init
<1>3. Inv /\ [Next]_vars => Inv' /\ [Rises]_vars
  <2> SUFFICES ASSUME Inv, [Next]_vars PROVE Inv' /\ Rises
    OBVIOUS
  <2>1. program' = program
    BY ProgramGoesOn
  <2>2. CASE program = "mindvision"
    <3>1. C!ClockInv /\ [C!MindVision!Next]_C!MindVision!vars
      BY <2>2, ProgramGoesOn, MindVisionIsTheComponent
    <3>2. C!ClockInv' /\ C!MindVision!StampRises
      BY <1>1, <3>1, C!ClockStep
    <3> QED BY <2>1, <2>2, <3>2, MindVisionIsTheComponent
  <2> QED BY <2>1, <2>2
<1>4. CaptureTimesRise <=> [][Rises]_vars
  BY DEF CaptureTimesRise
<1> HIDE DEF Inv, Rises
<1> QED BY <1>2, <1>3, <1>4, PTL DEF FairSpec

FrontEndInv ==
  /\ program = "detector" => C!DetectorInv
  /\ program = "corners" => C!CornersInv
  /\ program = "lightbars" => C!BarsInv

LEMMA FrontEndIsCounted == C!ImageHasSize /\ C!BrightnessIsCounted /\ C!ScoresAreNumbers
<1>1. C!ImageHasSize
  BY FrontEndAssumption DEF C!ImageHasSize
<1>2. C!BrightnessIsCounted
  BY FrontEndAssumption DEF C!BrightnessIsCounted
<1>3. C!ScoresAreNumbers
  <2>1. \A d, a \in Int : d * a \in Int
    OBVIOUS
  <2> QED BY <2>1, FrontEndAssumption DEF C!ScoresAreNumbers
<1> QED BY <1>1, <1>2, <1>3

LEMMA FrontEndInit == Init => FrontEndInv
  BY FrontEndIsCounted, DetectorIsTheComponent, CornersIsTheComponent,
     LightbarsIsTheComponent, C!DetectorInit, C!CornersInit, C!BarsInit
     DEF Init, FrontEndInv

LEMMA FrontEndStep ==
  ASSUME FrontEndInv, [Next]_vars
  PROVE  FrontEndInv'
<1>1. program' = program
  BY ProgramGoesOn
<1>2. CASE program = "detector"
  <2>1. C!DetectorInv /\ [C!Detector!Next]_C!Detector!vars
    BY <1>2, ProgramGoesOn, DetectorIsTheComponent DEF FrontEndInv
  <2>2. C!DetectorInv'
    BY <2>1, FrontEndIsCounted, C!DetectorStep
  <2> QED BY <1>1, <1>2, <2>2 DEF FrontEndInv
<1>3. CASE program = "corners"
  <2>1. C!CornersInv /\ [C!Corners!Next]_C!Corners!vars
    BY <1>3, ProgramGoesOn, CornersIsTheComponent DEF FrontEndInv
  <2>2. C!CornersInv'
    BY <2>1, FrontEndIsCounted, C!CornersStep
  <2> QED BY <1>1, <1>3, <2>2 DEF FrontEndInv
<1>4. CASE program = "lightbars"
  <2>1. C!BarsInv /\ [C!Lightbars!Next]_C!Lightbars!vars
    BY <1>4, ProgramGoesOn, LightbarsIsTheComponent DEF FrontEndInv
  <2>2. C!BarsInv'
    BY <2>1, FrontEndIsCounted, C!BarsStep
  <2> QED BY <1>1, <1>4, <2>2 DEF FrontEndInv
<1> QED BY <1>1, <1>2, <1>3, <1>4 DEF FrontEndInv

\* What the front end hands on are the armors and bars of the picture, each once and the
\* best first, with corners of one kind at the steepest drops: for every picture, number of
\* rows and of contours, and every scan line (armor_detector_postprocess.cpp,
\* armor_corner_refiner.cpp, armor_light_detector.cpp).
THEOREM FrontEndIsTrue == FairSpec => []FrontEndIsSound
<1>1. FrontEndInv => FrontEndIsSound
  <2> SUFFICES ASSUME FrontEndInv PROVE FrontEndIsSound
    OBVIOUS
  <2>1. program = "detector" =>
          Detector!ArmorsAreDetectedOnce /\ Detector!DetectionsAreInTheImage
    BY C!DetectorInvIsSound, DetectorIsTheComponent DEF FrontEndInv
  <2>2. program = "corners" => Corners!CornersAreOfOneKind /\ Corners!EdgesAreTheSteepest
    BY C!CornersInvIsSound, CornersIsTheComponent DEF FrontEndInv
  <2>3. program = "lightbars" => Lightbars!BestLightbarsAreNumbered
    BY LightbarsIsTheComponent DEF FrontEndInv, C!BarsInv
  <2> QED BY <2>1, <2>2, <2>3 DEF FrontEndIsSound
<1> QED BY <1>1, FrontEndInit, FrontEndStep, PTL DEF FairSpec

EvaluationInv ==
  /\ program = "truth" => A!TruthInv
  /\ program = "evaluator" => C!EvaluatorInv

LEMMA CostsAreNumbers == A!TruthBounds
  BY DEF A!TruthBounds

LEMMA EvaluationInit == Init => EvaluationInv
<1> SUFFICES ASSUME Init PROVE EvaluationInv
  OBVIOUS
<1>1. CASE program = "truth"
  <2>1. A!Truth!Init
    BY <1>1, TruthIsTheComponent DEF Init
  <2> QED BY <1>1, <2>1, CostsAreNumbers, A!MatchingInit DEF EvaluationInv
<1>2. CASE program = "evaluator"
  <2>1. C!Evaluator!Init
    BY <1>2, EvaluatorIsTheComponent DEF Init
  <2> QED BY <1>2, <2>1, C!EvaluatorInit DEF EvaluationInv
<1> QED BY <1>1, <1>2 DEF EvaluationInv

LEMMA EvaluationStep ==
  ASSUME EvaluationInv, [Next]_vars
  PROVE  EvaluationInv'
<1>1. program' = program
  BY ProgramGoesOn
<1>2. CASE program = "truth"
  <2>1. A!TruthInv /\ [A!Truth!Next]_A!Truth!vars
    BY <1>2, ProgramGoesOn, TruthIsTheComponent DEF EvaluationInv
  <2>2. A!TruthInv'
    BY <2>1, CostsAreNumbers, A!MatchingStep
  <2> QED BY <1>1, <1>2, <2>2 DEF EvaluationInv
<1>3. CASE program = "evaluator"
  <2>1. C!EvaluatorInv /\ [C!Evaluator!Next]_C!Evaluator!vars
    BY <1>3, ProgramGoesOn, EvaluatorIsTheComponent DEF EvaluationInv
  <2>2. C!EvaluatorInv'
    BY <2>1, C!EvaluatorStep
  <2> QED BY <1>1, <1>3, <2>2 DEF EvaluationInv
<1> QED BY <1>1, <1>2, <1>3 DEF EvaluationInv

\* Detections get the true armours that cost least, and jitter and summary are of the frames
\* they are said to be of, whatever throws in between (simulation_evaluator.cpp).
THEOREM EvaluationsAreTrue == FairSpec => []EvaluationIsTrue
<1>1. EvaluationInv => EvaluationIsTrue
  <2> SUFFICES ASSUME EvaluationInv PROVE EvaluationIsTrue
    OBVIOUS
  <2>1. program = "truth" => Truth!MatchingIsOptimal /\ Truth!PlacesAreProved
    BY CostsAreNumbers, A!TruthInvIsSound, TruthIsTheComponent DEF EvaluationInv
  <2>2. program = "evaluator" =>
          Evaluator!JitterIsBetweenNeighbours /\ Evaluator!SummaryIsOfItsFrame
    BY C!EvaluatorInvIsSound, EvaluatorIsTheComponent DEF EvaluationInv
  <2> QED BY <2>1, <2>2 DEF EvaluationIsTrue
<1> QED BY <1>1, EvaluationInit, EvaluationStep, PTL DEF FairSpec
=============================================================================
