--------------------------- MODULE MCVisionControl ---------------------------
(***************************************************************************)
(* Instances of VisionControl, side by side in one state graph: a run with *)
(* a control thread that gives an unhealthy sink up (the constants of the  *)
(* configuration), one that waits for it to recover, and one without a     *)
(* sink but with every optional part, in which no time passes.             *)
(***************************************************************************)
EXTENDS VisionControl

VARIABLE deployment   \* which of the three runs

mcvars == <<vars, deployment>>

Waiting == INSTANCE VisionControl WITH WaitForRecovery <- TRUE

Optional == INSTANCE VisionControl WITH
  HasControl <- FALSE, HasWindow <- TRUE, HasEvaluator <- TRUE,
  HasDiagnostics <- TRUE

MCInit ==
  \/ deployment = "strict" /\ Init
  \/ deployment = "waiting" /\ Waiting!Init
  \/ deployment = "optional" /\ Optional!Init

MCVision ==
  /\ \/ deployment = "strict" /\ VisionStep
     \/ deployment = "waiting" /\ Waiting!VisionStep
     \/ deployment = "optional" /\ Optional!VisionStep
  /\ UNCHANGED deployment

MCControl ==
  /\ \/ deployment = "strict" /\ ControlStep
     \/ deployment = "waiting" /\ Waiting!ControlStep
  /\ UNCHANGED deployment

MCEnvironment == (Signal \/ (deployment # "optional" /\ Tick)) /\ UNCHANGED deployment

MCSpec ==
  /\ MCInit /\ [][MCVision \/ MCControl \/ MCEnvironment]_mcvars
  /\ WF_mcvars(MCVision) /\ WF_mcvars(MCControl)

\* Both threads scheduled, a run ends that must: after a terminal fault or a stop request,
\* and when the camera stays silent (see VisionControl).
RunsEnd == FaultsEndTheRun /\ SilentCameraEndsTheRun
=============================================================================
