--------------------------- MODULE RuntimeSupervisor ---------------------------
(***************************************************************************)
(* RuntimeSupervisor: the health record of every component and the first   *)
(* terminal fault.  Every operation holds the supervisor's mutex from      *)
(* beginning to end, so each is one function from state to state; the      *)
(* threads that call them are in VisionControl.                            *)
(***************************************************************************)
EXTENDS Integers

CONSTANTS
  CameraTimeout,    \* camera.no_valid_frame_timeout_ms
  SinkTimeout,      \* control.command_sink_unhealthy_timeout_ms
  WaitForRecovery,  \* control.command_sink_wait_for_recovery
  DisableAfter      \* optional_components.*_disable_after_consecutive_errors

\* runtime_error_policy.cpp 45-50.
ASSUME PolicyAssumption ==
  /\ CameraTimeout \in Nat \ {0}
  /\ SinkTimeout \in Nat \ {0}
  /\ WaitForRecovery \in BOOLEAN
  /\ DisableAfter \in Nat \ {0}

Never == -1
Time == Nat \cup {Never}

CameraGlitches == {"CAMERA_TIMEOUT", "CAMERA_INVALID_FRAME"}
CameraFailures == {"CAMERA_DISCONNECTED", "CAMERA_FATAL"}
PipelineFailures == {"VISION_PIPELINE_EXCEPTION"}
ControlFailures == {"CONTROL_UPDATE_EXCEPTION", "CONTROL_THREAD_EXCEPTION"}
SinkFaults == {"COMMAND_SINK_UNHEALTHY", "COMMAND_SEND_FAILED"}
EvaluationFaults == {"EVALUATION_INIT_FAILURE", "EVALUATION_EXCEPTION"}
WindowFaults == {"DEBUG_WINDOW_INIT_FAILURE", "DEBUG_WINDOW_EXCEPTION"}
DiagnosticsFaults ==
  {"DIAGNOSTICS_INIT_FAILURE", "DIAGNOSTICS_UNAVAILABLE", "DIAGNOSTICS_EXCEPTION"}

Codes == CameraGlitches \cup CameraFailures \cup PipelineFailures \cup ControlFailures
           \cup SinkFaults \cup EvaluationFaults \cup WindowFaults \cup DiagnosticsFaults

Components == {"CAMERA", "VISION_PIPELINE", "CONTROL_RUNTIME", "COMMAND_SINK",
               "SIMULATION_EVALUATION", "DEBUG_WINDOW", "DIAGNOSTICS"}

Reasons == {"CAMERA_FAILURE", "PIPELINE_FAILURE", "CONTROL_FAILURE"}

ComponentOf(code) ==
  CASE code \in CameraGlitches \cup CameraFailures -> "CAMERA"
    [] code \in PipelineFailures  -> "VISION_PIPELINE"
    [] code \in ControlFailures   -> "CONTROL_RUNTIME"
    [] code \in SinkFaults        -> "COMMAND_SINK"
    [] code \in EvaluationFaults  -> "SIMULATION_EVALUATION"
    [] code \in WindowFaults      -> "DEBUG_WINDOW"
    [] code \in DiagnosticsFaults -> "DIAGNOSTICS"

\* The consecutive count is compared with DisableAfter for the optional parts only:
\* it is kept for them, and saturates just above DisableAfter.
ComponentState ==
  [health : {"HEALTHY", "DEGRADED", "FAILED"}, active : BOOLEAN,
   lastHealthy : Time, firstSeen : Time, consecutive : 0 .. (DisableAfter + 1)]

FreshComponent ==
  [health |-> "HEALTHY", active |-> FALSE, lastHealthy |-> Never,
   firstSeen |-> Never, consecutive |-> 0]

\* terminal is {} until the first terminal fault is latched.
Fault == [component : Components, code : Codes, firstSeen : Time]
Supervisor == [component : [Components -> ComponentState], terminal : SUBSET Fault]

FreshSupervisor ==
  [component |-> [c \in Components |-> FreshComponent], terminal |-> {}]

-----------------------------------------------------------------------------
(* ReportAt. *)

Counted(code) == code \in EvaluationFaults \cup WindowFaults

\* A fault that follows another one keeps the instant the run of faults began.
Entered(c, code, t) ==
  IF ~c.active
  THEN [c EXCEPT !.active = TRUE, !.health = "DEGRADED", !.firstSeen = t,
                 !.consecutive = IF Counted(code) THEN 1 ELSE 0]
  ELSE [c EXCEPT !.consecutive = IF Counted(code) /\ @ <= DisableAfter THEN @ + 1 ELSE @]

\* Since when the component has been bad.
BadSince(c) == IF c.lastHealthy # Never THEN c.lastHealthy ELSE c.firstSeen

\* The wait for a serial link's recovery also silences the camera.
Terminates_IgnoresCamera(code, c, t) ==
  \/ code \in CameraFailures \cup PipelineFailures \cup ControlFailures
  \/ code \in SinkFaults /\ ~WaitForRecovery /\ t - BadSince(c) >= SinkTimeout

\* c is the component with the reported fault already entered.
Terminates(code, c, t) ==
  \/ code \in CameraFailures \cup PipelineFailures \cup ControlFailures
  \/ code \in CameraGlitches /\ t - BadSince(c) >= CameraTimeout
  \/ code \in SinkFaults /\ ~WaitForRecovery /\ t - BadSince(c) >= SinkTimeout

Disables(code, c) ==
  /\ Counted(code)
  /\ \/ code \in {"EVALUATION_INIT_FAILURE", "DEBUG_WINDOW_INIT_FAILURE"}
     \/ c.consecutive = DisableAfter

RequestsSafeStop(code, c, t) ==
  \/ code \in SinkFaults
  \/ Terminates(code, c, t)

\* Only the first terminal fault is kept.
Latched(sup, code, c, t) ==
  IF sup.terminal = {} /\ Terminates(code, c, t)
  THEN {[component |-> ComponentOf(code), code |-> code, firstSeen |-> c.firstSeen]}
  ELSE sup.terminal

\* The component as ReportAt sees it when it decides.
Reported(sup, code, t) == Entered(sup.component[ComponentOf(code)], code, t)

Report(sup, code, t) ==
  LET c == Reported(sup, code, t)
  IN [component |-> [sup.component EXCEPT ![ComponentOf(code)] =
                       IF Terminates(code, c, t) THEN [c EXCEPT !.health = "FAILED"] ELSE c],
      terminal |-> Latched(sup, code, c, t)]

\* The decision Report returns with its new state.
Decision(sup, code, t) ==
  LET c == Reported(sup, code, t)
  IN [safeStop |-> RequestsSafeStop(code, c, t),
      terminate |-> Terminates(code, c, t),
      disable |-> Disables(code, c)]

-----------------------------------------------------------------------------
(* RecoverAt. *)

\* A healthy observation of a healthy component is not dated.
Recovered_Undated(c, t) ==
  IF ~c.active THEN c
  ELSE IF c.health = "FAILED" THEN [c EXCEPT !.lastHealthy = t]
  ELSE [c EXCEPT !.lastHealthy = t, !.active = FALSE, !.health = "HEALTHY"]

\* A failed component stays failed.
Recovered(c, t) ==
  IF ~c.active \/ c.health = "FAILED"
  THEN [c EXCEPT !.lastHealthy = t]
  ELSE [c EXCEPT !.lastHealthy = t, !.active = FALSE, !.health = "HEALTHY"]

Recover(sup, component, t) ==
  [sup EXCEPT !.component[component] = Recovered(@, t)]

-----------------------------------------------------------------------------
(* Snapshot and TerminalResult. *)

Overall(sup) ==
  IF sup.terminal # {} THEN "FAILED"
  ELSE IF \E c \in Components : sup.component[c].active THEN "DEGRADED"
  ELSE "HEALTHY"

ReasonOf(component) ==
  CASE component = "CAMERA"                             -> "CAMERA_FAILURE"
    [] component = "VISION_PIPELINE"                    -> "PIPELINE_FAILURE"
    [] component \in {"CONTROL_RUNTIME", "COMMAND_SINK"} -> "CONTROL_FAILURE"

\* {} while there is no terminal fault.
TerminalReason(sup) == {ReasonOf(f.component) : f \in sup.terminal}
=============================================================================
