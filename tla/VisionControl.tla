----------------------------- MODULE VisionControl -----------------------------
(***************************************************************************)
(* The two threads of a run and what they share: the vision thread         *)
(* (VisionRuntime::Run, then the destructors of app/main.cpp), the 100 Hz  *)
(* control thread (ControlRuntimeImpl::Loop), the supervisor, the running  *)
(* flag, the latest snapshot and the command sink.  A step is what a       *)
(* thread does between two touches of shared state.                        *)
(*                                                                         *)
(* What a camera, a pipeline, a sink, a window or the control session does *)
(* is any of its possible outcomes; that a session emits nothing but stops *)
(* over an unhealthy sink is ControlSession's FireIsGated and TransportGate. *)
(***************************************************************************)
EXTENDS RuntimeSupervisor

CONSTANTS
  HasControl,      \* the backend has a command sink (talos, mindvision)
  HasWindow,       \* the debug window was opened
  HasEvaluator,    \* the simulation evaluator was created
  HasDiagnostics,  \* a diagnostics sink is configured
  MaxTime          \* bound: the last instant the clock reaches

ASSUME RuntimeAssumption ==
  /\ {HasControl, HasWindow, HasEvaluator, HasDiagnostics} \subseteq BOOLEAN
  /\ MaxTime \in Nat

VARIABLES
  now,       \* the steady clock
  sup,       \* the supervisor's state
  vision,    \* the main thread
  control,   \* the control thread and its running flag
  snapshot,  \* a control snapshot was published
  wire,      \* the last command handed to the sink
  stopping,  \* SIGINT or SIGTERM was received
  outcome,   \* the termination reason, {} until Run has returned
  hist       \* history: when the camera and the sink were last good, when the
             \* terminal fault was latched, failures in a row of the optional parts

vars == <<now, sup, vision, control, snapshot, wire, stopping, outcome, hist>>

Outcomes == Reasons \cup {"NORMAL"}
Commands == {"STOP", "AIM", "FIRE"}

\* fallback: the reason STOP_WITH_TERMINAL would give without a terminal fault;
\* answer: the terminal reason read before the control thread is stopped.
Vision ==
  [pc : {"start", "startFailed", "begin", "head", "terminal", "grab", "process", "update",
         "evaluate", "log", "publish", "show", "poll", "stop", "join", "answer",
         "exit", "exitJoin", "done"},
   fallback : Reasons, answer : SUBSET Reasons, windowFailed : BOOLEAN,
   window : BOOLEAN, evaluator : BOOLEAN]

\* now: when the cycle began; loaded: the cycle found a snapshot; healthy, sent:
\* what it saw of the sink.
Control ==
  [pc : {"none", "head", "health", "act", "observe", "safeStop", "caught", "report", "ended"},
   running : BOOLEAN, now : Nat, loaded : BOOLEAN, healthy : BOOLEAN, sent : BOOLEAN,
   terminate : BOOLEAN]

Idle == [pc |-> "none", running |-> FALSE, now |-> 0, loaded |-> FALSE,
         healthy |-> FALSE, sent |-> FALSE, terminate |-> FALSE]

History ==
  [frame : Time, sink : Time, latched : Time,
   evaluation : 0 .. (DisableAfter + 1), window : 0 .. (DisableAfter + 1)]

Init ==
  /\ now = 0
  /\ sup = FreshSupervisor
  /\ vision = [pc |-> IF HasControl THEN "start" ELSE "begin",
               fallback |-> "CAMERA_FAILURE", answer |-> {}, windowFailed |-> FALSE,
               window |-> HasWindow, evaluator |-> HasEvaluator]
  /\ control = Idle
  /\ snapshot = FALSE
  /\ wire = "STOP"
  /\ stopping = FALSE
  /\ outcome = {}
  /\ hist = [frame |-> Never, sink |-> Never, latched |-> Never,
             evaluation |-> 0, window |-> 0]

-----------------------------------------------------------------------------
(* Reports and recoveries as both threads make them. *)

Reports(code, t) ==
  /\ sup' = Report(sup, code, t)
  /\ hist' = [hist EXCEPT
       !.latched = IF sup.terminal = {} /\ sup'.terminal # {} THEN t ELSE @,
       !.evaluation = IF code \in EvaluationFaults /\ @ <= DisableAfter THEN @ + 1 ELSE @,
       !.window = IF code \in WindowFaults /\ @ <= DisableAfter THEN @ + 1 ELSE @]

Recovers(component, t) ==
  /\ sup' = Recover(sup, component, t)
  /\ hist' = [hist EXCEPT
       !.frame = IF component = "CAMERA" THEN t ELSE @,
       !.sink = IF component = "COMMAND_SINK" THEN t ELSE @,
       !.evaluation = IF component = "SIMULATION_EVALUATION" THEN 0 ELSE @,
       !.window = IF component = "DEBUG_WINDOW" /\ ~vision.windowFailed THEN 0 ELSE @]

NoNews == UNCHANGED <<sup, hist>>

-----------------------------------------------------------------------------
(* The main thread: start, the vision loop, return and exit. *)

VisionAt(pc) == vision.pc = pc
VisionTo(pc) == vision' = [vision EXCEPT !.pc = pc]

\* The optional parts that are not there are skipped.
FromPoll == IF vision.window THEN "poll" ELSE "head"
FromShow == IF vision.window THEN "show" ELSE "head"
FromPublish == IF HasDiagnostics THEN "publish" ELSE FromShow
FromEvaluate == IF vision.evaluator THEN "evaluate" ELSE FromPublish

\* STOP_WITH_TERMINAL.
StopWith(reason) == vision' = [vision EXCEPT !.pc = "stop", !.fallback = reason]

\* The thread is created, or its creation throws after a stop was sent.
StartControl ==
  /\ VisionAt("start")
  /\ \/ /\ control' = [control EXCEPT !.pc = "head", !.running = TRUE]
        /\ VisionTo("begin")
        /\ NoNews
        /\ UNCHANGED <<wire, outcome>>
     \/ /\ wire' = "STOP"
        /\ VisionTo("startFailed")
        /\ NoNews
        /\ UNCHANGED <<control, outcome>>
  /\ UNCHANGED <<now, snapshot, stopping>>

\* Start reports the exception, and so does its caller; both with one code.
StartFailed ==
  /\ VisionAt("startFailed")
  /\ Reports("CONTROL_THREAD_EXCEPTION", now)
  /\ vision' = [vision EXCEPT !.pc = "answer", !.answer = {"CONTROL_FAILURE"}]
  /\ UNCHANGED <<now, control, snapshot, wire, stopping, outcome>>

\* Run begins by declaring the camera healthy.
Begin ==
  /\ VisionAt("begin")
  /\ Recovers("CAMERA", now)
  /\ VisionTo("head")
  /\ UNCHANGED <<now, control, snapshot, wire, stopping, outcome>>

\* A stop request ends the loop without a stop of the control thread; that is
\* left to the destructor.
Head ==
  /\ VisionAt("head")
  /\ IF stopping
     THEN /\ outcome' = {"NORMAL"}
          /\ VisionTo("exit")
     ELSE /\ vision' = [vision EXCEPT !.pc = "terminal", !.windowFailed = FALSE]
          /\ UNCHANGED outcome
  /\ NoNews
  /\ UNCHANGED <<now, control, snapshot, wire, stopping>>

CheckTerminal ==
  /\ VisionAt("terminal")
  /\ IF sup.terminal # {}
     THEN vision' = [vision EXCEPT !.pc = "stop", !.answer = TerminalReason(sup)]
     ELSE VisionTo("grab")
  /\ NoNews
  /\ UNCHANGED <<now, control, snapshot, wire, stopping, outcome>>

GrabFrame ==
  /\ VisionAt("grab")
  /\ Recovers("CAMERA", now)
  /\ VisionTo("process")
  /\ UNCHANGED <<now, control, snapshot, wire, stopping, outcome>>

\* No frame.  A camera that throws is reported as CAMERA_FATAL.
GrabFails(code) ==
  /\ VisionAt("grab")
  /\ Reports(code, now)
  /\ IF Decision(sup, code, now).terminate
     THEN StopWith("CAMERA_FAILURE")
     ELSE VisionTo(FromPoll)
  /\ UNCHANGED <<now, control, snapshot, wire, stopping, outcome>>

Process ==
  /\ VisionAt("process")
  /\ \/ NoNews /\ VisionTo("update")
     \/ /\ Reports("VISION_PIPELINE_EXCEPTION", now)
        /\ StopWith("PIPELINE_FAILURE")
  /\ UNCHANGED <<now, control, snapshot, wire, stopping, outcome>>

\* A frame without camera model or kinematics updates nothing.
Update ==
  /\ VisionAt("update")
  /\ \/ NoNews /\ UNCHANGED snapshot /\ VisionTo(FromEvaluate)
     \/ HasControl /\ NoNews /\ snapshot' = TRUE /\ VisionTo(FromEvaluate)
     \/ /\ HasControl
        /\ Reports("CONTROL_UPDATE_EXCEPTION", now)
        /\ UNCHANGED snapshot
        /\ StopWith("CONTROL_FAILURE")
  /\ UNCHANGED <<now, control, wire, stopping, outcome>>

\* Frames without simulation truth are not evaluated.
Evaluate ==
  /\ VisionAt("evaluate")
  /\ \/ NoNews /\ VisionTo(FromPublish)
     \/ Recovers("SIMULATION_EVALUATION", now) /\ VisionTo("log")
     \/ /\ Reports("EVALUATION_EXCEPTION", now)
        /\ vision' = [vision EXCEPT !.pc = FromPublish,
             !.evaluator = ~Decision(sup, "EVALUATION_EXCEPTION", now).disable]
  /\ UNCHANGED <<now, control, snapshot, wire, stopping, outcome>>

LogHealth ==
  /\ VisionAt("log")
  /\ VisionTo(FromPublish)
  /\ NoNews \/ Reports("DIAGNOSTICS_EXCEPTION", now)
  /\ UNCHANGED <<now, control, snapshot, wire, stopping, outcome>>

Publish ==
  /\ VisionAt("publish")
  /\ VisionTo(FromShow)
  /\ Recovers("DIAGNOSTICS", now) \/ Reports("DIAGNOSTICS_UNAVAILABLE", now)
  /\ UNCHANGED <<now, control, snapshot, wire, stopping, outcome>>

\* A window that failed too often is closed and not polled.
WindowFails(next) ==
  /\ Reports("DEBUG_WINDOW_EXCEPTION", now)
  /\ LET closed == Decision(sup, "DEBUG_WINDOW_EXCEPTION", now).disable
     IN vision' = [vision EXCEPT !.pc = IF closed THEN "head" ELSE next,
                     !.window = ~closed, !.windowFailed = TRUE]

Show ==
  /\ VisionAt("show")
  /\ \/ NoNews /\ VisionTo("poll")
     \/ WindowFails("poll")
  /\ UNCHANGED <<now, control, snapshot, wire, stopping, outcome>>

\* A poll that works declares the window healthy whatever Show did.
Poll_ForgetsShow ==
  /\ VisionAt("poll")
  /\ \/ Recovers("DEBUG_WINDOW", now) /\ VisionTo("head") /\ UNCHANGED outcome
     \/ WindowFails("head") /\ UNCHANGED outcome
  /\ UNCHANGED <<now, control, snapshot, wire, stopping>>

\* Poll may ask to exit, succeed, or throw.
Poll ==
  /\ VisionAt("poll")
  /\ \/ NoNews /\ VisionTo("exit") /\ outcome' = {"NORMAL"}
     \/ /\ IF vision.windowFailed THEN NoNews ELSE Recovers("DEBUG_WINDOW", now)
        /\ VisionTo("head")
        /\ UNCHANGED outcome
     \/ WindowFails("head") /\ UNCHANGED outcome
  /\ UNCHANGED <<now, control, snapshot, wire, stopping>>

\* Stop joins the thread without asking it to end.
LowerFlag_JoinsOnly(from, to) ==
  /\ VisionAt(from)
  /\ VisionTo(to)
  /\ NoNews
  /\ UNCHANGED <<now, control, snapshot, wire, stopping, outcome>>

\* ControlRuntimeImpl::Stop, first half: the flag, on either path that calls it.
LowerFlag(from, to) ==
  /\ VisionAt(from)
  /\ control' = [control EXCEPT !.running = FALSE]
  /\ VisionTo(to)
  /\ NoNews
  /\ UNCHANGED <<now, snapshot, wire, stopping, outcome>>

\* Stop without waiting for the thread.
SendsLastStop_Unjoined(from, to) ==
  /\ VisionAt(from)
  /\ wire' = "STOP"
  /\ VisionTo(to)
  /\ NoNews
  /\ UNCHANGED <<now, control, snapshot, stopping, outcome>>

\* Second half: once the thread has ended, one more stop.
SendsLastStop(from, to) ==
  /\ VisionAt(from)
  /\ control.pc \in {"none", "ended"}
  /\ wire' = IF HasControl THEN "STOP" ELSE wire
  /\ VisionTo(to)
  /\ NoNews
  /\ UNCHANGED <<now, control, snapshot, stopping, outcome>>

\* The reason of the fault just seen, not of the first one.
Answer_Fallback ==
  /\ VisionAt("answer")
  /\ outcome' = IF vision.answer # {} THEN vision.answer ELSE {vision.fallback}
  /\ VisionTo("exit")
  /\ NoNews
  /\ UNCHANGED <<now, control, snapshot, wire, stopping>>

\* The result Run returns: the terminal fault, or the caller's fallback.
Answer ==
  /\ VisionAt("answer")
  /\ outcome' = IF vision.answer # {} THEN vision.answer
                ELSE IF sup.terminal # {} THEN TerminalReason(sup)
                ELSE {vision.fallback}
  /\ VisionTo("exit")
  /\ NoNews
  /\ UNCHANGED <<now, control, snapshot, wire, stopping>>

VisionStep ==
  \/ StartControl \/ StartFailed \/ Begin \/ Head \/ CheckTerminal
  \/ GrabFrame \/ \E code \in CameraGlitches \cup CameraFailures : GrabFails(code)
  \/ Process \/ Update \/ Evaluate \/ LogHealth \/ Publish \/ Show \/ Poll
  \/ LowerFlag("stop", "join") \/ SendsLastStop("join", "answer") \/ Answer
  \/ LowerFlag("exit", "exitJoin") \/ SendsLastStop("exitJoin", "done")

-----------------------------------------------------------------------------
(* The control thread. *)

ControlAt(pc) == control.pc = pc
ControlTo(pc) == control' = [control EXCEPT !.pc = pc]

\* The cycle's locals are gone when it ends.
CycleEnds(pc, running) ==
  control' = [Idle EXCEPT !.pc = pc, !.running = running]

BeginCycle ==
  /\ ControlAt("head")
  /\ control' = IF control.running
                THEN [control EXCEPT !.pc = "health", !.now = now, !.loaded = snapshot]
                ELSE [Idle EXCEPT !.pc = "ended"]
  /\ NoNews
  /\ UNCHANGED <<now, vision, snapshot, wire, stopping, outcome>>

ReadHealth ==
  /\ ControlAt("health")
  /\ \E healthy \in BOOLEAN :
       control' = [control EXCEPT !.pc = "act", !.healthy = healthy]
  /\ NoNews
  /\ UNCHANGED <<now, vision, snapshot, wire, stopping, outcome>>

\* Step and Send with a snapshot, SendStop without; the send may fail.
Act ==
  /\ ControlAt("act")
  /\ \E sent \in BOOLEAN :
       control' = [control EXCEPT !.pc = "observe", !.sent = sent]
  /\ wire' \in IF control.loaded /\ control.healthy THEN Commands ELSE {"STOP"}
  /\ NoNews
  /\ UNCHANGED <<now, vision, snapshot, stopping, outcome>>

\* A cycle with a snapshot may throw before its send or after it.
CycleThrows ==
  /\ control.pc \in {"act", "observe"}
  /\ control.loaded
  /\ ControlTo("caught")
  /\ NoNews
  /\ UNCHANGED <<now, vision, snapshot, wire, stopping, outcome>>

SinkFault == IF ~control.healthy THEN "COMMAND_SINK_UNHEALTHY" ELSE "COMMAND_SEND_FAILED"

\* No stop follows a cycle whose send failed.
ObserveCommandChannel_NoStop ==
  /\ ControlAt("observe")
  /\ IF control.healthy /\ control.sent
     THEN Recovers("COMMAND_SINK", control.now)
     ELSE Reports(SinkFault, control.now)
  /\ CycleEnds("head", control.running)
  /\ UNCHANGED <<now, vision, snapshot, wire, stopping, outcome>>

\* The sink's verdict, dated at the beginning of the cycle.  Without a snapshot
\* the stop has been sent already.
ObserveCommandChannel ==
  /\ ControlAt("observe")
  /\ IF control.healthy /\ control.sent
     THEN /\ Recovers("COMMAND_SINK", control.now)
          /\ CycleEnds("head", control.running)
     ELSE LET d == Decision(sup, SinkFault, control.now)
          IN /\ Reports(SinkFault, control.now)
             /\ IF control.loaded
                THEN control' = [control EXCEPT !.pc = "safeStop", !.terminate = d.terminate]
                ELSE CycleEnds("head", control.running /\ ~d.terminate)
  /\ UNCHANGED <<now, vision, snapshot, wire, stopping, outcome>>

\* SendStop, then the flag.
SafeStop ==
  /\ ControlAt("safeStop")
  /\ wire' = "STOP"
  /\ CycleEnds("head", control.running /\ ~control.terminate)
  /\ NoNews
  /\ UNCHANGED <<now, vision, snapshot, stopping, outcome>>

Caught ==
  /\ ControlAt("caught")
  /\ wire' = "STOP"
  /\ CycleEnds("report", FALSE)
  /\ NoNews
  /\ UNCHANGED <<now, vision, snapshot, stopping, outcome>>

ReportException ==
  /\ ControlAt("report")
  /\ Reports("CONTROL_THREAD_EXCEPTION", now)
  /\ ControlTo("ended")
  /\ UNCHANGED <<now, vision, snapshot, wire, stopping, outcome>>

ControlStep ==
  \/ BeginCycle \/ ReadHealth \/ Act \/ CycleThrows
  \/ ObserveCommandChannel \/ SafeStop \/ Caught \/ ReportException

-----------------------------------------------------------------------------
(* The environment. *)

Signal ==
  /\ ~stopping /\ vision.pc # "done"
  /\ stopping' = TRUE
  /\ UNCHANGED <<now, sup, vision, control, snapshot, wire, outcome, hist>>

Tick ==
  /\ now < MaxTime /\ vision.pc # "done"
  /\ now' = now + 1
  /\ UNCHANGED <<sup, vision, control, snapshot, wire, stopping, outcome, hist>>

Next == VisionStep \/ ControlStep \/ Signal \/ Tick

\* The two threads are scheduled by the operating system, and every blocking
\* call they make has a timeout (camera grab, sleep_until, join of a thread that
\* ends).
Fairness == WF_vars(VisionStep) /\ WF_vars(ControlStep)

Spec == Init /\ [][Next]_vars
FairSpec == Spec /\ Fairness

-----------------------------------------------------------------------------
\* What a run promises whoever started it and whoever reads its commands.
Lifecycle == INSTANCE RunLifecycle WITH
  fault   <- sup.terminal,
  sending <- control.pc \notin {"none", "report", "ended"},
  output  <- wire,
  verdict <- outcome,
  ended   <- VisionAt("done")

ImplementsLifecycle == Lifecycle!Spec

-----------------------------------------------------------------------------
TypeOK ==
  /\ now \in Nat
  /\ sup \in Supervisor
  /\ \A f, g \in sup.terminal : f = g
  /\ vision \in Vision
  /\ control \in Control
  /\ snapshot \in BOOLEAN
  /\ wire \in Commands
  /\ stopping \in BOOLEAN
  /\ outcome \in SUBSET Outcomes
  /\ hist \in History

\* control_runtime.cpp 77-92: when the process ends, the control thread has
\* ended and the last command it or anyone handed to the sink is a stop.
EndsStopped ==
  VisionAt("done") => control.pc \in {"none", "ended"} /\ wire = "STOP"

\* control_runtime_loop.cpp 74-78: a cycle that found the sink unhealthy, or
\* whose send failed, is followed by no aiming command before the next cycle.
UnhealthyCyclesEndStopped ==
  ControlAt("head") /\ sup.component["COMMAND_SINK"].active => wire = "STOP"

\* docs/runtime/ERROR_POLICY.md 40-41: a later fault or recovery never replaces
\* the first terminal fault, and a component it failed never recovers.
FirstFaultStays ==
  [][/\ sup.terminal # {} => sup'.terminal = sup.terminal
     /\ \A c \in Components :
          sup.component[c].health = "FAILED" => sup'.component[c].health = "FAILED"]_vars

\* vision_runtime.cpp 120-316: the process reports the first terminal fault, and
\* reports a normal end only after a stop request or a closed window.
ExitIsExplained ==
  VisionAt("done") =>
    \/ outcome = {"NORMAL"} /\ (stopping \/ vision.window)
    \/ sup.terminal # {} /\ outcome = TerminalReason(sup)

\* runtime_supervisor.cpp 118-141: a timeout is terminal only when no frame, or
\* no healthy cycle of the sink, was seen for that long.
TimeoutsAreReal ==
  \A f \in sup.terminal :
    /\ f.code \in CameraGlitches => hist.latched - hist.frame >= CameraTimeout
    /\ f.code \in SinkFaults =>
         hist.latched - (IF hist.sink # Never THEN hist.sink ELSE f.firstSeen) >= SinkTimeout

\* runtime_supervisor.cpp 142-154, vision_runtime.cpp 222, 268-275, 305-308: an
\* optional part is given up exactly when it failed DisableAfter times with no
\* frame in between for which all of its calls succeeded: one in use has failed less
\* often, and one that failed but less often is in use.
DisabledAfterThreshold ==
  /\ vision.evaluator => hist.evaluation < DisableAfter
  /\ hist.evaluation \in 1 .. (DisableAfter - 1) => vision.evaluator
  /\ vision.window => hist.window < DisableAfter
  /\ hist.window \in 1 .. (DisableAfter - 1) => vision.window

\* docs/runtime/ERROR_POLICY.md 29: a sink that has been unhealthy for the timeout
\* ends the run.
SinkTimeoutTerminates ==
  [][ObserveCommandChannel /\ sup'.component["COMMAND_SINK"].active
       /\ control.now - BadSince(sup'.component["COMMAND_SINK"]) >= SinkTimeout
     => sup'.terminal # {}]_vars

\* vision_runtime.cpp 128-133, 316: a terminal fault of either thread, or a stop
\* request, ends the process.
FaultsEndTheRun == sup.terminal # {} \/ stopping ~> VisionAt("done")

\* docs/runtime/ERROR_POLICY.md 25: a camera without a valid frame for the
\* timeout ends the run unless a frame arrives after all.
SilentCameraEndsTheRun ==
  hist.frame # Never /\ now - hist.frame >= CameraTimeout
    ~> VisionAt("done") \/ now - hist.frame < CameraTimeout
=============================================================================
