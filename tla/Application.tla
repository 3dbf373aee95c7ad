----------------------------- MODULE Application -----------------------------
(***************************************************************************)
(* The main program (app/main.cpp): what Run() builds and in which order,  *)
(* which failures end it and with which exit code, the wait for the board, *)
(* and the destructors.  The run itself is VisionControl's; here it only   *)
(* ends.                                                                   *)
(***************************************************************************)
EXTENDS Naturals, Sequences, FiniteSets, Functions

VARIABLES
  backend,  \* camera.backend
  phase,    \* of Run(): "build", "run", "unwind", "exited"
  at,       \* the stage it builds, an index of Stages
  alive,    \* the objects that exist
  threads,  \* of them, those whose thread runs
  sinks,    \* the back ends of DiagnosticsFanoutSink
  code,     \* the exit code, 0 until something failed
  reported, \* the optional parts that were reported as failed
  signaled, \* SIGINT or SIGTERM was received
  control   \* the mindvision gimbal is enabled

vars == <<backend, phase, at, alive, threads, sinks, code, reported, signaled, control>>

Must(object, failure) == [object |-> object, failure |-> failure, optional |-> FALSE]
May(object) == [object |-> object, failure |-> 0, optional |-> TRUE]

\* One step of Run() each.  "config" stands for files that are loaded in
\* between; their failure, like any exception that nothing else catches, is 1.
Stages(b) ==
  <<Must("config", 1), Must("supervisor", 1), Must("detector", 2), Must("config", 1),
    Must("mailbox", 1), Must("pipeline", 2), May("evaluator"), Must("config", 1),
    Must("camera", 3), Must("config", 1), May("window"), May("publisher"), May("web")>>
  \o IF b = "talos"
     THEN <<Must("config", 1), Must("sink", 6), Must("control", 7)>>
     ELSE <<Must("geometry", 1), Must("config", 1), Must("board", 0), Must("adapter", 1),
            Must("control", 7)>>

\* Locals are destroyed against the order of their declaration; "adapter", the serial
\* sink, is a part of ControlRuntime that goes after its thread is joined.
Declared_GeometryLast ==
  <<"supervisor", "mailbox", "pipeline", "evaluator", "camera", "window", "publisher",
    "web", "adapter", "control", "geometry">>
Declared ==
  <<"supervisor", "mailbox", "pipeline", "evaluator", "camera", "window", "publisher",
    "web", "geometry", "adapter", "control">>

\* The objects that own threads; the adapter's reads the tuning files.
Threaded == {"publisher", "web", "geometry", "adapter", "control"}

\* What the code of a thread reaches: the control thread reports to the
\* supervisor, publishes to the fan-out and sends through the adapter and the
\* IMU's link; the server submits to the mailbox.
Uses(t) ==
  CASE t = "control" -> {"supervisor"} \cup sinks \cup
                        IF backend = "mindvision" THEN {"geometry", "adapter"} ELSE {}
    [] t = "web" -> {"mailbox"}
    [] OTHER -> {}

Init ==
  /\ backend \in {"talos", "mindvision"} /\ control \in BOOLEAN
  /\ phase = "build" /\ at = 1
  /\ alive = {} /\ threads = {} /\ sinks = {} /\ reported = {}
  /\ code = 0
  /\ signaled = FALSE

-----------------------------------------------------------------------------
Building == phase = "build"
Stage == Stages(backend)[at]
Advance ==
  IF at = Len(Stages(backend)) THEN phase' = "run" /\ UNCHANGED at
  ELSE at' = at + 1 /\ UNCHANGED phase

\* The gimbal of the serial backend may be disabled: no board, no control.
Skipped == Stage.object \in {"board", "adapter", "control"} /\ backend = "mindvision" /\ ~control

Skip ==
  /\ Building /\ Skipped
  /\ Advance
  /\ UNCHANGED <<backend, alive, threads, sinks, code, reported, signaled, control>>

\* A started back end of the diagnostics joins the fan-out; a publisher without
\* a sink of its own does too, a server that does not listen does not.
Make(started) ==
  LET object == Stage.object
  IN /\ alive' = alive \cup ({object} \cap Range(Declared))
     /\ threads' = threads \cup (IF started THEN {object} \cap Threaded ELSE {})
     /\ sinks' = sinks \cup (IF object = "publisher" \/ (object = "web" /\ started)
                             THEN {object} ELSE {})

Build ==
  /\ Building /\ ~Skipped /\ Stage.object # "board"
  /\ \/ Make(TRUE) /\ UNCHANGED reported
     \/ /\ Stage.object \in {"publisher", "web"}
        /\ Make(FALSE)
        /\ reported' = reported \cup ({Stage.object} \cap {"publisher"})
  /\ Advance
  /\ UNCHANGED <<backend, code, signaled, control>>

\* An optional part that is not configured or fails is left out.
LeaveOut ==
  /\ Building /\ Stage.optional
  /\ reported' \in {reported, reported \cup ({Stage.object} \ {"web"})}
  /\ Advance
  /\ UNCHANGED <<backend, alive, threads, sinks, code, signaled, control>>

\* Anything else that fails ends the program.  ControlRuntime exists when its
\* Start throws, and is destroyed without a thread.
Fail ==
  /\ Building /\ ~Skipped /\ ~Stage.optional /\ Stage.failure # 0
  /\ code' = Stage.failure
  /\ alive' \in {alive, alive \cup ({Stage.object} \cap {"control"})}
  /\ phase' = "unwind"
  /\ UNCHANGED <<backend, at, threads, sinks, reported, signaled, control>>

\* The board is polled every 20 ms until its samples are fresh or a signal came.
BoardAnswers ==
  /\ Building /\ ~Skipped /\ Stage.object = "board"
  /\ ~signaled /\ Advance
  /\ UNCHANGED <<backend, alive, threads, sinks, code, reported, signaled, control>>

LeaveWait_Never == FALSE /\ UNCHANGED vars
LeaveWait ==
  /\ Building /\ ~Skipped /\ Stage.object = "board"
  /\ signaled /\ phase' = "unwind"
  /\ UNCHANGED <<backend, at, alive, threads, sinks, code, reported, signaled, control>>

\* VisionRuntime::Run returns: after a signal or a closed window, or with a
\* fault after it stopped the control thread (RuntimeExitCode).  An exception
\* from it stops nothing, and is 1 like any other.
EndRun ==
  /\ phase = "run"
  /\ \/ (signaled \/ "window" \in alive) /\ UNCHANGED <<code, threads>>
     \/ code' \in {4, 5, 7} /\ threads' = threads \ {"control"}
     \/ code' = 1 /\ UNCHANGED threads
  /\ phase' = "unwind"
  /\ UNCHANGED <<backend, at, alive, sinks, reported, signaled, control>>

\* The last declared of the objects that exist.
Position(object) == CHOOSE i \in DOMAIN Declared : Declared[i] = object
Top == CHOOSE o \in alive : \A p \in alive : Position(p) <= Position(o)

\* Its destructor first stops and joins its thread.
Join ==
  /\ phase = "unwind" /\ alive # {} /\ Top \in threads
  /\ threads' = threads \ {Top}
  /\ UNCHANGED <<backend, phase, at, alive, sinks, code, reported, signaled, control>>

Destroy ==
  /\ phase = "unwind" /\ alive # {} /\ Top \notin threads
  /\ alive' = alive \ {Top}
  /\ UNCHANGED <<backend, phase, at, threads, sinks, code, reported, signaled, control>>

Exit ==
  /\ phase = "unwind" /\ alive = {}
  /\ phase' = "exited"
  /\ UNCHANGED <<backend, at, alive, threads, sinks, code, reported, signaled, control>>

Signal ==
  /\ ~signaled /\ phase # "exited"
  /\ signaled' = TRUE
  /\ UNCHANGED <<backend, phase, at, alive, threads, sinks, code, reported, control>>

Unwind == Join \/ Destroy \/ Exit
Startup == Skip \/ Build \/ LeaveOut \/ Fail \/ LeaveWait

Next == Startup \/ BoardAnswers \/ EndRun \/ Unwind \/ Signal

Spec == Init /\ [][Next]_vars

-----------------------------------------------------------------------------
\* Whatever fails or ends at whichever stage, no thread outlives an object that
\* its code reaches, and none is left behind (main.cpp 327-331).
ThreadsHaveTheirMeans ==
  /\ \A t \in threads : {t} \cup Uses(t) \subseteq alive
  /\ phase = "exited" => threads = {}
=============================================================================
