------------------------ MODULE GimbalFeedbackEstimator ------------------------
(***************************************************************************)
(* Where the control session believes the gimbal to point.  Three sources  *)
(* compete: the telemetry of a physical actuator, the last command that    *)
(* was published, and the pose of the camera in the last frame.  The       *)
(* session calls the estimator from its step and its acknowledgement, and  *)
(* clears what it must not trust any longer.  The yaw is an angle of Turn  *)
(* directions, unwrapped by the estimator; pitch goes along with it and    *)
(* velocities are left out.  The system clock is not stepped.              *)
(***************************************************************************)
EXTENDS Integers

CONSTANTS
  Turn,         \* directions of a full turn, odd so that no two are opposite
  MaxAge,       \* 100 ms: how old telemetry may be
  MaxTime,      \* bound: ticks of the clock, from 1
  MaxRounds,    \* bound: rounds of the session
  MaxSequence   \* bound: frames of a round

VARIABLES
  est,     \* the estimator
  session, \* what the session remembers from step to step
  now      \* the steady clock, and by the same count the system clock

vars == <<est, session, now>>

Half == Turn \div 2
Direction == -Half .. Half

Modes == {"NONE", "IDEAL", "PHYSICAL"}

\* Telemetry of the actuator; mode NONE stands for telemetry that is not valid.
Telemetry == [mode : Modes, at : 0 .. MaxTime + 1, yaw : Direction]

\* A frame as the snapshot carries it; at is 0 where the source time is unknown.
Frame == [sequence : 0 .. MaxSequence, at : 0 .. MaxTime, yaw : Direction]

\* Beside these a source is "NONE", "PUBLISHED_COMMAND" or "CAMERA", which stands
\* for both MEASUREMENT_INIT and CAMERA_FALLBACK.
Runtime == {"ACTUATOR_RUNTIME_DIRECT", "ACTUATOR_RUNTIME_HOLD"}

\* round: history, the round in which it was observed.
NoFeedback == [valid |-> FALSE, sequence |-> 0, at |-> 0, yaw |-> 0, round |-> 0]

FreshEstimator ==
  [state |-> NoFeedback, measurement |-> NoFeedback, source |-> "NONE",
   projection |-> FALSE, runtime |-> FALSE, stamp |-> 0, dt |-> 0, round |-> 1]

-----------------------------------------------------------------------------
(* The estimator. *)

Wrap(angle) == ((angle + Half) % Turn) - Half

\* The full turns are dropped.
UnwrapNear_Wraps(angle, reference) == Wrap(angle)

\* The angle in the turn that is nearest to a reference.
UnwrapNear(angle, reference) == reference + Wrap(angle - reference)

\* The camera's last pose, if there is one.
ToCamera(e) ==
  [e EXCEPT !.state = e.measurement,
            !.source = IF e.measurement.valid THEN "CAMERA" ELSE "NONE"]

Usable_Ageless(a) == a.mode = "PHYSICAL" /\ a.at # 0 /\ a.at <= now

\* Telemetry of a physical actuator, neither old nor from the future (by more than the 5 ms
\* that a tick stands above).
Usable(a) == a.mode = "PHYSICAL" /\ a.at # 0 /\ a.at <= now /\ now - a.at <= MaxAge

Reference(e, a) ==
  IF e.state.valid THEN e.state.yaw
  ELSE IF e.measurement.valid THEN e.measurement.yaw ELSE a.yaw

ObserveActuatorTelemetry(e, a) ==
  IF ~Usable(a)
  THEN IF e.runtime THEN ToCamera([e EXCEPT !.runtime = FALSE, !.stamp = 0]) ELSE e
  ELSE IF e.runtime /\ a.at = e.stamp THEN [e EXCEPT !.source = "ACTUATOR_RUNTIME_HOLD"]
  ELSE [e EXCEPT !.state = [valid |-> TRUE, sequence |-> e.measurement.sequence, at |-> a.at,
                            yaw |-> UnwrapNear(a.yaw, Reference(e, a)),
                            round |-> e.round],
                 !.runtime = TRUE, !.stamp = a.at, !.projection = FALSE,
                 !.source = "ACTUATOR_RUNTIME_DIRECT"]

\* An older frame under another number counts as new.
Seen_BySequence(e, f) == f.sequence = e.measurement.sequence

\* A frame is new by its number and by its time.
Seen(e, f) == f.sequence = e.measurement.sequence \/ f.at <= e.measurement.at

\* A frame only changes the state where no better source does.
ObserveMeasurement(e, f) ==
  LET first == ~e.measurement.valid
      measurement ==
        [valid |-> TRUE, sequence |-> f.sequence, at |-> f.at, round |-> e.round,
         yaw |-> IF first THEN f.yaw ELSE UnwrapNear(f.yaw, e.measurement.yaw)]
      measured == [e EXCEPT !.measurement = measurement]
  IN IF ~first /\ Seen(e, f) THEN e
     ELSE IF e.runtime THEN [measured EXCEPT !.state.sequence = f.sequence]
     ELSE IF e.projection THEN measured
     ELSE ToCamera(measured)

\* A command that was sent; its only caller never passes a held one.
ObservePublishedCommand(e, yaw) ==
  IF e.runtime \/ ~e.measurement.valid THEN e
  ELSE [e EXCEPT !.state = [valid |-> TRUE, sequence |-> e.measurement.sequence, at |-> now,
                            yaw |-> UnwrapNear(yaw, e.state.yaw), round |-> e.round],
                 !.projection = TRUE, !.source = "PUBLISHED_COMMAND"]

\* The state is projected to now, no further than MaxAge (100 ms as well).
Estimate(e) ==
  LET age == now - e.state.at
  IN [e EXCEPT !.dt = IF ~e.state.valid \/ age <= 0 THEN 0
                      ELSE IF age < MaxAge THEN age ELSE MaxAge]

ClearCommandProjection(e) ==
  LET cleared == [e EXCEPT !.projection = FALSE, !.dt = 0]
  IN IF e.runtime THEN [cleared EXCEPT !.source = "ACTUATOR_RUNTIME_HOLD"]
     ELSE ToCamera(cleared)

ClearRuntimeActuator(e) == ToCamera([e EXCEPT !.runtime = FALSE, !.stamp = 0, !.dt = 0])

Reset_KeepsMeasurement(e, round) ==
  [FreshEstimator EXCEPT !.round = round, !.measurement = e.measurement]

Reset(e, round) == [FreshEstimator EXCEPT !.round = round]

-----------------------------------------------------------------------------
(* The session. *)

\* external, healthy: as of the last step, UNKNOWN before it.
FreshSession ==
  [round |-> 1, observed |-> 0, mode |-> "NONE", external |-> "UNKNOWN",
   healthy |-> "UNKNOWN", projected |-> FALSE, awaiting |-> FALSE, lastStep |-> 0]

InRound(round) ==
  IF round = session.round THEN [s |-> session, e |-> est]
  ELSE [s |-> [FreshSession EXCEPT !.round = round], e |-> Reset(est, round)]

\* Only the runtime state is dropped; the projection of the last command stays.
Untrusted_RuntimeOnly(e, changed) == IF changed THEN ClearRuntimeActuator(e) ELSE e

\* Both the runtime state and the projected command are dropped.
Untrusted(e, changed) ==
  IF changed THEN ClearCommandProjection(ClearRuntimeActuator(e)) ELSE e

Unprojected(e, changed) == IF changed THEN ClearCommandProjection(e) ELSE e

\* One step within its round: telemetry a, the frame f of the snapshot, whether the
\* operator lets the program aim and whether the sink is healthy.
StepInRound(s, e, a, f, external, healthy) ==
  LET modeChanged == a.mode # s.mode
      externalChanged == external # s.external
      unhealthy == healthy # s.healthy /\ healthy = "NO"
  IN \E trusted \in {Untrusted(Untrusted(e, modeChanged), externalChanged)} :
     \E informed \in {ObserveActuatorTelemetry(trusted, a)} :
     LET runtimeChanged == trusted.runtime # informed.runtime
     IN \E switched \in {Unprojected(informed, runtimeChanged)} :
        \E measured \in {IF f.sequence # s.observed /\ f.at # 0
                         THEN ObserveMeasurement(switched, f) ELSE switched} :
          /\ est' = Estimate(Unprojected(measured, unhealthy))
          /\ session' = [s EXCEPT
               !.mode = a.mode, !.external = external, !.healthy = healthy,
               !.observed = f.sequence, !.awaiting = TRUE, !.lastStep = now,
               !.projected = @ /\ ~(modeChanged \/ externalChanged \/ runtimeChanged \/ unhealthy)]

\* Telemetry that is of no use (none, ideal, old or from the future) has no yaw that
\* matters.  Bound: what was measured a tick ago, telemetry or frame, looks ahead.
Telemetries ==
  {[mode |-> m, at |-> 0, yaw |-> 0] : m \in {"NONE", "IDEAL"}} \cup
  {[mode |-> "PHYSICAL", at |-> at, yaw |-> 0] : at \in {now - 2, now - 1, now + 1} \cap Nat} \cup
  {[mode |-> "PHYSICAL", at |-> now, yaw |-> yaw] : yaw \in Direction}

\* The frame of the last step again, or the next.
Frames(s) ==
  {[sequence |-> n, at |-> 0, yaw |-> 0] : n \in {s.observed, s.observed + 1}} \cup
  {[sequence |-> s.observed + 1, at |-> now - 1, yaw |-> 0]} \cup
  {[sequence |-> s.observed + 1, at |-> now, yaw |-> yaw] : yaw \in Direction}

Step ==
  /\ ~session.awaiting
  /\ now > session.lastStep
  /\ \E round \in {session.round, session.round + 1} :
       LET start == InRound(round)
       IN /\ round <= MaxRounds
          /\ \E a \in Telemetries, f \in Frames(start.s) :
               /\ f.sequence <= MaxSequence
               /\ \/ \E external \in {"YES", "NO"} :
                       StepInRound(start.s, start.e, a, f, external, "YES")
                  \/ StepInRound(start.s, start.e, a, f, "YES", "NO")
  /\ UNCHANGED now

\* The command of the step was sent, as a command to aim (bound: not to the left) or as a
\* stop.
Published ==
  /\ session.awaiting
  /\ \/ \E yaw \in 0 .. Half :
          /\ est' = ObservePublishedCommand(est, yaw)
          /\ session' = [session EXCEPT !.awaiting = FALSE, !.projected = TRUE]
     \/ /\ session' = [session EXCEPT !.awaiting = FALSE]
        /\ UNCHANGED est
  /\ UNCHANGED now

NotSent ==
  /\ session.awaiting
  /\ est' = ClearCommandProjection(est)
  /\ session' = [session EXCEPT !.awaiting = FALSE, !.projected = FALSE]
  /\ UNCHANGED now

Tick ==
  /\ now < MaxTime
  /\ now' = now + 1
  /\ UNCHANGED <<est, session>>

Init ==
  /\ est = FreshEstimator
  /\ session = FreshSession
  /\ now = 1

Next == Step \/ Published \/ NotSent \/ Tick

Spec == Init /\ [][Next]_vars

-----------------------------------------------------------------------------
(* Properties *)

\* The source the diagnostics name is the one the state is from: runtime telemetry while
\* it is active, the command while it is projected, else the last frame or nothing.
SourceIsTheStates ==
  /\ est.source \in Runtime <=> est.runtime
  /\ est.source = "PUBLISHED_COMMAND" <=> est.projection
  /\ est.source = "CAMERA" => est.state = est.measurement /\ est.state.valid
  /\ est.source = "NONE" => ~est.state.valid

\* A state from the telemetry is never older than MaxAge when the session plans with it,
\* however long the same telemetry is held.
RuntimeIsFresh ==
  est.runtime => session.lastStep - est.state.at <= MaxAge

\* A command is only projected while the session counts it as its output, and nothing
\* of an earlier round is left in the estimator.
ProjectionIsTheSessions ==
  /\ est.projection => session.projected
  /\ \A feedback \in {est.state, est.measurement} :
       feedback.valid => feedback.round = session.round

\* Within a round, once a frame was observed, the yaw goes on by less than half a turn:
\* the camera's from the frame before, and the state's from the state before or, where
\* that was dropped, from the camera's.  Only a state that falls back to the camera may
\* jump, by whole turns, as the camera's yaw has turns of its own.
UnwrapsYaw ==
  LET Near(new, old) == new - old \in Direction
  IN est.measurement.valid /\ session'.round = session.round =>
       /\ Near(est'.measurement.yaw, est.measurement.yaw)
       /\ est'.source # "CAMERA" =>
            \/ Near(est'.state.yaw, est.state.yaw)
            \/ Near(est'.state.yaw, est.measurement.yaw)

\* The measurement only goes forward: a frame seen twice or out of order changes nothing.
GoesForward ==
  est.measurement.valid /\ est'.measurement # est.measurement /\ session'.round = session.round =>
    /\ est'.measurement.at > est.measurement.at
    /\ est'.measurement.sequence # est.measurement.sequence
=============================================================================
