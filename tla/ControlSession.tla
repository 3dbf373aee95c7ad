----------------------------- MODULE ControlSession -----------------------------
(***************************************************************************)
(* ControlSession: the synchronous control chain one caller owns.  The     *)
(* caller alternates Step and AcknowledgePublication; between cycles it    *)
(* may publish a stop of its own (ControlRuntimeImpl::SendStop), which     *)
(* clears what the session believes it has published.                      *)
(***************************************************************************)
EXTENDS FireControl

CONSTANTS
  Inputs,          \* the cycle inputs that may arrive
  MaxFallbackAge,  \* MAX_FALLBACK_AGE_S, 100 ms
  PlanPoints,      \* points of a planned trajectory (planner horizon_steps)
  FrictionHold,    \* timing.friction_hold_s
  MaxTime          \* bound: the last instant the clock reaches

ASSUME SessionAssumption ==
  /\ Inputs \subseteq CycleInput
  /\ MaxFallbackAge \in Nat
  /\ PlanPoints \in Nat \ {0, 1}
  /\ FrictionHold \in Nat
  /\ MaxTime \in Nat

VARIABLES
  now,      \* the caller's monotonic control time
  fire,     \* the FireControl the session owns
  session,  \* the session's own members
  result,   \* the ControlStepResult of the last cycle with the input it came from
  hist      \* history only: what the published commands amount to

vars == <<now, fire, session, result, hist>>

\* A planned trajectory that was published.
Plan == [slot : Slots, time : Nat]

\* {} stands for an empty optional or an empty trajectory.
Session ==
  [round : SUBSET Nat, lastStep : Instant,
   lastExternal : SUBSET BOOLEAN, lastHealthy : SUBSET BOOLEAN,
   trajectory : SUBSET Plan, projection : BOOLEAN,
   awaiting : BOOLEAN, frictionTime : Instant]

FreshSession ==
  [round |-> {}, lastStep |-> None, lastExternal |-> {}, lastHealthy |-> {},
   trajectory |-> {}, projection |-> FALSE, awaiting |-> FALSE, frictionTime |-> None]

\* plan: the published plan the gimbal follows, with the object it aims at,
\* until a stop is published or the round ends; fired: the last cycle published a
\* command that fires; aimed: consecutive cycles of the rule policy that planned
\* for one slot of one object with the aim inside the window, whether or not the
\* command could be published; visible: capture time of the last visible aim of this round; thrown:
\* the policy has thrown since the plan was published.
PublishedPlan == [object : Objects, slot : Slots, time : Nat]
History ==
  [plan : SUBSET PublishedPlan, fired : BOOLEAN,
   aimed : 0 .. StableCycles, aimedSlot : SlotOrNone, visible : Instant,
   thrown : BOOLEAN]

FreshHistory ==
  [plan |-> {}, fired |-> FALSE, aimed |-> 0, aimedSlot |-> None, visible |-> None,
   thrown |-> FALSE]

NoResult == [in |-> {}, command |-> StopCommand("NONE", None, FALSE)]

Init ==
  /\ now = 0
  /\ fire = FreshFireState
  /\ session = FreshSession
  /\ result = NoResult
  /\ hist = FreshHistory

-----------------------------------------------------------------------------
(* ClearPublishedProjection, on the session's half of the state; the fire   *)
(* control's half is ResetFireReadiness.                                    *)

ClearProjection(s) ==
  [s EXCEPT !.awaiting = FALSE, !.trajectory = {}, !.projection = FALSE]

\* A new round resets the session and the fire control it owns.
NewRound(in) == session.round \notin {{}, {in.round}}

Entered(in) ==
  [(IF NewRound(in) THEN FreshSession ELSE session)
     EXCEPT !.round = {in.round}, !.lastStep = now]

EnteredFire(in) == IF NewRound(in) THEN FreshFireState ELSE fire

\* What Step clears before the fire control runs: the actuator changed mode or
\* became (in)active, external control flipped, the sink became unhealthy.
TransportChanged(s, in) ==
  \/ in.actuatorChanged
  \/ s.lastExternal # {in.external}
  \/ s.lastHealthy # {in.healthy} /\ ~in.healthy

Observed(in) ==
  LET s == Entered(in)
  IN [(IF TransportChanged(s, in) THEN ClearProjection(s) ELSE s)
        EXCEPT !.lastExternal = {in.external}, !.lastHealthy = {in.healthy}]

ObservedFire(in) ==
  IF TransportChanged(Entered(in), in)
  THEN ResetFireReadiness(EnteredFire(in)) ELSE EnteredFire(in)

-----------------------------------------------------------------------------
(* The cached trajectory as a fallback for a failed solve. *)

FallbackAge(p) == now - p.time
FallbackIndex(p) == 1 + (IF FallbackAge(p) > 1 THEN FallbackAge(p) ELSE 1)

\* Any cached trajectory is good enough, whatever slot it was planned for.
FallbackUsable_AnySlot(s, in, c, p) ==
  /\ c.reason = "MPC_FAILED"
  /\ p \in s.trajectory
  /\ in.external /\ in.healthy
  /\ ~c.objectReset
  /\ FallbackAge(p) <= MaxFallbackAge
  /\ FallbackIndex(p) < PlanPoints

FallbackUsable(s, in, c, p) ==
  /\ c.reason = "MPC_FAILED"
  /\ p \in s.trajectory
  /\ in.external /\ in.healthy
  /\ ~c.objectReset
  /\ c.slot = p.slot
  /\ FallbackAge(p) <= MaxFallbackAge
  /\ FallbackIndex(p) < PlanPoints

\* A change of target drops the trajectory planned for the old one.
Cached(s, c) == IF c.objectReset /\ s.projection THEN [s EXCEPT !.trajectory = {}] ELSE s

WithFallback(s, in, c) ==
  IF \E p \in s.trajectory : FallbackUsable(s, in, c, p)
  THEN [c EXCEPT !.valid = TRUE, !.source = "FALLBACK"]
  ELSE c

\* The sink's health and the external enable have the last word.
TransportGate(in, c) ==
  IF in.external /\ in.healthy THEN c
  ELSE [c EXCEPT !.valid = FALSE, !.fire = FALSE, !.source = "STOP",
                 !.reason = IF in.external THEN "TALOS_UNHEALTHY"
                            ELSE "EXTERNAL_CONTROL_DISABLED"]

-----------------------------------------------------------------------------
(* Friction wheels. *)

ShooterContext(in, c) ==
  in.healthy /\ in.external /\ in.feedback = "OK" /\ c.reason # "NUMERICAL_INVALID"

\* Temporary loss counts as seeing the target.
VisibleAim_WhileLost(in, c) == c.valid /\ c.source # "FALLBACK"

VisibleAim(in, c) ==
  c.valid /\ c.source # "FALLBACK" /\ in.tracker \in {"DETECTING", "TRACKING"}

FrictionTime(s, in, c) ==
  IF ~ShooterContext(in, c) THEN None
  ELSE IF VisibleAim(in, c) /\ in.age >= 0 /\ now - in.age > s.frictionTime
  THEN now - in.age
  ELSE s.frictionTime

Friction(in, c, time) ==
  /\ ShooterContext(in, c)
  /\ VisibleAim(in, c) \/ (time # None /\ now - time < FrictionHold)

-----------------------------------------------------------------------------
(* Step. *)

Stepped(in) == FireStep(ObservedFire(in), in, now, in.external /\ in.healthy)

\* The command after the fallback and the gate, before the friction decision.
Decided(in) ==
  LET c == Stepped(in).command
  IN TransportGate(in, WithFallback(Cached(Observed(in), c), in, c))

\* A stop ends what was projected; otherwise the session is left as observed.
Concluded(in, c) ==
  LET s == Cached(Observed(in), c)
  IN IF ~c.valid /\ s.projection THEN ClearProjection(s) ELSE s

ConcludedFire(in, c) ==
  LET f == Stepped(in).fire
  IN IF ~c.valid /\ Observed(in).projection THEN ResetFireReadiness(f) ELSE f

StepTimeOk(in) == NewRound(in) \/ session.lastStep = None \/ now > session.lastStep

\* History: what this cycle adds to what is seen and aimed at.
AimHistory(in, c) ==
  LET h    == IF NewRound(in) THEN FreshHistory ELSE hist
      seen == c.source = "PLAN" /\ in.tracker \in {"DETECTING", "TRACKING"} /\ in.age >= 0
      same == c.slot = h.aimedSlot /\ ~c.objectReset
  IN [h EXCEPT
        !.aimedSlot = c.slot,
        !.aimed = IF ~Stepped(in).command.valid \/ ~in.aim \/ in.act # "RULE" THEN 0
                  ELSE IF ~same THEN 1
                  ELSE IF @ < StableCycles THEN @ + 1 ELSE @,
        !.visible = IF seen /\ now - in.age > @ THEN now - in.age ELSE @]

Step(in) ==
  /\ ~session.awaiting
  /\ in.age <= now
  /\ StepTimeOk(in)
  /\ ~(in.act = "THROW" /\ PolicyCalled(ObservedFire(in), in, now))
  /\ \E c \in {Decided(in)} :
       LET time == FrictionTime(Concluded(in, c), in, c)
       IN /\ session' = [Concluded(in, c) EXCEPT !.awaiting = TRUE, !.frictionTime = time]
          /\ fire' = ConcludedFire(in, c)
          /\ result' = [in |-> {in}, command |-> [c EXCEPT !.friction = Friction(in, c, time)]]
          /\ hist' = AimHistory(in, c)
  /\ UNCHANGED now

\* The policy callback throws out of Step: the cycle leaves no result, and what
\* Step had already changed stays changed.
StepThrows(in) ==
  /\ ~session.awaiting
  /\ in.age <= now
  /\ StepTimeOk(in)
  /\ in.act = "THROW" /\ PolicyCalled(ObservedFire(in), in, now)
  /\ session' = Observed(in)
  /\ fire' = FireStepThrows(ObservedFire(in), in, now)
  /\ result' = NoResult
  /\ hist' = [(IF NewRound(in) THEN FreshHistory ELSE hist)
                EXCEPT !.fired = FALSE, !.aimed = 0, !.aimedSlot = None,
                       !.thrown = ~NewRound(in) /\ hist.plan # {}]
  /\ UNCHANGED now

-----------------------------------------------------------------------------
(* AcknowledgePublication. *)

Published(c) ==
  IF c.source = "PLAN" THEN {[slot |-> c.slot, time |-> now]} ELSE session.trajectory

\* The send failed: a stop as far as the session is concerned.
AckFailed ==
  /\ session' = [ClearProjection(session) EXCEPT !.frictionTime = None]
  /\ fire' = ResetFireReadiness(fire)
  /\ result' = [result EXCEPT !.command = StopCommand("TALOS_UNHEALTHY", @.slot, @.objectReset)]
  /\ hist' = [hist EXCEPT !.plan = {}, !.fired = FALSE, !.thrown = FALSE]
  /\ UNCHANGED now

AckSent ==
  LET c == result.command
  IN /\ session' =
          IF c.valid
          THEN [session EXCEPT !.awaiting = FALSE, !.projection = TRUE,
                               !.trajectory = Published(c)]
          ELSE [session EXCEPT !.awaiting = FALSE]
     /\ hist' = [hist EXCEPT
          !.fired = c.fire,
          !.plan = CASE c.source = "PLAN" ->
                          {[object |-> in.object, slot |-> c.slot, time |-> now] : in \in result.in}
                     [] c.source = "FALLBACK" -> @
                     [] OTHER -> {},
          !.thrown = c.source = "FALLBACK" /\ @]
     /\ UNCHANGED <<now, fire, result>>

AcknowledgePublication(sent) ==
  /\ session.awaiting
  /\ IF sent THEN AckSent ELSE AckFailed

\* ControlRuntimeImpl::SendStop between cycles.
RuntimeStop ==
  /\ ~session.awaiting
  /\ session' = ClearProjection(session)
  /\ fire' = ResetFireReadiness(fire)
  /\ hist' = [hist EXCEPT !.plan = {}, !.fired = FALSE, !.thrown = FALSE]
  /\ UNCHANGED <<now, result>>

Tick ==
  /\ now < MaxTime
  /\ now' = now + 1
  /\ UNCHANGED <<fire, session, result, hist>>

Next ==
  \/ \E in \in Inputs : Step(in)
  \/ \E in \in Inputs : StepThrows(in)
  \/ \E sent \in BOOLEAN : AcknowledgePublication(sent)
  \/ RuntimeStop
  \/ Tick

Spec == Init /\ [][Next]_vars

-----------------------------------------------------------------------------
TypeOK ==
  /\ now \in Nat
  /\ fire \in FireState
  /\ session \in Session
  /\ result \in [in : SUBSET Inputs, command : Command]
  /\ hist \in History

\* Control that reaches the feeder: a command that fires was planned in this
\* cycle for a confirmed track, over a healthy link under external control,
\* from fresh input and with the referee's permission.
FireIsGated ==
  result.command.fire =>
    /\ result.command.valid /\ result.command.source = "PLAN"
    /\ AutoFire
    /\ \A in \in result.in :
         /\ in.tracker = "TRACKING" /\ PredictionFresh(in) /\ in.feedback = "OK"
         /\ in.external /\ in.healthy
         /\ in.referee \/ BypassReferee

\* fire_control.cpp 480-502: a pulse is never resumed.  A cycle that fires
\* either accepts a new shot or continues a pulse whose previous command was
\* published firing, and no pulse outlives its width.
PulseIsContinuous ==
  session.awaiting /\ result.command.fire =>
    /\ result.command.accepted \/ hist.fired
    /\ session.lastStep - fire.lastFireStart < PulseWidth

\* The start of a pulse is at least FireInterval after the start before it;
\* only a new round forgets the interval.
PulseSpacing ==
  [][fire'.lastFireStart # fire.lastFireStart =>
       \/ fire.lastFireStart = None
       \/ fire'.lastFireStart - fire.lastFireStart >= FireInterval
       \/ session'.round # session.round]_vars

\* rule_policy.cpp 143-158: under the rule policy a command fires only after
\* StableCycles consecutive cycles of that policy whose aim at the same slot of the
\* same object was inside the window: cycles of an external policy earn nothing.
RuleFiresWhenStable ==
  session.awaiting /\ result.command.fire /\ (\A in \in result.in : in.act = "RULE") =>
    hist.aimed = StableCycles

\* control_session.cpp 329-362: a fallback command continues a plan that was
\* published for the same slot at most MaxFallbackAge ago, with no stop
\* published since, and never fires.
FallbackFollowsPublishedPlan ==
  session.awaiting /\ result.command.source = "FALLBACK" =>
    /\ ~result.command.fire
    /\ \E p \in hist.plan :
         p.slot = result.command.slot /\ session.lastStep - p.time <= MaxFallbackAge

\* docs/modules/CONTROL_CORE.md 64-65: a failed solve may only use a published
\* trajectory of the same target.
FallbackSameTarget ==
  session.awaiting /\ result.command.source = "FALLBACK" =>
    \A p \in hist.plan : \A in \in result.in : p.object = in.object

\* The same of the cycles between which no policy has thrown: there the session
\* keeps the documented promise.
FallbackSameTargetIfNoThrow == ~hist.thrown => FallbackSameTarget

\* control_session.cpp 386-413: friction wheels turn only while the target is
\* visibly aimed at, or within FrictionHold of the capture that last showed it.
FrictionIsBounded ==
  session.awaiting /\ result.command.friction =>
    \/ \A in \in result.in :
         result.command.valid /\ in.tracker \in {"DETECTING", "TRACKING"}
    \/ hist.visible # None /\ session.lastStep - hist.visible < FrictionHold
=============================================================================
