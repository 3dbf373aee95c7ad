-------------------------- MODULE ControlSessionProofs --------------------------
(***************************************************************************)
(* Theorems about ControlSession for every set of inputs and every value   *)
(* of the constants their assumptions allow.                               *)
(***************************************************************************)
EXTENDS ControlSession, TLAPS

-----------------------------------------------------------------------------
(* The fire-control step, operator by operator. *)

\* The empty value is a member of every optional type.
LEMMA Optionals ==
  /\ None \in SlotOrNone /\ Slots \subseteq SlotOrNone
  /\ None \in Instant /\ Nat \subseteq Instant
  /\ 0 \in 0 .. StableCycles /\ 1 \in 0 .. StableCycles
  /\ None \notin Nat /\ None \notin Slots
  BY FireControlAssumption DEF SlotOrNone, Instant, None

\* rule_policy.hpp, fire_control.cpp 125-134: the resets keep the fire-control
\* state well formed, end the pulse and keep the interval.
LEMMA ResetsType ==
  ASSUME NEW f \in FireState
  PROVE  /\ ResetFireReadiness(f) \in FireState
         /\ ResetFireReadiness(f).pulseUntil = None
         /\ ResetFireReadiness(f).lastFireStart = f.lastFireStart
         /\ ResetSelection(f) \in FireState
         /\ ResetSelection(f).pulseUntil = None
         /\ ResetSelection(f).lastFireStart = f.lastFireStart
         /\ ResetRuleSelection(f) \in FireState
         /\ ResetRuleSelection(f).pulseUntil = f.pulseUntil
         /\ ResetRuleSelection(f).lastFireStart = f.lastFireStart
<1>2. \A g \in FireState :
        /\ ResetFireReadiness(g) \in FireState
        /\ ResetFireReadiness(g).pulseUntil = None
        /\ ResetFireReadiness(g).lastFireStart = g.lastFireStart
  BY Optionals DEF FireState, ResetFireReadiness
<1>3. /\ ResetRuleSelection(f) \in FireState
      /\ ResetRuleSelection(f).pulseUntil = f.pulseUntil
      /\ ResetRuleSelection(f).lastFireStart = f.lastFireStart
  BY Optionals DEF FireState, ResetRuleSelection
<1>4. /\ [ResetRuleSelection(f) EXCEPT !.externalSlot = None] \in FireState
      /\ [ResetRuleSelection(f) EXCEPT !.externalSlot = None].lastFireStart = f.lastFireStart
  BY Optionals, <1>3 DEF FireState
<1> QED BY <1>2, <1>3, <1>4 DEF ResetSelection

\* fire_control.cpp 239-309: identifying the target keeps a pulse or ends it.
LEMMA IdentifyType ==
  ASSUME NEW f \in FireState, NEW in \in CycleInput, NEW t \in Nat
  PROVE  /\ Identify(f, in, t) \in FireState
         /\ Identify(f, in, t).pulseUntil \in {f.pulseUntil, None}
         /\ Identify(f, in, t).lastFireStart = f.lastFireStart
<1> DEFINE external == in.act # "RULE"
           f1 == IF f.externalMode # external
                 THEN [ResetSelection(f) EXCEPT !.externalMode = external] ELSE f
           f2 == IF f1.object # in.object
                 THEN [ResetSelection(f1) EXCEPT !.object = in.object] ELSE f1
<1>1. /\ f1 \in FireState
      /\ f1.pulseUntil \in {f.pulseUntil, None}
      /\ f1.lastFireStart = f.lastFireStart
  BY ResetsType DEF FireState
<1>2. /\ f2 \in FireState
      /\ f2.pulseUntil \in {f.pulseUntil, None}
      /\ f2.lastFireStart = f.lastFireStart
  <2> HIDE DEF f1
  <2>1. in.object \in Objects
    BY DEF CycleInput
  <2>2. /\ ResetSelection(f1) \in FireState
        /\ ResetSelection(f1).pulseUntil = None
        /\ ResetSelection(f1).lastFireStart = f1.lastFireStart
    BY <1>1, ResetsType
  <2> QED BY <1>1, <2>1, <2>2 DEF FireState
<1> HIDE DEF f2
<1>3. Identify(f, in, t) = [f2 EXCEPT !.tempLostSince =
        IF in.tracker # "TEMP_LOST" THEN None ELSE IF @ = None THEN t ELSE @]
  BY DEF Identify, f2
<1> QED BY <1>2, <1>3, Optionals DEF FireState

\* rule_policy.cpp 57-116: choosing a slot touches neither pulse nor interval.
LEMMA SelectType ==
  ASSUME NEW f \in FireState, NEW in \in CycleInput, NEW t \in Nat
  PROVE  /\ Select(f, in, t) \in FireState
         /\ Select(f, in, t).pulseUntil = f.pulseUntil
         /\ Select(f, in, t).lastFireStart = f.lastFireStart
<1>1. /\ HoldThroughLoss(f, in) \in FireState
      /\ HoldThroughLoss(f, in).pulseUntil = f.pulseUntil
      /\ HoldThroughLoss(f, in).lastFireStart = f.lastFireStart
  BY ResetsType, Optionals DEF HoldThroughLoss, FireState
<1>2. in.best \in SlotOrNone
  BY DEF CycleInput
<1>3. /\ HoldOrSwitch(f, in, t) \in FireState
      /\ HoldOrSwitch(f, in, t).pulseUntil = f.pulseUntil
      /\ HoldOrSwitch(f, in, t).lastFireStart = f.lastFireStart
  BY <1>2, Optionals DEF HoldOrSwitch, PendingSince, FireState
<1>4. /\ Acquire(f, in) \in FireState
      /\ Acquire(f, in).pulseUntil = f.pulseUntil
      /\ Acquire(f, in).lastFireStart = f.lastFireStart
  BY <1>2, Optionals DEF Acquire, FireState
<1>5. /\ SelectSlot(f, in, t) \in FireState
      /\ SelectSlot(f, in, t).pulseUntil = f.pulseUntil
      /\ SelectSlot(f, in, t).lastFireStart = f.lastFireStart
  BY <1>1, <1>3, <1>4 DEF SelectSlot
<1>6. /\ [f EXCEPT !.externalSlot = in.slot] \in FireState
      /\ [f EXCEPT !.externalSlot = in.slot].pulseUntil = f.pulseUntil
      /\ [f EXCEPT !.externalSlot = in.slot].lastFireStart = f.lastFireStart
  BY Optionals DEF FireState, CycleInput
<1> QED BY <1>5, <1>6 DEF Select

\* fire_control.cpp 380-387: a switch of slot keeps a pulse or ends it.
LEMMA AfterSwitchType ==
  ASSUME NEW f \in FireState, NEW g \in FireState
  PROVE  /\ AfterSwitch(f, g) \in FireState
         /\ AfterSwitch(f, g).pulseUntil \in {g.pulseUntil, None}
         /\ AfterSwitch(f, g).lastFireStart = g.lastFireStart
  BY Optionals DEF AfterSwitch, FireState

\* rule_policy.cpp 143-151: the stability count stays within StableCycles.
LEMMA CountStableType ==
  ASSUME NEW f \in FireState, NEW in \in CycleInput, NEW s \in SlotOrNone
  PROVE  /\ CountStable(f, in, s) \in FireState
         /\ CountStable(f, in, s).pulseUntil = f.pulseUntil
         /\ CountStable(f, in, s).lastFireStart = f.lastFireStart
<1>1. f.stableCycles \in 0 .. StableCycles
  BY DEF FireState
<1>2. (IF f.stableCycles < StableCycles THEN f.stableCycles + 1 ELSE f.stableCycles)
        \in 0 .. StableCycles
  BY <1>1, FireControlAssumption
<1>3. (IF in.aim THEN 1 ELSE 0) \in 0 .. StableCycles
  BY FireControlAssumption
<1> QED BY <1>2, <1>3 DEF CountStable, FireState

\* fire_control.cpp 463-480: what an empty block says of the cycle.
LEMMA FireBlockGates ==
  ASSUME NEW f \in FireState, NEW in \in CycleInput, NEW external \in BOOLEAN
  PROVE  /\ FireBlock(f, in, external) \in RejectReasons \ {"MPC_FAILED"}
         /\ FireBlock(f, in, external) = "NONE" =>
              AutoFire /\ external /\ in.tracker = "TRACKING" /\ (in.referee \/ BypassReferee)
<1>1. Heuristic(f, in) \in RejectReasons \ {"MPC_FAILED"}
  BY DEF Heuristic, RejectReasons
<1>2. FireBlock(f, in, external) \in RejectReasons \ {"MPC_FAILED"}
  BY <1>1 DEF FireBlock, RejectReasons
<1> QED BY <1>2 DEF FireBlock

\* A running pulse ends PulseWidth after the shot that started it.
PulseMatchesShot(f) ==
  f.pulseUntil # None => f.lastFireStart # None /\ f.pulseUntil = f.lastFireStart + PulseWidth

\* What a cycle at instant t may do to the pulse and the interval.
PulseStep(f, g, c, t) ==
  /\ PulseMatchesShot(f) => PulseMatchesShot(g)
  /\ PulseActive(g, t) <=> c.fire
  /\ c.fire => c.accepted \/ PulseActive(f, t)
  /\ g.lastFireStart # f.lastFireStart => g.lastFireStart = t /\ IntervalReady(f, t)

\* A command of the fire control: a plan for a slot or a stop.
CommandShape(c) ==
  /\ c \in Command
  /\ c.valid => c.source = "PLAN" /\ c.slot \in Slots /\ c.reason # "MPC_FAILED"
  /\ ~c.valid => c.source = "STOP" /\ ~c.fire

\* What the cycle's input must have been for its command to fire.
FiresOnlyWhen(in, external, c) ==
  c.fire => AutoFire /\ external /\ in.tracker = "TRACKING" /\ (in.referee \/ BypassReferee)

\* fire_control.cpp 446-507: a planned cycle and the pulse.
LEMMA PlanStep ==
  ASSUME NEW f \in FireState, NEW in \in CycleInput, NEW t \in Nat,
         NEW external \in BOOLEAN, NEW s \in Slots, NEW reset \in BOOLEAN
  PROVE  /\ AfterPlan(f, in, t, external) \in FireState
         /\ CommandShape(PlanCommand(f, in, t, external, s, reset))
         /\ FiresOnlyWhen(in, external, PlanCommand(f, in, t, external, s, reset))
         /\ PulseStep(f, AfterPlan(f, in, t, external),
                      PlanCommand(f, in, t, external, s, reset), t)
<1> DEFINE g == AfterPlan(f, in, t, external)
           c == PlanCommand(f, in, t, external, s, reset)
           eligible == FireBlock(f, in, external) = "NONE"
<1>1. PulseReason(f, in, t) \in RejectReasons \ {"MPC_FAILED"}
  BY DEF PulseReason, RejectReasons
<1>2. PulseWidth \in Nat /\ PulseWidth > 0
  BY FireControlAssumption
<1>3. PulseActive(f, t) \in BOOLEAN /\ ShotAccepted(f, in, t) \in BOOLEAN
  BY DEF PulseActive, ShotAccepted
<1>4. /\ c \in Command
      /\ c.valid /\ c.source = "PLAN" /\ c.slot = s /\ c.reason # "MPC_FAILED"
      /\ c.fire <=> eligible /\ (PulseActive(f, t) \/ ShotAccepted(f, in, t))
      /\ c.accepted <=> eligible /\ ShotAccepted(f, in, t)
  <2>1. (IF eligible THEN PulseReason(f, in, t) ELSE FireBlock(f, in, external))
          \in RejectReasons \ {"MPC_FAILED"}
    BY <1>1, FireBlockGates
  <2> QED BY <1>3, <2>1, Optionals DEF PlanCommand, Command
<1>5. CASE ~eligible
  <2>1. g = [f EXCEPT !.pulseUntil = None]
    BY <1>5 DEF AfterPlan
  <2>2. g \in FireState /\ g.pulseUntil = None /\ g.lastFireStart = f.lastFireStart
    BY <2>1, Optionals DEF FireState
  <2> QED BY <1>4, <1>5, <2>2
       DEF CommandShape, FiresOnlyWhen, PulseStep, PulseMatchesShot, PulseActive
<1>6. CASE eligible /\ ShotAccepted(f, in, t)
  <2>1. g = [f EXCEPT !.lastFireStart = t, !.pulseUntil = t + PulseWidth]
    BY <1>6 DEF AfterPlan
  <2>2. /\ g \in FireState /\ g.lastFireStart = t /\ g.pulseUntil = t + PulseWidth
        /\ t # None /\ t + PulseWidth # None /\ t < t + PulseWidth
    <3>1. t \in Instant /\ t + PulseWidth \in Instant
      BY <1>2 DEF Instant
    <3>2. g \in FireState /\ g.lastFireStart = t /\ g.pulseUntil = t + PulseWidth
      BY <2>1, <3>1 DEF FireState
    <3>3. t # None /\ t + PulseWidth # None /\ t < t + PulseWidth
      BY <1>2 DEF None
    <3> QED BY <3>2, <3>3
  <2>3. IntervalReady(f, t)
    BY <1>6 DEF ShotAccepted
  <2>4. FiresOnlyWhen(in, external, c)
    BY <1>6, FireBlockGates DEF FiresOnlyWhen
  <2> QED BY <1>4, <1>6, <2>2, <2>3, <2>4
       DEF CommandShape, PulseStep, PulseMatchesShot, PulseActive
<1>7. CASE eligible /\ ~ShotAccepted(f, in, t)
  <2>1. g = f
    BY <1>7 DEF AfterPlan
  <2>2. FiresOnlyWhen(in, external, c)
    BY <1>7, FireBlockGates DEF FiresOnlyWhen
  <2> QED BY <1>4, <1>7, <2>1, <2>2 DEF CommandShape, PulseStep
<1> QED BY <1>5, <1>6, <1>7

\* A stop of the fire control ends the pulse.
LEMMA StopStep ==
  ASSUME NEW f \in FireState, NEW g \in FireState, NEW t \in Nat,
         NEW in \in CycleInput, NEW external \in BOOLEAN,
         NEW reason \in RejectReasons, NEW s \in SlotOrNone, NEW reset \in BOOLEAN,
         g.pulseUntil = None, g.lastFireStart = f.lastFireStart
  PROVE  /\ CommandShape(StopCommand(reason, s, reset))
         /\ FiresOnlyWhen(in, external, StopCommand(reason, s, reset))
         /\ PulseStep(f, g, StopCommand(reason, s, reset), t)
  BY DEF CommandShape, FiresOnlyWhen, PulseStep, PulseMatchesShot, PulseActive,
         StopCommand, Command

\* The summary of one cycle of the fire control.
CycleOf(f, in, t, external, step) ==
  /\ step.fire \in FireState
  /\ CommandShape(step.command)
  /\ FiresOnlyWhen(in, external, step.command)
  /\ PulseStep(f, step.fire, step.command, t)

\* fire_control.cpp 387-507: aiming and everything after it.
LEMMA AimStep ==
  ASSUME NEW f \in FireState, NEW in \in CycleInput, NEW t \in Nat,
         NEW external \in BOOLEAN, NEW reset \in BOOLEAN
  PROVE  CycleOf(f, in, t, external, Aim(f, in, t, external, reset))
<1> DEFINE g == AfterSwitch(f, Select(f, in, t))
           slot == SelectedSlot(g)
           e == IF in.act = "RULE" THEN CountStable(g, in, slot) ELSE g
<1>0. Aim(f, in, t, external, reset) =
        IF slot = None THEN Unaimed(g, "NO_SHOOTABLE_ARMOR", slot, reset)
        ELSE IF ~in.ballistic THEN Unaimed(g, "BALLISTIC_UNSOLVABLE", slot, reset)
        ELSE IF ~in.planned THEN Unaimed(g, "MPC_FAILED", slot, reset)
        ELSE [fire |-> AfterPlan(e, in, t, external),
              command |-> PlanCommand(e, in, t, external, slot, reset)]
  BY DEF Aim
<1>1. g \in FireState /\ g.pulseUntil \in {f.pulseUntil, None}
      /\ g.lastFireStart = f.lastFireStart
  BY SelectType, AfterSwitchType
<1>2. slot \in SlotOrNone
  BY <1>1 DEF SelectedSlot, FireState
<1> HIDE DEF g, slot
<1>3. e \in FireState /\ e.pulseUntil \in {f.pulseUntil, None}
      /\ e.lastFireStart = f.lastFireStart
  BY <1>1, <1>2, CountStableType
<1>4. \A reason \in RejectReasons :
        CycleOf(f, in, t, external, Unaimed(g, reason, slot, reset))
  <2> TAKE reason \in RejectReasons
  <2>1. /\ ResetFireReadiness(g) \in FireState
        /\ ResetFireReadiness(g).pulseUntil = None
        /\ ResetFireReadiness(g).lastFireStart = f.lastFireStart
    BY <1>1, ResetsType
  <2> QED BY <1>2, <2>1, StopStep DEF Unaimed, CycleOf
<1>5. ASSUME slot # None
      PROVE CycleOf(f, in, t, external,
                    [fire |-> AfterPlan(e, in, t, external),
                     command |-> PlanCommand(e, in, t, external, slot, reset)])
  <2> HIDE DEF e
  <2> DEFINE h == AfterPlan(e, in, t, external)
             c == PlanCommand(e, in, t, external, slot, reset)
  <2>1. slot \in Slots
    BY <1>2, <1>5 DEF SlotOrNone
  <2>2. h \in FireState /\ CommandShape(c) /\ FiresOnlyWhen(in, external, c)
        /\ PulseStep(e, h, c, t)
    BY <1>3, <2>1, PlanStep
  <2> HIDE DEF h, c
  <2>3. PulseStep(f, h, c, t)
    BY <1>3, <2>2 DEF PulseStep, PulseMatchesShot, PulseActive, IntervalReady
  <2> QED BY <2>2, <2>3 DEF CycleOf, h, c
<1>6. /\ CycleOf(f, in, t, external, Unaimed(g, "NO_SHOOTABLE_ARMOR", slot, reset))
      /\ CycleOf(f, in, t, external, Unaimed(g, "BALLISTIC_UNSOLVABLE", slot, reset))
      /\ CycleOf(f, in, t, external, Unaimed(g, "MPC_FAILED", slot, reset))
  BY <1>4 DEF RejectReasons
<1> HIDE DEF e
<1> QED BY <1>0, <1>5, <1>6

\* fire_control.cpp 225-509: the whole cycle; it fires only from fresh input.
LEMMA FireStepCycle ==
  ASSUME NEW f \in FireState, NEW in \in CycleInput, NEW t \in Nat, NEW external \in BOOLEAN
  PROVE  /\ CycleOf(f, in, t, external, FireStep(f, in, t, external))
         /\ FireStep(f, in, t, external).command.fire =>
              PredictionFresh(in) /\ in.feedback = "OK"
<1> DEFINE g == Identify(f, in, t)
           reset == f.object # in.object
<1>1. g \in FireState /\ g.pulseUntil \in {f.pulseUntil, None}
      /\ g.lastFireStart = f.lastFireStart
  BY IdentifyType
<1>2. FireStep(f, in, t, external) =
        IF ~InputAdmitted(g, in, t)
        THEN [fire |-> ResetSelection(g),
              command |-> StopCommand(InputReason(g, in, t), None, reset)]
        ELSE IF in.act = "INVALID" THEN Unaimed(g, "INVALID_ACTION", None, reset)
        ELSE Aim(g, in, t, external, reset)
  BY DEF FireStep
<1>3. InputReason(g, in, t) \in RejectReasons /\ "INVALID_ACTION" \in RejectReasons
  BY DEF InputReason, RejectReasons
<1>4. reset \in BOOLEAN
  OBVIOUS
<1> HIDE DEF g, reset
<1>5. CASE ~InputAdmitted(g, in, t)
  <2>1. /\ ResetSelection(g) \in FireState
        /\ ResetSelection(g).pulseUntil = None
        /\ ResetSelection(g).lastFireStart = f.lastFireStart
    BY <1>1, ResetsType
  <2>2. CycleOf(f, in, t, external,
                [fire |-> ResetSelection(g),
                 command |-> StopCommand(InputReason(g, in, t), None, reset)])
    BY <1>3, <1>4, <2>1, StopStep, Optionals DEF CycleOf
  <2> QED BY <1>2, <1>5, <2>2 DEF StopCommand
<1>6. CASE InputAdmitted(g, in, t) /\ in.act = "INVALID"
  <2>1. /\ ResetFireReadiness(g) \in FireState
        /\ ResetFireReadiness(g).pulseUntil = None
        /\ ResetFireReadiness(g).lastFireStart = f.lastFireStart
    BY <1>1, ResetsType
  <2>2. CycleOf(f, in, t, external, Unaimed(g, "INVALID_ACTION", None, reset))
    BY <1>3, <1>4, <2>1, StopStep, Optionals DEF CycleOf, Unaimed
  <2> QED BY <1>2, <1>6, <2>2 DEF StopCommand, Unaimed
<1>7. CASE InputAdmitted(g, in, t) /\ in.act # "INVALID"
  <2>1. CycleOf(g, in, t, external, Aim(g, in, t, external, reset))
    BY <1>1, <1>4, AimStep
  <2>2. CycleOf(f, in, t, external, Aim(g, in, t, external, reset))
    BY <1>1, <2>1 DEF CycleOf, PulseStep, PulseMatchesShot, PulseActive, IntervalReady
  <2>3. PredictionFresh(in) /\ in.feedback = "OK"
    BY <1>7 DEF InputAdmitted
  <2> QED BY <1>2, <1>7, <2>2, <2>3
<1> QED BY <1>5, <1>6, <1>7

-----------------------------------------------------------------------------
(* The inductive invariant. *)

\* A command awaiting acknowledgement, and the input it was computed from.
ResultInv ==
  /\ session.awaiting => session.lastStep # None /\ \E in \in Inputs : result.in = {in}
  /\ result.command.source = "PLAN" => result.command.slot \in Slots
  /\ result.command.valid <=> result.command.source # "STOP"
  /\ result.command.fire => result.command.source = "PLAN"

\* The cached trajectory is the plan the gimbal was last given.
PlanInv ==
  /\ session.trajectory # {} => session.projection
  /\ \A p \in session.trajectory :
       \E q \in hist.plan : q.slot = p.slot /\ q.time = p.time
  /\ session.awaiting /\ result.command.source = "STOP" => session.trajectory = {}
  /\ session.awaiting /\ result.command.source = "FALLBACK" =>
       \E p \in session.trajectory :
         p.slot = result.command.slot /\ session.lastStep - p.time <= MaxFallbackAge

\* A running pulse and the command that carries it go together.
PulseInv ==
  /\ PulseMatchesShot(fire)
  /\ session.lastStep <= now
  /\ session.awaiting => (PulseActive(fire, session.lastStep) <=> result.command.fire)
  /\ session.awaiting /\ result.command.fire => result.command.accepted \/ hist.fired
  /\ ~session.awaiting /\ PulseActive(fire, session.lastStep) => hist.fired

IInv == TypeOK /\ ResultInv /\ FireIsGated /\ PlanInv /\ PulseInv

-----------------------------------------------------------------------------
(* What Step does before and after the fire control. *)

\* The state a caller may call Step in.
Ready(in) == IInv /\ ~session.awaiting /\ in \in Inputs /\ in.age <= now

\* control_session.cpp 199-252: a new round or a transport change only takes
\* away: the trajectory shrinks and a pulse continues or ends.
LEMMA ObservedFacts ==
  ASSUME NEW in, Ready(in)
  PROVE  /\ in \in CycleInput
         /\ Observed(in) \in Session /\ ObservedFire(in) \in FireState
         /\ Observed(in).round = {in.round} /\ Observed(in).lastStep = now
         /\ Observed(in).awaiting = FALSE
         /\ Observed(in).trajectory \subseteq session.trajectory
         /\ Observed(in).trajectory # {} => Observed(in).projection
         /\ NewRound(in) => Observed(in).trajectory = {} /\ session.round # {in.round}
         /\ PulseMatchesShot(ObservedFire(in))
         /\ PulseActive(ObservedFire(in), now) => hist.fired /\ ~NewRound(in)
         /\ ObservedFire(in).lastFireStart =
              IF NewRound(in) THEN None ELSE fire.lastFireStart
<1>1. in \in CycleInput /\ in.round \in Nat /\ in.external \in BOOLEAN /\ in.healthy \in BOOLEAN
  BY SessionAssumption DEF Ready, CycleInput
<1>2. now \in Nat /\ session \in Session /\ fire \in FireState /\ ~session.awaiting
  BY DEF Ready, IInv, TypeOK
<1>3. /\ FreshSession \in Session /\ FreshSession.trajectory = {} /\ ~FreshSession.awaiting
      /\ FreshFireState \in FireState /\ FreshFireState.pulseUntil = None
      /\ FreshFireState.lastFireStart = None
  BY Optionals DEF FreshSession, Session, FreshFireState, FireState
<1>4. /\ Entered(in) \in Session /\ Entered(in).round = {in.round}
      /\ Entered(in).lastStep = now /\ ~Entered(in).awaiting
      /\ Entered(in).trajectory = (IF NewRound(in) THEN {} ELSE session.trajectory)
      /\ ~NewRound(in) => Entered(in).projection = session.projection
  BY <1>1, <1>2, <1>3, Optionals DEF Entered, Session
<1>5. /\ ClearProjection(Entered(in)) \in Session
      /\ ClearProjection(Entered(in)).round = {in.round}
      /\ ClearProjection(Entered(in)).lastStep = now
      /\ ClearProjection(Entered(in)).trajectory = {}
      /\ ~ClearProjection(Entered(in)).awaiting
  BY <1>4 DEF ClearProjection, Session
<1>6. session.trajectory # {} => session.projection
  BY DEF Ready, IInv, PlanInv
<1>7. /\ Observed(in) \in Session
      /\ Observed(in).round = {in.round} /\ Observed(in).lastStep = now
      /\ Observed(in).awaiting = FALSE
      /\ Observed(in).trajectory \subseteq session.trajectory
      /\ Observed(in).trajectory # {} => Observed(in).projection
      /\ NewRound(in) => Observed(in).trajectory = {}
  <2> DEFINE s == IF TransportChanged(Entered(in), in)
                  THEN ClearProjection(Entered(in)) ELSE Entered(in)
  <2>1. /\ s \in Session /\ s.round = {in.round} /\ s.lastStep = now /\ ~s.awaiting
        /\ s.trajectory \subseteq session.trajectory
        /\ s.trajectory # {} => s.projection
        /\ NewRound(in) => s.trajectory = {}
    BY <1>4, <1>5, <1>6
  <2>2. Observed(in) = [s EXCEPT !.lastExternal = {in.external}, !.lastHealthy = {in.healthy}]
    BY DEF Observed
  <2> HIDE DEF s
  <2>3. {in.external} \in SUBSET BOOLEAN /\ {in.healthy} \in SUBSET BOOLEAN
    BY <1>1
  <2> QED BY <2>1, <2>2, <2>3 DEF Session
<1>8. session.round # {in.round} \/ ~NewRound(in)
  BY DEF NewRound
<1>9. EnteredFire(in) = (IF NewRound(in) THEN FreshFireState ELSE fire)
  BY DEF EnteredFire
<1>10. EnteredFire(in) \in FireState
  BY <1>2, <1>3, <1>9
<1>11. /\ ObservedFire(in) \in FireState
       /\ ObservedFire(in).pulseUntil \in {EnteredFire(in).pulseUntil, None}
       /\ ObservedFire(in).lastFireStart = EnteredFire(in).lastFireStart
  BY <1>10, ResetsType DEF ObservedFire
<1>12. PulseMatchesShot(ObservedFire(in))
  BY <1>3, <1>9, <1>11 DEF Ready, IInv, PulseInv, PulseMatchesShot
<1>13. PulseActive(ObservedFire(in), now) => hist.fired /\ ~NewRound(in)
  <2> SUFFICES ASSUME PulseActive(ObservedFire(in), now) PROVE hist.fired /\ ~NewRound(in)
    OBVIOUS
  <2>1. ~NewRound(in) /\ PulseActive(fire, now)
    BY <1>3, <1>9, <1>11 DEF PulseActive
  <2>2. session.lastStep \in Int /\ session.lastStep <= now /\ fire.pulseUntil \in Int
    BY <1>2 DEF Ready, IInv, PulseInv, Session, FireState, Instant, None
  <2>3. PulseActive(fire, session.lastStep)
    BY <1>2, <2>1, <2>2 DEF PulseActive
  <2> QED BY <1>2, <2>1, <2>3 DEF Ready, IInv, PulseInv
<1> QED BY <1>1, <1>3, <1>7, <1>8, <1>9, <1>11, <1>12, <1>13

\* control_session.cpp 258-371: the command Step decides on.
LEMMA DecidedFacts ==
  ASSUME NEW in, Ready(in)
  PROVE  LET c == Decided(in)
         IN /\ c \in Command
            /\ c.source = "PLAN" => c.slot \in Slots
            /\ c.valid <=> c.source # "STOP"
            /\ c.fire => /\ c.source = "PLAN"
                         /\ AutoFire /\ in.tracker = "TRACKING"
                         /\ PredictionFresh(in) /\ in.feedback = "OK"
                         /\ in.external /\ in.healthy /\ (in.referee \/ BypassReferee)
            /\ c.fire <=> Stepped(in).command.fire
            /\ c.accepted = Stepped(in).command.accepted
            /\ c.source = "FALLBACK" =>
                 \E p \in Cached(Observed(in), c).trajectory :
                   p.slot = c.slot /\ now - p.time <= MaxFallbackAge
<1> DEFINE external == in.external /\ in.healthy
           s == Stepped(in).command
           w == WithFallback(Cached(Observed(in), s), in, s)
           c == Decided(in)
<1>1. in \in CycleInput /\ in.external \in BOOLEAN /\ in.healthy \in BOOLEAN
      /\ ObservedFire(in) \in FireState /\ now \in Nat
  <2>1. in \in CycleInput /\ ObservedFire(in) \in FireState
    BY ObservedFacts
  <2>2. now \in Nat
    BY DEF Ready, IInv, TypeOK
  <2> QED BY <2>1, <2>2 DEF CycleInput
<1>2. /\ CommandShape(s) /\ FiresOnlyWhen(in, external, s)
      /\ s.fire => PredictionFresh(in) /\ in.feedback = "OK"
  BY <1>1, FireStepCycle DEF Stepped, CycleOf
<1>3. c = TransportGate(in, w)
  BY DEF Decided
<1> HIDE DEF s, c
<1>4. CASE \E p \in Cached(Observed(in), s).trajectory :
             FallbackUsable(Cached(Observed(in), s), in, s, p)
  <2>1. w = [s EXCEPT !.valid = TRUE, !.source = "FALLBACK"]
    BY <1>4 DEF WithFallback
  <2>2. in.external /\ in.healthy
    BY <1>4 DEF FallbackUsable
  <2>3. c = w
    BY <1>3, <2>2 DEF TransportGate
  <2>4. s.source # "PLAN" /\ ~s.fire
    BY <1>2, <1>4 DEF FallbackUsable, CommandShape, FiresOnlyWhen, Command
  <2>5. /\ c \in Command /\ c.valid /\ c.source = "FALLBACK" /\ c.fire = s.fire
        /\ c.accepted = s.accepted /\ c.slot = s.slot /\ c.objectReset = s.objectReset
    BY <1>2, <2>1, <2>3 DEF CommandShape, Command
  <2>6. Cached(Observed(in), c) = Cached(Observed(in), s)
    BY <2>5 DEF Cached
  <2>7. \E p \in Cached(Observed(in), c).trajectory :
          p.slot = c.slot /\ now - p.time <= MaxFallbackAge
    BY <1>4, <2>5, <2>6 DEF FallbackUsable, FallbackAge
  <2> QED BY <2>4, <2>5, <2>7 DEF s, c
<1>5. CASE ~(\E p \in Cached(Observed(in), s).trajectory :
               FallbackUsable(Cached(Observed(in), s), in, s, p))
  <2>1. w = s
    BY <1>5 DEF WithFallback
  <2>2. CASE in.external /\ in.healthy
    <3>1. c = s
      BY <1>3, <2>1, <2>2 DEF TransportGate
    <3> QED BY <1>2, <2>2, <3>1 DEF CommandShape, FiresOnlyWhen, s, c
  <2>3. CASE ~(in.external /\ in.healthy)
    <3>1. c = [s EXCEPT !.valid = FALSE, !.fire = FALSE, !.source = "STOP",
                        !.reason = IF in.external THEN "TALOS_UNHEALTHY"
                                   ELSE "EXTERNAL_CONTROL_DISABLED"]
      BY <1>3, <2>1, <2>3 DEF TransportGate
    <3>2. /\ c \in Command /\ ~c.valid /\ ~c.fire /\ c.source = "STOP"
          /\ c.accepted = s.accepted
      BY <1>2, <3>1 DEF CommandShape, Command, RejectReasons
    <3>3. ~s.fire
      BY <1>2, <2>3 DEF FiresOnlyWhen
    <3> QED BY <3>2, <3>3 DEF s, c
  <2> QED BY <2>2, <2>3
<1> QED BY <1>4, <1>5

\* control_session.cpp 262-264, 373-384: a stop ends the projection, and the
\* running pulse is exactly what the decided command carries.
LEMMA ConcludedFacts ==
  ASSUME NEW in, Ready(in)
  PROVE  LET c == Decided(in)
         IN /\ Concluded(in, c) \in Session /\ ConcludedFire(in, c) \in FireState
            /\ Concluded(in, c).lastStep = now /\ Concluded(in, c).awaiting = FALSE
            /\ Concluded(in, c).round = {in.round}
            /\ Concluded(in, c).trajectory \subseteq Observed(in).trajectory
            /\ Concluded(in, c).trajectory # {} => Concluded(in, c).projection
            /\ ~c.valid => Concluded(in, c).trajectory = {}
            /\ c.valid => Concluded(in, c).trajectory = Cached(Observed(in), c).trajectory
            /\ PulseMatchesShot(ConcludedFire(in, c))
            /\ PulseActive(ConcludedFire(in, c), now) <=> c.fire
            /\ c.fire => c.accepted \/ (hist.fired /\ ~NewRound(in))
            /\ ConcludedFire(in, c).lastFireStart # ObservedFire(in).lastFireStart =>
                 /\ ConcludedFire(in, c).lastFireStart = now
                 /\ IntervalReady(ObservedFire(in), now)
<1> DEFINE c == Decided(in)
           s == Cached(Observed(in), c)
           r == Stepped(in)
<1>1. /\ s \in Session /\ s.lastStep = now /\ s.awaiting = FALSE
      /\ s.round = {in.round} /\ s.projection = Observed(in).projection
      /\ s.trajectory \subseteq Observed(in).trajectory
      /\ s.trajectory # {} => s.projection
  BY ObservedFacts DEF Cached, Session
<1>2. /\ r.fire \in FireState
      /\ PulseStep(ObservedFire(in), r.fire, r.command, now)
  <2>1. now \in Nat
    BY DEF Ready, IInv, TypeOK
  <2>2. (in.external /\ in.healthy) \in BOOLEAN
    OBVIOUS
  <2>3. CycleOf(ObservedFire(in), in, now, in.external /\ in.healthy, r)
    BY <2>1, <2>2, ObservedFacts, FireStepCycle DEF Stepped
  <2> QED BY <2>3 DEF CycleOf
<1>3. /\ ClearProjection(s) \in Session /\ ClearProjection(s).lastStep = now
      /\ ClearProjection(s).awaiting = FALSE /\ ClearProjection(s).round = {in.round}
      /\ ClearProjection(s).trajectory = {}
  BY <1>1 DEF ClearProjection, Session
<1>4. /\ ResetFireReadiness(r.fire) \in FireState
      /\ ResetFireReadiness(r.fire).pulseUntil = None
      /\ ResetFireReadiness(r.fire).lastFireStart = r.fire.lastFireStart
  BY <1>2, ResetsType
<1>5. /\ c.fire <=> r.command.fire
      /\ c.accepted = r.command.accepted
      /\ c.fire => c.valid
  BY DecidedFacts
<1>6. Concluded(in, c) = IF ~c.valid /\ s.projection THEN ClearProjection(s) ELSE s
  BY DEF Concluded
<1>7. ConcludedFire(in, c) = IF ~c.valid /\ Observed(in).projection
                          THEN ResetFireReadiness(r.fire) ELSE r.fire
  BY DEF ConcludedFire
<1> HIDE DEF c, s, r
<1>8. /\ Concluded(in, c) \in Session
      /\ Concluded(in, c).lastStep = now /\ Concluded(in, c).awaiting = FALSE
      /\ Concluded(in, c).round = {in.round}
      /\ Concluded(in, c).trajectory \subseteq Observed(in).trajectory
      /\ Concluded(in, c).trajectory # {} => Concluded(in, c).projection
      /\ ~c.valid => Concluded(in, c).trajectory = {}
      /\ c.valid => Concluded(in, c).trajectory = s.trajectory
  BY <1>1, <1>3, <1>6
<1>9. /\ PulseMatchesShot(ObservedFire(in))
      /\ PulseActive(ObservedFire(in), now) => hist.fired /\ ~NewRound(in)
  BY ObservedFacts
<1>10. CASE ~c.valid /\ Observed(in).projection
  <2>1. ConcludedFire(in, c) = ResetFireReadiness(r.fire) /\ ~c.fire
    BY <1>5, <1>7, <1>10
  <2>2. /\ ConcludedFire(in, c) \in FireState /\ PulseMatchesShot(ConcludedFire(in, c))
        /\ ~PulseActive(ConcludedFire(in, c), now)
        /\ ConcludedFire(in, c).lastFireStart = r.fire.lastFireStart
    BY <1>4, <2>1 DEF PulseMatchesShot, PulseActive
  <2> QED BY <1>2, <1>8, <2>1, <2>2 DEF PulseStep, c, s
<1>11. CASE ~(~c.valid /\ Observed(in).projection)
  <2>1. ConcludedFire(in, c) = r.fire
    BY <1>7, <1>11
  <2> QED BY <1>2, <1>5, <1>8, <1>9, <2>1 DEF PulseStep, c, s
<1> QED BY <1>10, <1>11

-----------------------------------------------------------------------------
(* The history variables stay well formed. *)

LEMMA HistoryType ==
  ASSUME NEW in, Ready(in)
  PROVE  /\ AimHistory(in, Decided(in)) \in History
         /\ AimHistory(in, Decided(in)).fired = (IF NewRound(in) THEN FALSE ELSE hist.fired)
         /\ AimHistory(in, Decided(in)).plan = (IF NewRound(in) THEN {} ELSE hist.plan)
<1> DEFINE c == Decided(in)
           h == IF NewRound(in) THEN FreshHistory ELSE hist
           seen == c.source = "PLAN" /\ in.tracker \in {"DETECTING", "TRACKING"} /\ in.age >= 0
           same == c.slot = h.aimedSlot /\ ~c.objectReset
           aimed == IF ~Stepped(in).command.valid \/ ~in.aim \/ in.act # "RULE" THEN 0
                    ELSE IF ~same THEN 1
                    ELSE IF h.aimed < StableCycles THEN h.aimed + 1 ELSE h.aimed
           visible == IF seen /\ now - in.age > h.visible THEN now - in.age ELSE h.visible
<1>1. FreshHistory \in History /\ FreshHistory.fired = FALSE /\ FreshHistory.plan = {}
  BY Optionals DEF FreshHistory, History
<1>2. hist \in History /\ now \in Nat /\ in.age <= now
  BY DEF Ready, IInv, TypeOK
<1>3. h \in History /\ h.fired = (IF NewRound(in) THEN FALSE ELSE hist.fired)
      /\ h.plan = (IF NewRound(in) THEN {} ELSE hist.plan)
  BY <1>1, <1>2
<1>4. AimHistory(in, c) = [h EXCEPT !.aimedSlot = c.slot, !.aimed = aimed, !.visible = visible]
  BY DEF AimHistory
<1>5. c.slot \in SlotOrNone
  BY DecidedFacts DEF Command
<1>6. in.age \in Int
  <2>1. in \in CycleInput
    BY ObservedFacts
  <2> QED BY <2>1 DEF CycleInput
<1> HIDE DEF h, c, seen, same
<1>7. aimed \in 0 .. StableCycles
  <2>1. h.aimed \in 0 .. StableCycles
    BY <1>3 DEF History
  <2> QED BY <2>1, FireControlAssumption
<1>8. visible \in Instant
  <2>1. h.visible \in Instant
    BY <1>3 DEF History
  <2>2. now - in.age \in Nat
    BY <1>2, <1>6
  <2> QED BY <2>1, <2>2, Optionals
<1> HIDE DEF aimed, visible
<1> QED BY <1>3, <1>4, <1>5, <1>7, <1>8 DEF History, c

LEMMA FrictionTimeType ==
  ASSUME NEW in, Ready(in), NEW s, s \in Session, NEW c, c \in Command
  PROVE  FrictionTime(s, in, c) \in Instant /\ Friction(in, c, FrictionTime(s, in, c)) \in BOOLEAN
<1>1. now \in Nat /\ in.age <= now
  BY DEF Ready, IInv, TypeOK
<1>2. in \in CycleInput
  BY ObservedFacts
<1>3. now - in.age \in Nat
  BY <1>1, <1>2 DEF CycleInput
<1>4. s.frictionTime \in Instant
  BY DEF Session
<1> QED BY <1>3, <1>4, Optionals DEF FrictionTime, Friction

-----------------------------------------------------------------------------
(* Every action preserves the inductive invariant. *)

LEMMA StepPreserves ==
  ASSUME IInv, NEW in \in Inputs, Step(in)
  PROVE  IInv'
<1> DEFINE c == Decided(in)
           time == FrictionTime(Concluded(in, c), in, c)
<1>1. Ready(in)
  BY DEF Step, Ready
<1>2. /\ session' = [Concluded(in, c) EXCEPT !.awaiting = TRUE, !.frictionTime = time]
      /\ fire' = ConcludedFire(in, c)
      /\ result' = [in |-> {in}, command |-> [c EXCEPT !.friction = Friction(in, c, time)]]
      /\ result'.in = {in}
      /\ result'.command = [c EXCEPT !.friction = Friction(in, c, time)]
      /\ hist' = AimHistory(in, c) /\ now' = now
  BY DEF Step
<1>3. now \in Nat /\ session \in Session
  BY DEF IInv, TypeOK
<1>4. Concluded(in, c) \in Session /\ c \in Command
  BY <1>1, ConcludedFacts, DecidedFacts
<1>5. time \in Instant /\ Friction(in, c, time) \in BOOLEAN
  BY <1>1, <1>4, FrictionTimeType
<1> HIDE DEF c, time
<1>6. /\ session' \in Session /\ session'.awaiting = TRUE
      /\ session'.trajectory = Concluded(in, c).trajectory
      /\ session'.projection = Concluded(in, c).projection
      /\ session'.lastStep = Concluded(in, c).lastStep
  BY <1>2, <1>4, <1>5 DEF Session
<1>7. /\ result'.command \in Command
      /\ result'.command.valid = c.valid /\ result'.command.fire = c.fire
      /\ result'.command.source = c.source /\ result'.command.slot = c.slot
      /\ result'.command.accepted = c.accepted
  BY <1>2, <1>4, <1>5 DEF Command
<1>8. TypeOK'
  BY <1>1, <1>2, <1>3, <1>6, <1>7, ConcludedFacts, HistoryType DEF TypeOK, c
<1>9. session'.lastStep = now
  BY <1>1, <1>6, ConcludedFacts DEF c
<1>10. ResultInv'
  <2>1. /\ c.source = "PLAN" => c.slot \in Slots
        /\ c.valid <=> c.source # "STOP"
        /\ c.fire => c.source = "PLAN"
    BY <1>1, DecidedFacts DEF c
  <2>2. now # None
    BY <1>3 DEF None
  <2> QED BY <1>2, <1>7, <1>9, <2>1, <2>2 DEF ResultInv
<1>11. FireIsGated'
  <2>1. c.fire => /\ c.source = "PLAN" /\ c.valid
                  /\ AutoFire /\ in.tracker = "TRACKING"
                  /\ PredictionFresh(in) /\ in.feedback = "OK"
                  /\ in.external /\ in.healthy /\ (in.referee \/ BypassReferee)
    BY <1>1, DecidedFacts DEF c
  <2> QED BY <1>2, <1>7, <2>1 DEF FireIsGated
<1>12. PlanInv'
  <2>1. /\ Concluded(in, c).trajectory # {} => Concluded(in, c).projection
        /\ ~c.valid => Concluded(in, c).trajectory = {}
        /\ c.valid => Concluded(in, c).trajectory = Cached(Observed(in), c).trajectory
    BY <1>1, ConcludedFacts DEF c
  <2>2. /\ Concluded(in, c).trajectory \subseteq session.trajectory
        /\ NewRound(in) => Concluded(in, c).trajectory = {}
    BY <1>1, ConcludedFacts, ObservedFacts DEF c
  <2>3. ~NewRound(in) => hist'.plan = hist.plan
    BY <1>1, <1>2, HistoryType DEF c
  <2>4. \A p \in session'.trajectory : \E q \in hist'.plan : q.slot = p.slot /\ q.time = p.time
    BY <1>6, <2>2, <2>3 DEF IInv, PlanInv
  <2>5. /\ c.valid <=> c.source # "STOP"
        /\ c.source = "FALLBACK" =>
             \E p \in Cached(Observed(in), c).trajectory :
               p.slot = c.slot /\ now - p.time <= MaxFallbackAge
    BY <1>1, DecidedFacts DEF c
  <2> QED BY <1>6, <1>7, <1>9, <2>1, <2>4, <2>5 DEF PlanInv
<1>13. PulseInv'
  <2>1. /\ PulseMatchesShot(fire')
        /\ PulseActive(fire', now) <=> c.fire
        /\ c.fire => c.accepted \/ (hist.fired /\ ~NewRound(in))
    BY <1>1, <1>2, ConcludedFacts DEF c
  <2>2. ~NewRound(in) => hist'.fired = hist.fired
    BY <1>1, <1>2, HistoryType DEF c
  <2>3. PulseActive(fire, session.lastStep)' <=> PulseActive(fire', now)
    BY <1>9 DEF PulseActive
  <2>4. PulseMatchesShot(fire)'
    BY <2>1 DEF PulseMatchesShot
  <2> QED BY <1>2, <1>3, <1>6, <1>7, <1>9, <2>1, <2>2, <2>3, <2>4 DEF PulseInv
<1> QED BY <1>8, <1>10, <1>11, <1>12, <1>13 DEF IInv

LEMMA ThrowPreserves ==
  ASSUME IInv, NEW in \in Inputs, StepThrows(in)
  PROVE  IInv'
<1> DEFINE g == Identify(ObservedFire(in), in, now)
           thrown == ~NewRound(in) /\ hist.plan # {}
<1>1. Ready(in) /\ now \in Nat
  BY DEF StepThrows, Ready, IInv, TypeOK
<1>2. g \in FireState
  BY <1>1, ObservedFacts, IdentifyType
<1>3. fire' = ResetFireReadiness(g)
  BY DEF StepThrows, FireStepThrows
<1>4. fire' \in FireState /\ fire'.pulseUntil = None
  BY <1>2, <1>3, ResetsType
<1>5. /\ session' = Observed(in) /\ result' = NoResult /\ now' = now
      /\ hist' = [(IF NewRound(in) THEN FreshHistory ELSE hist)
                    EXCEPT !.fired = FALSE, !.aimed = 0, !.aimedSlot = None,
                           !.thrown = thrown]
  BY DEF StepThrows
<1>6. /\ hist' \in History
      /\ hist'.plan = (IF NewRound(in) THEN {} ELSE hist.plan)
  <2>1. FreshHistory \in History /\ FreshHistory.plan = {}
    BY Optionals DEF FreshHistory, History
  <2>2. hist \in History /\ thrown \in BOOLEAN
    BY DEF IInv, TypeOK
  <2> HIDE DEF thrown
  <2> QED BY <1>5, <2>1, <2>2, Optionals DEF History
<1>7. /\ result' = [in |-> {}, command |-> result'.command]
      /\ result'.in = {} /\ result'.command \in Command
      /\ ~result'.command.valid /\ ~result'.command.fire /\ result'.command.source = "STOP"
  BY <1>5, Optionals DEF NoResult, StopCommand, Command, RejectReasons
<1>8. /\ session' \in Session /\ session'.awaiting = FALSE /\ session'.lastStep = now
      /\ session'.trajectory \subseteq session.trajectory
      /\ session'.trajectory # {} => session'.projection
      /\ NewRound(in) => session'.trajectory = {}
  BY <1>1, <1>5, ObservedFacts
<1>9. TypeOK'
  BY <1>1, <1>4, <1>5, <1>6, <1>7, <1>8 DEF TypeOK
<1>10. ResultInv' /\ FireIsGated'
  BY <1>7, <1>8 DEF ResultInv, FireIsGated
<1>11. PlanInv'
  BY <1>6, <1>8 DEF IInv, PlanInv
<1>12. PulseInv'
  BY <1>1, <1>4, <1>5, <1>8 DEF PulseInv, PulseMatchesShot, PulseActive
<1> QED BY <1>9, <1>10, <1>11, <1>12 DEF IInv

\* ClearProjection together with the fire control's reset.
LEMMA ClearFacts ==
  ASSUME TypeOK
  PROVE  /\ ClearProjection(session) \in Session
         /\ ClearProjection(session).trajectory = {}
         /\ ClearProjection(session).awaiting = FALSE
         /\ ClearProjection(session).lastStep = session.lastStep
         /\ ResetFireReadiness(fire) \in FireState
         /\ ResetFireReadiness(fire).pulseUntil = None
         /\ ResetFireReadiness(fire).lastFireStart = fire.lastFireStart
  BY ResetsType DEF TypeOK, ClearProjection, Session

LEMMA AckFailedPreserves ==
  ASSUME IInv, AckFailed
  PROVE  IInv'
<1>1. /\ session' \in Session /\ session'.trajectory = {} /\ session'.awaiting = FALSE
      /\ session'.lastStep = session.lastStep
      /\ fire' \in FireState /\ fire'.pulseUntil = None
  BY ClearFacts, Optionals DEF IInv, AckFailed, Session
<1>2. result.command \in Command /\ hist \in History /\ now \in Nat /\ result \in [in : SUBSET Inputs, command : Command]
  BY DEF IInv, TypeOK
<1>3. /\ result'.in = result.in
      /\ result'.command = StopCommand("TALOS_UNHEALTHY", result.command.slot,
                                       result.command.objectReset)
  <2>1. result' = [result EXCEPT !.command = StopCommand("TALOS_UNHEALTHY", @.slot, @.objectReset)]
    BY DEF AckFailed
  <2> QED BY <1>2, <2>1
<1>4. /\ result'.command \in Command
      /\ ~result'.command.valid /\ ~result'.command.fire /\ result'.command.source = "STOP"
      /\ result' \in [in : SUBSET Inputs, command : Command]
  <2>1. /\ result'.command \in Command
        /\ ~result'.command.valid /\ ~result'.command.fire /\ result'.command.source = "STOP"
    BY <1>2, <1>3 DEF StopCommand, Command, RejectReasons
  <2>2. result' = [in |-> result.in, command |-> result'.command]
    BY <1>2 DEF AckFailed
  <2> QED BY <1>2, <2>1, <2>2
<1>5. hist' \in History /\ now' = now
  BY <1>2 DEF AckFailed, History
<1>6. TypeOK'
  BY <1>1, <1>2, <1>3, <1>4, <1>5 DEF TypeOK
<1> QED BY <1>1, <1>2, <1>4, <1>5, <1>6
        DEF IInv, ResultInv, FireIsGated, PlanInv, PulseInv, PulseMatchesShot, PulseActive

LEMMA AckSentPreserves ==
  ASSUME IInv, session.awaiting, AckSent
  PROVE  IInv'
<1> DEFINE c == result.command
<1>1. /\ session \in Session /\ fire \in FireState /\ hist \in History /\ now \in Nat
      /\ result \in [in : SUBSET Inputs, command : Command] /\ c \in Command
  BY DEF IInv, TypeOK
<1>2. /\ fire' = fire /\ result' = result /\ now' = now
      /\ session' = IF c.valid
                    THEN [session EXCEPT !.awaiting = FALSE, !.projection = TRUE,
                                         !.trajectory = Published(c)]
                    ELSE [session EXCEPT !.awaiting = FALSE]
      /\ hist' = [hist EXCEPT
           !.fired = c.fire,
           !.plan = CASE c.source = "PLAN" ->
                           {[object |-> in.object, slot |-> c.slot, time |-> now] : in \in result.in}
                      [] c.source = "FALLBACK" -> @
                      [] OTHER -> {},
           !.thrown = c.source = "FALLBACK" /\ @]
  BY DEF AckSent
<1>3. /\ c.source \in {"PLAN", "FALLBACK", "STOP"} /\ c.fire \in BOOLEAN
      /\ c.source = "PLAN" => c.slot \in Slots
      /\ c.valid <=> c.source # "STOP"
  BY <1>1 DEF IInv, ResultInv, Command
<1>4. PICK in \in Inputs : result.in = {in}
  BY DEF IInv, ResultInv
<1>5. in.object \in Objects
  <2>1. in \in CycleInput
    BY <1>4, SessionAssumption
  <2> QED BY <2>1 DEF CycleInput
<1> DEFINE new == [object |-> in.object, slot |-> c.slot, time |-> now]
           plan == CASE c.source = "PLAN" -> {new}
                     [] c.source = "FALLBACK" -> hist.plan
                     [] OTHER -> {}
           thrown == c.source = "FALLBACK" /\ hist.thrown
<1>6. hist' = [hist EXCEPT !.fired = c.fire, !.plan = plan, !.thrown = thrown]
  <2>1. {[object |-> i.object, slot |-> c.slot, time |-> now] : i \in result.in} = {new}
    BY <1>4
  <2> QED BY <1>2, <2>1
<1>7. plan \in SUBSET PublishedPlan
  <2>1. c.source = "PLAN" => new \in PublishedPlan
    BY <1>1, <1>3, <1>5 DEF PublishedPlan
  <2>2. hist.plan \in SUBSET PublishedPlan
    BY <1>1 DEF History
  <2> HIDE DEF new
  <2> QED BY <1>3, <2>1, <2>2
<1>8. hist' \in History /\ hist'.fired = c.fire /\ hist'.plan = plan
  <2>1. thrown \in BOOLEAN
    OBVIOUS
  <2> HIDE DEF plan, c, thrown
  <2> QED BY <1>1, <1>3, <1>6, <1>7, <2>1 DEF History
<1>9. Published(c) = IF c.source = "PLAN" THEN {[slot |-> c.slot, time |-> now]}
                     ELSE session.trajectory
  BY DEF Published
<1>10. Published(c) \in SUBSET Plan
  <2>1. c.source = "PLAN" => [slot |-> c.slot, time |-> now] \in Plan
    BY <1>1, <1>3 DEF Plan
  <2>2. session.trajectory \in SUBSET Plan
    BY <1>1 DEF Session
  <2> QED BY <1>9, <2>1, <2>2
<1>11. /\ session' \in Session /\ session'.awaiting = FALSE
       /\ session'.lastStep = session.lastStep
       /\ c.valid => session'.projection = TRUE /\ session'.trajectory = Published(c)
       /\ ~c.valid => session'.projection = session.projection
                      /\ session'.trajectory = session.trajectory
  BY <1>1, <1>2, <1>10 DEF Session
<1>12. TypeOK'
  BY <1>1, <1>2, <1>8, <1>11 DEF TypeOK
<1>13. ResultInv' /\ FireIsGated'
  BY <1>2, <1>11 DEF IInv, ResultInv, FireIsGated
<1>14. PlanInv'
  <2>1. ~c.valid => session'.trajectory = {}
    BY <1>3, <1>11 DEF IInv, PlanInv
  <2>2. session'.trajectory # {} => session'.projection
    BY <1>11, <2>1
  <2>3. \A p \in session'.trajectory : \E q \in hist'.plan : q.slot = p.slot /\ q.time = p.time
    <3>1. CASE c.source = "PLAN"
      <4>1. session'.trajectory = {[slot |-> c.slot, time |-> now]} /\ hist'.plan = {new}
        BY <1>3, <1>8, <1>9, <1>11, <3>1
      <4> QED BY <4>1
    <3>2. CASE c.source = "FALLBACK"
      <4>1. session'.trajectory = session.trajectory /\ hist'.plan = hist.plan
        BY <1>3, <1>8, <1>9, <1>11, <3>2
      <4> QED BY <4>1 DEF IInv, PlanInv
    <3>3. CASE c.source = "STOP"
      BY <1>3, <2>1, <3>3
    <3> QED BY <1>3, <3>1, <3>2, <3>3
  <2> QED BY <1>11, <2>2, <2>3 DEF PlanInv
<1>15. PulseInv'
  <2>1. PulseActive(fire, session.lastStep) <=> c.fire
    BY DEF IInv, PulseInv
  <2> QED BY <1>2, <1>8, <1>11, <2>1 DEF IInv, PulseInv, PulseMatchesShot, PulseActive
<1> QED BY <1>12, <1>13, <1>14, <1>15 DEF IInv

LEMMA RuntimeStopPreserves ==
  ASSUME IInv, RuntimeStop
  PROVE  IInv'
<1>1. /\ session' \in Session /\ session'.trajectory = {} /\ session'.awaiting = FALSE
      /\ session'.lastStep = session.lastStep
      /\ fire' \in FireState /\ fire'.pulseUntil = None
      /\ result' = result /\ now' = now
  BY ClearFacts DEF IInv, RuntimeStop
<1>2. hist \in History /\ hist' = [hist EXCEPT !.plan = {}, !.fired = FALSE, !.thrown = FALSE]
  BY DEF IInv, TypeOK, RuntimeStop
<1>3. hist' \in History
  BY <1>2 DEF History
<1>4. TypeOK'
  BY <1>1, <1>3 DEF IInv, TypeOK
<1> QED BY <1>1, <1>4
        DEF IInv, ResultInv, FireIsGated, PlanInv, PulseInv, PulseMatchesShot, PulseActive

LEMMA TickPreserves ==
  ASSUME IInv, Tick
  PROVE  IInv'
<1>1. now \in Nat /\ session.lastStep \in Int /\ session.lastStep <= now
  BY DEF IInv, TypeOK, PulseInv, Session, Instant, None
<1>2. now' = now + 1 /\ UNCHANGED <<fire, session, result, hist>>
  BY DEF Tick
<1>3. TypeOK'
  BY <1>1, <1>2 DEF IInv, TypeOK
<1> QED BY <1>1, <1>2, <1>3
        DEF IInv, ResultInv, FireIsGated, PlanInv, PulseInv, PulseMatchesShot, PulseActive

LEMMA InitIInv == Init => IInv
<1> SUFFICES ASSUME Init PROVE IInv
  OBVIOUS
<1>1. FreshFireState \in FireState /\ FreshFireState.pulseUntil = None
  BY Optionals DEF FreshFireState, FireState
<1>2. FreshSession \in Session /\ FreshSession.trajectory = {} /\ ~FreshSession.awaiting
      /\ FreshSession.lastStep = None
  BY Optionals DEF FreshSession, Session
<1>3. FreshHistory \in History
  BY Optionals DEF FreshHistory, History
<1>4. /\ NoResult \in [in : SUBSET Inputs, command : Command]
      /\ ~NoResult.command.valid /\ ~NoResult.command.fire /\ NoResult.command.source = "STOP"
  BY Optionals DEF NoResult, StopCommand, Command, RejectReasons
<1>5. None <= 0
  BY DEF None
<1> QED BY <1>1, <1>2, <1>3, <1>4, <1>5
        DEF Init, IInv, TypeOK, ResultInv, FireIsGated, PlanInv, PulseInv,
            PulseMatchesShot, PulseActive

LEMMA NextIInv == IInv /\ [Next]_vars => IInv'
<1> SUFFICES ASSUME IInv, [Next]_vars PROVE IInv'
  OBVIOUS
<1>1. CASE \E in \in Inputs : Step(in)
  BY <1>1, StepPreserves
<1>2. CASE \E in \in Inputs : StepThrows(in)
  BY <1>2, ThrowPreserves
<1>3. CASE \E sent \in BOOLEAN : AcknowledgePublication(sent)
  BY <1>3, AckSentPreserves, AckFailedPreserves DEF AcknowledgePublication
<1>4. CASE RuntimeStop
  BY <1>4, RuntimeStopPreserves
<1>5. CASE Tick
  BY <1>5, TickPreserves
<1>6. CASE UNCHANGED vars
  BY <1>6 DEF vars, IInv, TypeOK, ResultInv, FireIsGated, PlanInv, PulseInv,
             PulseMatchesShot, PulseActive
<1> QED BY <1>1, <1>2, <1>3, <1>4, <1>5, <1>6 DEF Next

-----------------------------------------------------------------------------
(* What the commands rest on: the evidence of the cycles before.  These      *)
(* parts are inductive relative to IInv.                                     *)

\* The stability count of the rule policy never runs ahead of the aimed cycles.
StableInv ==
  /\ fire.stableCycles # 0 =>
       /\ ~fire.externalMode
       /\ fire.stableSlot = hist.aimedSlot
       /\ fire.stableCycles <= hist.aimed
  /\ session.awaiting /\ result.command.fire /\ (\A in \in result.in : in.act = "RULE") =>
       fire.stableCycles = StableCycles

\* Unless the policy threw in between, the cached trajectory and a fallback that
\* uses it are about the object the fire control last identified.
TargetInv ==
  /\ session.trajectory # {} /\ ~session.awaiting /\ ~hist.thrown =>
       \A p \in hist.plan : p.object = fire.object
  /\ session.awaiting => \A in \in result.in : in.object = fire.object
  /\ session.awaiting /\ result.command.source = "FALLBACK" /\ ~hist.thrown =>
       \A p \in hist.plan : p.object = fire.object

\* The friction hold starts from a capture that showed the target, and a command
\* that turns the wheels aims at it or lies within the hold.
VisibleInv ==
  /\ session.frictionTime <= hist.visible
  /\ session.awaiting /\ result.command.friction =>
       \/ \A in \in result.in : result.command.valid /\ in.tracker \in {"DETECTING", "TRACKING"}
       \/ /\ session.frictionTime # None
          /\ session.lastStep - session.frictionTime < FrictionHold

EvidenceInv == StableInv /\ TargetInv /\ VisibleInv

\* Resets forget the stability count and keep the identity.
LEMMA ResetsEvidence ==
  ASSUME NEW f \in FireState
  PROVE  /\ ResetFireReadiness(f).stableCycles = 0
         /\ ResetFireReadiness(f).object = f.object
         /\ ResetFireReadiness(f).externalMode = f.externalMode
         /\ ResetSelection(f).stableCycles = 0
         /\ ResetSelection(f).object = f.object
         /\ ResetSelection(f).externalMode = f.externalMode
         /\ ResetRuleSelection(f).stableCycles = 0
         /\ ResetRuleSelection(f).object = f.object
         /\ ResetRuleSelection(f).externalMode = f.externalMode
<1>1. \A g \in FireState :
        /\ ResetFireReadiness(g).stableCycles = 0
        /\ ResetFireReadiness(g).object = g.object
        /\ ResetFireReadiness(g).externalMode = g.externalMode
  BY DEF FireState, ResetFireReadiness
<1>2. /\ ResetRuleSelection(f) \in FireState
      /\ ResetRuleSelection(f).stableCycles = 0
      /\ ResetRuleSelection(f).object = f.object
      /\ ResetRuleSelection(f).externalMode = f.externalMode
  BY ResetsType DEF FireState, ResetRuleSelection
<1>3. /\ [ResetRuleSelection(f) EXCEPT !.externalSlot = None] \in FireState
      /\ [ResetRuleSelection(f) EXCEPT !.externalSlot = None].object = f.object
      /\ [ResetRuleSelection(f) EXCEPT !.externalSlot = None].externalMode = f.externalMode
  BY <1>2, Optionals DEF FireState
<1> QED BY <1>1, <1>2, <1>3 DEF ResetSelection

\* What f counted is still counted in g, or nothing is.
Keeps(f, g) ==
  g.stableCycles # 0 => g.stableCycles = f.stableCycles /\ g.stableSlot = f.stableSlot

\* fire_control.cpp 239-309: the cycle's object and mode are the ones identified;
\* a change of either forgets the stability count.
LEMMA IdentifyEvidence ==
  ASSUME NEW f \in FireState, NEW in \in CycleInput, NEW t \in Nat
  PROVE  /\ Identify(f, in, t).object = in.object
         /\ Identify(f, in, t).externalMode = (in.act # "RULE")
         /\ Keeps(f, Identify(f, in, t))
         /\ Identify(f, in, t).stableCycles # 0 =>
              f.object = in.object /\ f.externalMode = (in.act # "RULE")
<1> DEFINE external == in.act # "RULE"
           f1 == IF f.externalMode # external
                 THEN [ResetSelection(f) EXCEPT !.externalMode = external] ELSE f
           f2 == IF f1.object # in.object
                 THEN [ResetSelection(f1) EXCEPT !.object = in.object] ELSE f1
<1>1. f.externalMode \in BOOLEAN /\ external \in BOOLEAN
  BY DEF FireState
<1>2. /\ f1 \in FireState /\ f1.object = f.object /\ f1.externalMode = external
      /\ Keeps(f, f1)
      /\ f1.stableCycles # 0 => f.externalMode = external
  <2> HIDE DEF external
  <2>1. CASE f.externalMode # external
    <3>1. f1 = [ResetSelection(f) EXCEPT !.externalMode = external]
      BY <2>1
    <3>2. /\ ResetSelection(f) \in FireState
          /\ ResetSelection(f).stableCycles = 0 /\ ResetSelection(f).object = f.object
      BY ResetsType, ResetsEvidence
    <3> QED BY <1>1, <3>1, <3>2 DEF FireState, Keeps
  <2>2. CASE f.externalMode = external
    BY <2>2 DEF Keeps
  <2> QED BY <2>1, <2>2
<1> HIDE DEF f1, external
<1>3. /\ f2 \in FireState /\ f2.object = in.object /\ f2.externalMode = external
      /\ Keeps(f, f2)
      /\ f2.stableCycles # 0 => f.object = in.object /\ f.externalMode = external
  <2>1. CASE f1.object # in.object
    <3>1. f2 = [ResetSelection(f1) EXCEPT !.object = in.object]
      BY <2>1
    <3>2. /\ ResetSelection(f1) \in FireState /\ ResetSelection(f1).stableCycles = 0
          /\ ResetSelection(f1).externalMode = external
      BY <1>2, ResetsType, ResetsEvidence
    <3>3. in.object \in Objects
      BY DEF CycleInput
    <3> QED BY <3>1, <3>2, <3>3 DEF FireState, Keeps
  <2>2. CASE f1.object = in.object
    BY <1>2, <2>2 DEF Keeps
  <2> QED BY <2>1, <2>2
<1>4. Identify(f, in, t) = [f2 EXCEPT !.tempLostSince =
        IF in.tracker # "TEMP_LOST" THEN None ELSE IF @ = None THEN t ELSE @]
  BY DEF Identify, f1, f2, external
<1> HIDE DEF f2
<1>5. /\ Identify(f, in, t).object = f2.object
      /\ Identify(f, in, t).externalMode = f2.externalMode
      /\ Identify(f, in, t).stableCycles = f2.stableCycles
      /\ Identify(f, in, t).stableSlot = f2.stableSlot
  BY <1>3, <1>4 DEF FireState
<1> QED BY <1>3, <1>5 DEF Keeps, external

\* rule_policy.cpp 57-116, fire_control.cpp 380-387: choosing a slot, or switching
\* to another, counts nothing.
LEMMA SelectEvidence ==
  ASSUME NEW f \in FireState, NEW in \in CycleInput, NEW t \in Nat
  PROVE  LET g == AfterSwitch(f, Select(f, in, t))
         IN g.object = f.object /\ g.externalMode = f.externalMode /\ Keeps(f, g)
<1> DEFINE Same(g) == g.object = f.object /\ g.externalMode = f.externalMode /\ Keeps(f, g)
<1>1. Same(HoldThroughLoss(f, in))
  <2>1. Same([f EXCEPT !.pending = None, !.pendingSince = None])
    BY DEF FireState, Keeps
  <2>2. Same(ResetRuleSelection(f))
    BY ResetsEvidence DEF Keeps
  <2> QED BY <2>1, <2>2 DEF HoldThroughLoss
<1>2. Same(HoldOrSwitch(f, in, t))
  BY DEF HoldOrSwitch, FireState, Keeps
<1>3. Same(Acquire(f, in))
  BY DEF Acquire, FireState, Keeps
<1>4. Same(SelectSlot(f, in, t))
  BY <1>1, <1>2, <1>3 DEF SelectSlot
<1>5. Same([f EXCEPT !.externalSlot = in.slot]) /\ Same(f)
  BY DEF FireState, Keeps
<1> DEFINE g == Select(f, in, t)
<1>6. Same(g) /\ g \in FireState
  BY <1>4, <1>5, SelectType DEF Select
<1> HIDE DEF g
<1>7. Same(AfterSwitch(f, g))
  BY <1>6 DEF AfterSwitch, FireState, Keeps
<1> QED BY <1>7 DEF g

\* rule_policy.cpp 143-151: the count starts at one and grows by one.
LEMMA CountEvidence ==
  ASSUME NEW f \in FireState, NEW in \in CycleInput, NEW s \in Slots
  PROVE  LET e == CountStable(f, in, s)
         IN /\ e.object = f.object /\ e.externalMode = f.externalMode
            /\ e.stableSlot = s
            /\ e.stableCycles # 0 =>
                 /\ in.aim
                 /\ \/ e.stableCycles = 1
                    \/ /\ f.stableCycles # 0 /\ f.stableSlot = s
                       /\ e.stableCycles <= f.stableCycles + 1
<1>1. f.stableCycles \in Nat /\ StableCycles \in Nat
  BY FireControlAssumption DEF FireState
<1>2. s \in SlotOrNone
  BY Optionals
<1> DEFINE n == IF f.stableCycles < StableCycles THEN f.stableCycles + 1 ELSE f.stableCycles
           m == IF in.aim THEN 1 ELSE 0
           e == CountStable(f, in, s)
<1>3. n \in Nat /\ n <= f.stableCycles + 1 /\ (f.stableCycles = 0 => n <= 1)
  BY <1>1
<1>4. m \in {0, 1} /\ (m # 0 => in.aim)
  OBVIOUS
<1>5. CASE s = f.stableSlot /\ in.aim
  <2>1. e = [f EXCEPT !.stableCycles = n]
    BY <1>5 DEF CountStable
  <2> HIDE DEF e, n
  <2>2. /\ e.object = f.object /\ e.externalMode = f.externalMode
        /\ e.stableSlot = s /\ e.stableCycles = n
    BY <1>5, <2>1 DEF FireState
  <2>3. n # 0 => n = 1 \/ (f.stableCycles # 0 /\ n <= f.stableCycles + 1)
    BY <1>1, <1>3
  <2> QED BY <1>5, <2>2, <2>3 DEF e
<1>6. CASE ~(s = f.stableSlot /\ in.aim)
  <2>1. e = [f EXCEPT !.stableSlot = s, !.stableCycles = m]
    BY <1>6 DEF CountStable
  <2> HIDE DEF e, m
  <2>2. /\ e.object = f.object /\ e.externalMode = f.externalMode
        /\ e.stableSlot = s /\ e.stableCycles = m
    BY <2>1 DEF FireState
  <2> QED BY <1>4, <2>2 DEF e
<1> QED BY <1>5, <1>6

\* What a cycle of the fire control counts, and what a shot of the rule policy needs.
CountsOf(f, in, step) ==
  /\ step.fire.stableCycles # 0 =>
       /\ step.command.valid /\ in.aim /\ in.act = "RULE" /\ ~step.fire.externalMode
       /\ step.fire.stableSlot = step.command.slot
       /\ \/ step.fire.stableCycles = 1
          \/ /\ f.stableCycles # 0 /\ f.stableSlot = step.command.slot
             /\ step.fire.stableCycles <= f.stableCycles + 1
  /\ step.command.fire /\ in.act = "RULE" => step.fire.stableCycles = StableCycles

\* fire_control.cpp 446-507: the plan leaves the count alone and asks for all of it.
LEMMA PlanEvidence ==
  ASSUME NEW f \in FireState, NEW in \in CycleInput, NEW t \in Nat,
         NEW external \in BOOLEAN, NEW s \in Slots, NEW reset \in BOOLEAN
  PROVE  /\ AfterPlan(f, in, t, external).object = f.object
         /\ AfterPlan(f, in, t, external).externalMode = f.externalMode
         /\ AfterPlan(f, in, t, external).stableCycles = f.stableCycles
         /\ AfterPlan(f, in, t, external).stableSlot = f.stableSlot
         /\ PlanCommand(f, in, t, external, s, reset).valid
         /\ PlanCommand(f, in, t, external, s, reset).slot = s
         /\ PlanCommand(f, in, t, external, s, reset).objectReset = reset
         /\ PlanCommand(f, in, t, external, s, reset).fire /\ in.act = "RULE" =>
              f.stableCycles = StableCycles
<1>1. f.stableCycles \in 0 .. StableCycles /\ StableCycles \in Nat
  BY FireControlAssumption DEF FireState
<1>2. FireBlock(f, in, external) = "NONE" /\ in.act = "RULE" => f.stableCycles = StableCycles
  <2>1. Heuristic(f, in) = "NONE" /\ in.act = "RULE" => ~(f.stableCycles < StableCycles)
    BY DEF Heuristic
  <2> QED BY <1>1, <2>1 DEF FireBlock
<1>3. /\ AfterPlan(f, in, t, external).object = f.object
      /\ AfterPlan(f, in, t, external).externalMode = f.externalMode
      /\ AfterPlan(f, in, t, external).stableCycles = f.stableCycles
      /\ AfterPlan(f, in, t, external).stableSlot = f.stableSlot
  BY DEF AfterPlan, FireState
<1> QED BY <1>2, <1>3 DEF PlanCommand

LEMMA AimEvidence ==
  ASSUME NEW f \in FireState, NEW in \in CycleInput, NEW t \in Nat,
         NEW external \in BOOLEAN, NEW reset \in BOOLEAN,
         f.externalMode = (in.act # "RULE"), f.externalMode => f.stableCycles = 0
  PROVE  LET step == Aim(f, in, t, external, reset)
         IN /\ step.fire.object = f.object /\ step.command.objectReset = reset
            /\ CountsOf(f, in, step)
<1> DEFINE g == AfterSwitch(f, Select(f, in, t))
           slot == SelectedSlot(g)
           e == IF in.act = "RULE" THEN CountStable(g, in, slot) ELSE g
           step == Aim(f, in, t, external, reset)
<1>1. /\ g \in FireState /\ g.object = f.object /\ g.externalMode = f.externalMode
      /\ Keeps(f, g)
  BY SelectType, AfterSwitchType, SelectEvidence
<1>2. slot \in SlotOrNone
  BY <1>1 DEF SelectedSlot, FireState
<1>3. step =
        IF slot = None THEN Unaimed(g, "NO_SHOOTABLE_ARMOR", slot, reset)
        ELSE IF ~in.ballistic THEN Unaimed(g, "BALLISTIC_UNSOLVABLE", slot, reset)
        ELSE IF ~in.planned THEN Unaimed(g, "MPC_FAILED", slot, reset)
        ELSE [fire |-> AfterPlan(e, in, t, external),
              command |-> PlanCommand(e, in, t, external, slot, reset)]
  BY DEF Aim
<1> HIDE DEF g, slot
<1>4. \A reason : /\ Unaimed(g, reason, slot, reset).fire.object = f.object
                  /\ Unaimed(g, reason, slot, reset).command.objectReset = reset
                  /\ CountsOf(f, in, Unaimed(g, reason, slot, reset))
  <2>1. /\ ResetFireReadiness(g).object = f.object
        /\ ResetFireReadiness(g).stableCycles = 0
    BY <1>1, ResetsEvidence
  <2> QED BY <2>1 DEF Unaimed, StopCommand, CountsOf
<1>5. ASSUME slot # None
      PROVE  /\ AfterPlan(e, in, t, external).object = f.object
             /\ PlanCommand(e, in, t, external, slot, reset).objectReset = reset
             /\ CountsOf(f, in, [fire |-> AfterPlan(e, in, t, external),
                                 command |-> PlanCommand(e, in, t, external, slot, reset)])
  <2>1. slot \in Slots
    BY <1>2, <1>5 DEF SlotOrNone
  <2>2. /\ e \in FireState /\ e.object = f.object /\ e.externalMode = f.externalMode
        /\ e.stableCycles # 0 =>
             /\ in.aim /\ in.act = "RULE" /\ ~e.externalMode /\ e.stableSlot = slot
             /\ \/ e.stableCycles = 1
                \/ /\ g.stableCycles # 0 /\ g.stableSlot = slot
                   /\ e.stableCycles <= g.stableCycles + 1
    <3>1. CASE in.act = "RULE"
      <4>1. e = CountStable(g, in, slot)
        BY <3>1
      <4> HIDE DEF e
      <4>2. e \in FireState
        BY <1>1, <1>2, <4>1, CountStableType
      <4>3. ~f.externalMode
        BY <3>1
      <4>4. /\ e.object = g.object /\ e.externalMode = g.externalMode
            /\ e.stableSlot = slot
            /\ e.stableCycles # 0 =>
                 /\ in.aim
                 /\ \/ e.stableCycles = 1
                    \/ /\ g.stableCycles # 0 /\ g.stableSlot = slot
                       /\ e.stableCycles <= g.stableCycles + 1
        BY <1>1, <2>1, <4>1, CountEvidence
      <4> QED BY <1>1, <4>2, <4>3, <4>4
    <3>2. CASE in.act # "RULE"
      BY <1>1, <3>2 DEF Keeps
    <3> QED BY <3>1, <3>2
  <2> HIDE DEF e
  <2>3. e.stableCycles # 0 =>
             \/ e.stableCycles = 1
             \/ /\ f.stableCycles # 0 /\ f.stableSlot = slot
                /\ e.stableCycles <= f.stableCycles + 1
    BY <1>1, <2>2 DEF Keeps
  <2> DEFINE h == AfterPlan(e, in, t, external)
             c == PlanCommand(e, in, t, external, slot, reset)
  <2>4. /\ h.object = e.object /\ h.externalMode = e.externalMode
        /\ h.stableCycles = e.stableCycles /\ h.stableSlot = e.stableSlot
        /\ c.valid /\ c.slot = slot /\ c.objectReset = reset
        /\ c.fire /\ in.act = "RULE" => e.stableCycles = StableCycles
    BY <2>1, <2>2, PlanEvidence
  <2> HIDE DEF h, c
  <2>5. CountsOf(f, in, [fire |-> h, command |-> c])
    BY <2>2, <2>3, <2>4 DEF CountsOf
  <2> QED BY <2>2, <2>4, <2>5 DEF h, c
<1> HIDE DEF step, e
<1>6. CASE slot # None /\ in.ballistic /\ in.planned
  BY <1>3, <1>5, <1>6 DEF step
<1>7. CASE ~(slot # None /\ in.ballistic /\ in.planned)
  BY <1>3, <1>4, <1>7 DEF step
<1> QED BY <1>6, <1>7

\* fire_control.cpp 225-509: the whole cycle identifies the target, tells whether it
\* changed and counts what it aimed at.
LEMMA FireStepEvidence ==
  ASSUME NEW f \in FireState, NEW in \in CycleInput, NEW t \in Nat, NEW external \in BOOLEAN,
         f.externalMode => f.stableCycles = 0
  PROVE  LET step == FireStep(f, in, t, external)
         IN /\ step.fire.object = in.object
            /\ step.command.objectReset = (f.object # in.object)
            /\ CountsOf(f, in, step)
            /\ step.fire.stableCycles > 1 => ~step.command.objectReset
<1> DEFINE g == Identify(f, in, t)
           reset == f.object # in.object
           step == FireStep(f, in, t, external)
<1>1. /\ g \in FireState /\ g.object = in.object
      /\ g.externalMode = (in.act # "RULE") /\ Keeps(f, g)
      /\ g.stableCycles # 0 => f.object = in.object /\ f.externalMode = g.externalMode
  BY IdentifyType, IdentifyEvidence
<1>2. step =
        IF ~InputAdmitted(g, in, t)
        THEN [fire |-> ResetSelection(g),
              command |-> StopCommand(InputReason(g, in, t), None, reset)]
        ELSE IF in.act = "INVALID" THEN Unaimed(g, "INVALID_ACTION", None, reset)
        ELSE Aim(g, in, t, external, reset)
  BY DEF FireStep
<1>3. g.externalMode => g.stableCycles = 0
  BY <1>1 DEF Keeps
<1> HIDE DEF g, step
<1>4. CASE InputAdmitted(g, in, t) /\ in.act # "INVALID"
  <2>1. reset \in BOOLEAN
    OBVIOUS
  <2> HIDE DEF reset
  <2>2. step = Aim(g, in, t, external, reset)
    BY <1>2, <1>4
  <2>5. /\ step.fire.object = in.object
        /\ step.command.objectReset = reset
        /\ CountsOf(g, in, step)
    BY <1>1, <1>3, <2>1, <2>2, AimEvidence
  <2>3. CountsOf(f, in, step)
    BY <1>1, <2>5 DEF CountsOf, Keeps
  <2>4. step.fire.stableCycles > 1 => ~reset
    BY <1>1, <2>5 DEF CountsOf, reset
  <2> QED BY <2>3, <2>4, <2>5 DEF step, reset
<1>5. CASE ~(InputAdmitted(g, in, t) /\ in.act # "INVALID")
  <2>1. \/ step = [fire |-> ResetSelection(g),
                   command |-> StopCommand(InputReason(g, in, t), None, reset)]
        \/ step = [fire |-> ResetFireReadiness(g),
                   command |-> StopCommand("INVALID_ACTION", None, reset)]
    BY <1>2, <1>5 DEF Unaimed
  <2>2. /\ step.fire.object = in.object /\ step.fire.stableCycles = 0
        /\ step.command.objectReset = reset /\ ~step.command.fire
    BY <1>1, <2>1, ResetsEvidence DEF StopCommand
  <2> QED BY <2>2 DEF CountsOf, step
<1> QED BY <1>4, <1>5

\* The history a cycle starts from: that of its round.
HistoryOf(in) == IF NewRound(in) THEN FreshHistory ELSE hist

\* control_session.cpp 199-252: what the session and the fire control remember
\* when the cycle's own work begins.
LEMMA ObservedEvidence ==
  ASSUME NEW in, Ready(in), EvidenceInv
  PROVE  /\ HistoryOf(in) \in History
         /\ ObservedFire(in).externalMode => ObservedFire(in).stableCycles = 0
         /\ ObservedFire(in).stableCycles # 0 =>
              /\ ObservedFire(in).stableSlot = HistoryOf(in).aimedSlot
              /\ ObservedFire(in).stableCycles <= HistoryOf(in).aimed
         /\ Observed(in).trajectory # {} =>
              ~NewRound(in) /\ ObservedFire(in).object = fire.object
         /\ Observed(in).frictionTime \in Instant
         /\ Observed(in).frictionTime <= HistoryOf(in).visible
<1>1. now \in Nat /\ session \in Session /\ fire \in FireState /\ hist \in History
  BY DEF Ready, IInv, TypeOK
<1>2. /\ FreshSession \in Session /\ FreshSession.frictionTime = None
      /\ FreshHistory \in History /\ FreshHistory.visible = None
      /\ FreshFireState \in FireState /\ FreshFireState.stableCycles = 0
  BY Optionals DEF FreshSession, Session, FreshHistory, History, FreshFireState, FireState
<1> DEFINE e == EnteredFire(in)
           b == Entered(in)
<1>3. /\ e \in FireState
      /\ e.stableCycles # 0 =>
           /\ ~e.externalMode /\ e.stableSlot = HistoryOf(in).aimedSlot
           /\ e.stableCycles <= HistoryOf(in).aimed
      /\ ~NewRound(in) => e = fire
  BY <1>1, <1>2 DEF EnteredFire, HistoryOf, EvidenceInv, StableInv
<1>4. /\ b \in Session
      /\ b.frictionTime = (IF NewRound(in) THEN None ELSE session.frictionTime)
  <2>1. in \in CycleInput
    BY ObservedFacts
  <2>2. in.round \in Nat
    BY <2>1 DEF CycleInput
  <2> QED BY <1>1, <1>2, <2>2, Optionals DEF Entered, Session
<1>5. HistoryOf(in) \in History
  BY <1>1, <1>2 DEF HistoryOf
<1>6. b.frictionTime <= HistoryOf(in).visible
  <2>1. None <= None
    BY DEF None
  <2> QED BY <1>2, <1>4, <2>1 DEF HistoryOf, EvidenceInv, VisibleInv
<1> HIDE DEF e, b
<1>7. ObservedFire(in) = IF TransportChanged(b, in) THEN ResetFireReadiness(e) ELSE e
  BY DEF ObservedFire, b, e
<1>8. /\ ResetFireReadiness(e).stableCycles = 0
      /\ ResetFireReadiness(e).object = e.object
  BY <1>3, ResetsEvidence
<1>9. Observed(in).frictionTime = b.frictionTime
  <2> DEFINE d == IF TransportChanged(b, in) THEN ClearProjection(b) ELSE b
  <2>1. d \in Session /\ d.frictionTime = b.frictionTime
    BY <1>4 DEF ClearProjection, Session
  <2>2. Observed(in) = [d EXCEPT !.lastExternal = {in.external}, !.lastHealthy = {in.healthy}]
    BY DEF Observed, b
  <2> HIDE DEF d
  <2> QED BY <2>1, <2>2 DEF Session
<1>10. Observed(in).trajectory # {} => ~NewRound(in)
  BY ObservedFacts
<1>11. b.frictionTime \in Instant
  BY <1>4 DEF Session
<1> QED BY <1>3, <1>5, <1>6, <1>7, <1>8, <1>9, <1>10, <1>11

\* control_session.cpp 258-384: the decision keeps the slot and the verdict on the
\* target, takes a fallback only for an unchanged target, and a stop only resets.
LEMMA DecidedEvidence ==
  ASSUME NEW in, Ready(in)
  PROVE  LET c == Decided(in)
             r == Stepped(in)
         IN /\ c.slot = r.command.slot /\ c.objectReset = r.command.objectReset
            /\ c.source = "FALLBACK" => ~c.objectReset
            /\ ConcludedFire(in, c) \in {r.fire, ResetFireReadiness(r.fire)}
            /\ c.valid => ConcludedFire(in, c) = r.fire
            /\ Concluded(in, c).frictionTime = Observed(in).frictionTime
<1> DEFINE r == Stepped(in).command
           s == Cached(Observed(in), r)
           w == WithFallback(s, in, r)
           c == Decided(in)
<1>1. r \in Command /\ r.source # "FALLBACK"
  <2>1. now \in Nat /\ (in.external /\ in.healthy) \in BOOLEAN
    BY DEF Ready, IInv, TypeOK
  <2>2. CycleOf(ObservedFire(in), in, now, in.external /\ in.healthy, Stepped(in))
    BY <2>1, ObservedFacts, FireStepCycle DEF Stepped
  <2> QED BY <2>2 DEF CycleOf, CommandShape, Command
<1>2. c = TransportGate(in, w)
  BY DEF Decided
<1> HIDE DEF r, s, c
<1>3. /\ w \in Command /\ w.slot = r.slot /\ w.objectReset = r.objectReset
      /\ w.source = "FALLBACK" => ~w.objectReset
  <2>1. CASE \E p \in s.trajectory : FallbackUsable(s, in, r, p)
    <3>1. w = [r EXCEPT !.valid = TRUE, !.source = "FALLBACK"]
      BY <2>1 DEF WithFallback
    <3>2. ~r.objectReset
      BY <2>1 DEF FallbackUsable
    <3> QED BY <1>1, <3>1, <3>2 DEF Command
  <2>2. CASE ~(\E p \in s.trajectory : FallbackUsable(s, in, r, p))
    <3>1. w = r
      BY <2>2 DEF WithFallback
    <3> QED BY <1>1, <3>1
  <2> QED BY <2>1, <2>2
<1> HIDE DEF w
<1>4. /\ c.slot = r.slot /\ c.objectReset = r.objectReset
      /\ c.source = "FALLBACK" => ~c.objectReset
  <2>1. CASE in.external /\ in.healthy
    <3>1. c = w
      BY <1>2, <2>1 DEF TransportGate
    <3> QED BY <1>3, <3>1
  <2>2. CASE ~(in.external /\ in.healthy)
    <3>1. c = [w EXCEPT !.valid = FALSE, !.fire = FALSE, !.source = "STOP",
                        !.reason = IF in.external THEN "TALOS_UNHEALTHY"
                                   ELSE "EXTERNAL_CONTROL_DISABLED"]
      BY <1>2, <2>2 DEF TransportGate
    <3> QED BY <1>3, <3>1 DEF Command
  <2> QED BY <2>1, <2>2
<1>5. /\ ConcludedFire(in, c) \in {Stepped(in).fire, ResetFireReadiness(Stepped(in).fire)}
      /\ c.valid => ConcludedFire(in, c) = Stepped(in).fire
  BY DEF ConcludedFire
<1>6. Concluded(in, c).frictionTime = Observed(in).frictionTime
  <2> DEFINE d == Cached(Observed(in), c)
  <2>1. d \in Session /\ d.frictionTime = Observed(in).frictionTime
    BY ObservedFacts DEF Cached, Session
  <2>2. ClearProjection(d).frictionTime = d.frictionTime
    BY <2>1 DEF ClearProjection, Session
  <2> HIDE DEF d
  <2> QED BY <2>1, <2>2 DEF Concluded, d
<1> QED BY <1>4, <1>5, <1>6 DEF c, r

\* What a cycle adds to the history.
LEMMA HistoryEvidence ==
  ASSUME NEW in, Ready(in)
  PROVE  LET c == Decided(in)
             h == HistoryOf(in)
             n == AimHistory(in, c)
         IN /\ n.aimedSlot = c.slot /\ n.thrown = h.thrown
            /\ Stepped(in).command.valid /\ in.aim /\ in.act = "RULE" =>
                 n.aimed = (IF ~(c.slot = h.aimedSlot /\ ~c.objectReset) THEN 1
                            ELSE IF h.aimed < StableCycles THEN h.aimed + 1 ELSE h.aimed)
            /\ h.visible <= n.visible
            /\ c.source = "PLAN" /\ in.tracker \in {"DETECTING", "TRACKING"} /\ in.age >= 0 =>
                 now - in.age <= n.visible
<1> DEFINE c == Decided(in)
           h == HistoryOf(in)
           seen == c.source = "PLAN" /\ in.tracker \in {"DETECTING", "TRACKING"} /\ in.age >= 0
           same == c.slot = h.aimedSlot /\ ~c.objectReset
           aimed == IF ~Stepped(in).command.valid \/ ~in.aim \/ in.act # "RULE" THEN 0
                    ELSE IF ~same THEN 1
                    ELSE IF h.aimed < StableCycles THEN h.aimed + 1 ELSE h.aimed
           visible == IF seen /\ now - in.age > h.visible THEN now - in.age ELSE h.visible
<1>1. h \in History
  <2>1. FreshHistory \in History
    BY Optionals DEF FreshHistory, History
  <2> QED BY <2>1 DEF Ready, IInv, TypeOK, HistoryOf
<1>2. AimHistory(in, c) = [h EXCEPT !.aimedSlot = c.slot, !.aimed = aimed, !.visible = visible]
  BY DEF AimHistory, HistoryOf
<1>3. now \in Int /\ in.age \in Int /\ h.visible \in Int
  <2>1. in \in CycleInput
    BY ObservedFacts
  <2>2. now \in Nat
    BY DEF Ready, IInv, TypeOK
  <2>3. h.visible \in Instant
    BY <1>1 DEF History
  <2> QED BY <2>1, <2>2, <2>3 DEF CycleInput, Instant, None
<1>4. /\ h.visible <= visible
      /\ seen => now - in.age <= visible
  BY <1>3
<1> HIDE DEF aimed, visible, c, h
<1>5. /\ AimHistory(in, c).aimedSlot = c.slot /\ AimHistory(in, c).thrown = h.thrown
      /\ AimHistory(in, c).aimed = aimed /\ AimHistory(in, c).visible = visible
  BY <1>1, <1>2 DEF History
<1> QED BY <1>4, <1>5 DEF aimed, c, h

LEMMA StepEvidence ==
  ASSUME IInv, EvidenceInv, NEW in \in Inputs, Step(in)
  PROVE  EvidenceInv'
<1> DEFINE c == Decided(in)
           f == ObservedFire(in)
           r == Stepped(in)
           h == HistoryOf(in)
           time == FrictionTime(Concluded(in, c), in, c)
<1>1. Ready(in)
  BY DEF Step, Ready
<1>2. /\ session' = [Concluded(in, c) EXCEPT !.awaiting = TRUE, !.frictionTime = time]
      /\ fire' = ConcludedFire(in, c)
      /\ result'.in = {in}
      /\ result'.command = [c EXCEPT !.friction = Friction(in, c, time)]
      /\ hist' = AimHistory(in, c) /\ now' = now
  BY DEF Step
<1>3. /\ in \in CycleInput /\ f \in FireState /\ now \in Nat
      /\ Concluded(in, c) \in Session /\ c \in Command
      /\ h \in History
  BY <1>1, ObservedFacts, ObservedEvidence, ConcludedFacts, DecidedFacts DEF Ready, IInv, TypeOK
<1>4. /\ r.fire \in FireState
      /\ r.fire.object = in.object
      /\ r.command.objectReset = (f.object # in.object)
      /\ CountsOf(f, in, r)
      /\ r.fire.stableCycles > 1 => ~r.command.objectReset
  <2> DEFINE b == in.external /\ in.healthy
  <2>1. b \in BOOLEAN
    OBVIOUS
  <2>2. f.externalMode => f.stableCycles = 0
    BY <1>1, ObservedEvidence
  <2>3. r = FireStep(f, in, now, b)
    BY DEF Stepped
  <2> HIDE DEF r, f, b
  <2>4. r.fire \in FireState
    BY <1>3, <2>1, <2>3, FireStepCycle DEF CycleOf
  <2> QED BY <1>3, <2>1, <2>2, <2>3, <2>4, FireStepEvidence
<1>5. /\ c.slot = r.command.slot /\ c.objectReset = r.command.objectReset
      /\ c.source = "FALLBACK" => ~c.objectReset
      /\ fire' \in {r.fire, ResetFireReadiness(r.fire)}
      /\ c.valid => fire' = r.fire
  BY <1>1, <1>2, DecidedEvidence
<1>6. /\ ResetFireReadiness(r.fire).stableCycles = 0
      /\ ResetFireReadiness(r.fire).object = in.object
  BY <1>4, ResetsEvidence
<1>7. /\ c.fire <=> r.command.fire
      /\ c.fire => c.valid
      /\ c.valid <=> c.source # "STOP"
  BY <1>1, DecidedFacts
<1>8. /\ hist'.aimedSlot = c.slot /\ hist'.thrown = h.thrown
      /\ r.command.valid /\ in.aim /\ in.act = "RULE" =>
           hist'.aimed = (IF ~(c.slot = h.aimedSlot /\ ~c.objectReset) THEN 1
                          ELSE IF h.aimed < StableCycles THEN h.aimed + 1 ELSE h.aimed)
      /\ h.visible <= hist'.visible
      /\ c.source = "PLAN" /\ in.tracker \in {"DETECTING", "TRACKING"} /\ in.age >= 0 =>
           now - in.age <= hist'.visible
  BY <1>1, <1>2, HistoryEvidence
<1>9. time \in Instant /\ Friction(in, c, time) \in BOOLEAN
  BY <1>1, <1>3, FrictionTimeType
<1>10. /\ f.stableCycles # 0 => f.stableSlot = h.aimedSlot /\ f.stableCycles <= h.aimed
       /\ Observed(in).trajectory # {} => ~NewRound(in) /\ f.object = fire.object
       /\ Concluded(in, c).frictionTime <= h.visible
       /\ Concluded(in, c).frictionTime \in Instant
  BY <1>1, ObservedEvidence, DecidedEvidence
<1>11. /\ hist' \in History
       /\ ~NewRound(in) => h = hist /\ hist'.plan = hist.plan
  BY <1>1, <1>2, HistoryType DEF HistoryOf
<1>12. /\ c.source = "FALLBACK" => Observed(in).trajectory # {}
  <2>1. c.source = "FALLBACK" => Cached(Observed(in), c).trajectory # {}
    BY <1>1, DecidedFacts
  <2>2. Cached(Observed(in), c).trajectory \subseteq Observed(in).trajectory
    BY <1>1, ObservedFacts DEF Cached, Session
  <2> QED BY <2>1, <2>2
<1>13. Observed(in).trajectory \subseteq session.trajectory
  BY <1>1, ObservedFacts
<1>14. time = None \/ time = Concluded(in, c).frictionTime
         \/ (time = now - in.age /\ VisibleAim(in, c) /\ in.age >= 0)
  BY DEF FrictionTime
<1> HIDE DEF c, f, r, h, time
<1>15. /\ session'.awaiting = TRUE /\ session'.frictionTime = time
       /\ result'.command.fire = c.fire /\ result'.command.source = c.source
       /\ result'.command.valid = c.valid
       /\ result'.command.friction = Friction(in, c, time)
       /\ session'.lastStep = Concluded(in, c).lastStep
  BY <1>2, <1>3, <1>9 DEF Session, Command
<1>16. StableInv'
  <2>1. ASSUME fire'.stableCycles # 0
        PROVE  /\ ~fire'.externalMode
               /\ fire'.stableSlot = hist'.aimedSlot
               /\ fire'.stableCycles <= hist'.aimed
    <3>1. fire' = r.fire
      BY <1>5, <1>6, <2>1
    <3>2. /\ r.command.valid /\ in.aim /\ in.act = "RULE" /\ ~r.fire.externalMode
          /\ r.fire.stableSlot = c.slot
          /\ \/ r.fire.stableCycles = 1
             \/ /\ f.stableCycles # 0 /\ f.stableSlot = c.slot
                /\ r.fire.stableCycles <= f.stableCycles + 1
      BY <1>4, <1>5, <2>1, <3>1 DEF CountsOf
    <3>3. /\ r.fire.stableCycles \in 0 .. StableCycles /\ f.stableCycles \in 0 .. StableCycles
          /\ h.aimed \in 0 .. StableCycles /\ StableCycles \in Nat \ {0}
      BY <1>3, <1>4, FireControlAssumption DEF FireState, History
    <3>4. r.fire.stableCycles <= hist'.aimed
      <4>1. CASE c.slot = h.aimedSlot /\ ~c.objectReset
        <5>1. hist'.aimed = IF h.aimed < StableCycles THEN h.aimed + 1 ELSE h.aimed
          BY <1>8, <3>2, <4>1
        <5>2. r.fire.stableCycles <= h.aimed + 1
          BY <1>10, <3>2, <3>3
        <5> QED BY <3>3, <5>1, <5>2
      <4>2. CASE ~(c.slot = h.aimedSlot /\ ~c.objectReset)
        <5>1. hist'.aimed = 1
          BY <1>8, <3>2, <4>2
        <5>2. r.fire.stableCycles = 1
          <6>1. ~(r.fire.stableCycles > 1)
            BY <1>4, <1>5, <1>10, <3>2, <3>3, <4>2
          <6>2. r.fire.stableCycles # 0
            BY <2>1, <3>1
          <6> QED BY <3>3, <6>1, <6>2
        <5> QED BY <5>1, <5>2
      <4> QED BY <4>1, <4>2
    <3> QED BY <1>8, <3>1, <3>2, <3>4
  <2>2. ASSUME c.fire, in.act = "RULE" PROVE fire'.stableCycles = StableCycles
    BY <1>4, <1>5, <1>7, <2>2 DEF CountsOf
  <2> QED BY <1>2, <1>15, <2>1, <2>2 DEF StableInv
<1>17. TargetInv'
  <2>1. fire'.object = in.object
    BY <1>4, <1>5, <1>6
  <2>2. ASSUME c.source = "FALLBACK", ~hist'.thrown
        PROVE  \A p \in hist'.plan : p.object = fire'.object
    <3>1. /\ ~NewRound(in) /\ f.object = fire.object
          /\ session.trajectory # {} /\ hist'.plan = hist.plan /\ ~hist.thrown
      BY <1>8, <1>10, <1>11, <1>12, <1>13, <2>2
    <3>2. \A p \in hist.plan : p.object = fire.object
      BY <1>1, <3>1 DEF Ready, EvidenceInv, TargetInv
    <3>3. f.object = in.object
      BY <1>4, <1>5, <2>2
    <3> QED BY <2>1, <3>1, <3>2, <3>3
  <2> QED BY <1>2, <1>15, <2>1, <2>2 DEF TargetInv
<1>18. VisibleInv'
  <2>1. /\ h.visible \in Int /\ hist'.visible \in Int /\ -1 <= hist'.visible
        /\ Concluded(in, c).frictionTime \in Int
    BY <1>3, <1>10, <1>11 DEF History, Instant, None
  <2>2. VisibleAim(in, c) /\ in.age >= 0 => now - in.age <= hist'.visible
    <3>1. VisibleAim(in, c) => c.source = "PLAN" /\ in.tracker \in {"DETECTING", "TRACKING"}
      BY <1>3, <1>7 DEF VisibleAim, Command
    <3> QED BY <1>8, <3>1
  <2>3. Concluded(in, c).frictionTime <= hist'.visible
    BY <1>8, <1>10, <2>1
  <2>4. session'.frictionTime <= hist'.visible
    BY <1>14, <1>15, <2>1, <2>2, <2>3 DEF None
  <2>5. session'.lastStep = now
    BY <1>1, <1>15, ConcludedFacts DEF c
  <2>6. Friction(in, c, time) =>
          \/ c.valid /\ in.tracker \in {"DETECTING", "TRACKING"}
          \/ time # None /\ now - time < FrictionHold
    BY DEF Friction, VisibleAim
  <2> QED BY <1>2, <1>15, <2>4, <2>5, <2>6 DEF VisibleInv
<1> QED BY <1>16, <1>17, <1>18 DEF EvidenceInv

LEMMA ThrowEvidence ==
  ASSUME IInv, EvidenceInv, NEW in \in Inputs, StepThrows(in)
  PROVE  EvidenceInv'
<1> DEFINE g == Identify(ObservedFire(in), in, now)
           h == HistoryOf(in)
           thrown == ~NewRound(in) /\ hist.plan # {}
<1>1. Ready(in) /\ now \in Nat
  BY DEF StepThrows, Ready, IInv, TypeOK
<1>2. fire' = ResetFireReadiness(g) /\ g \in FireState
  BY <1>1, ObservedFacts, IdentifyType DEF StepThrows, FireStepThrows
<1>3. fire'.stableCycles = 0
  BY <1>2, ResetsEvidence
<1>4. /\ session' = Observed(in) /\ session'.awaiting = FALSE
      /\ session'.trajectory \subseteq session.trajectory
  BY <1>1, ObservedFacts DEF StepThrows
<1>5. h \in History /\ Observed(in).frictionTime <= h.visible
      /\ (session'.trajectory # {} => ~NewRound(in))
  BY <1>1, <1>4, ObservedEvidence
<1>6. hist' = [h EXCEPT !.fired = FALSE, !.aimed = 0, !.aimedSlot = None, !.thrown = thrown]
  BY DEF StepThrows, HistoryOf
<1> HIDE DEF h, thrown
<1>7. hist'.visible = h.visible /\ hist'.thrown = thrown
  BY <1>5, <1>6 DEF History
<1>8. session'.trajectory # {} => thrown
  BY <1>4, <1>5 DEF IInv, PlanInv, thrown
<1> QED BY <1>3, <1>4, <1>5, <1>7, <1>8 DEF EvidenceInv, StableInv, TargetInv, VisibleInv

\* A stop, sent or failed to be sent, forgets what was counted and projected.
LEMMA StopEvidence ==
  ASSUME IInv, EvidenceInv, AckFailed \/ RuntimeStop
  PROVE  EvidenceInv'
<1>1. /\ session \in Session /\ fire \in FireState /\ hist \in History
  BY DEF IInv, TypeOK
<1>2. /\ session'.awaiting = FALSE /\ session'.trajectory = {}
      /\ session'.frictionTime \in {session.frictionTime, None}
  BY <1>1 DEF AckFailed, RuntimeStop, ClearProjection, Session
<1>3. fire'.stableCycles = 0
  BY <1>1, ResetsEvidence DEF AckFailed, RuntimeStop
<1>4. hist'.visible = hist.visible /\ hist.visible \in Instant
  BY <1>1 DEF AckFailed, RuntimeStop, History
<1>5. None <= hist.visible
  BY <1>4 DEF Instant, None
<1> QED BY <1>2, <1>3, <1>4, <1>5 DEF EvidenceInv, StableInv, TargetInv, VisibleInv

LEMMA AckSentEvidence ==
  ASSUME IInv, EvidenceInv, session.awaiting, AckSent
  PROVE  EvidenceInv'
<1> DEFINE c == result.command
           plan == CASE c.source = "PLAN" ->
                          {[object |-> in.object, slot |-> c.slot, time |-> now] : in \in result.in}
                     [] c.source = "FALLBACK" -> hist.plan
                     [] OTHER -> {}
           thrown == c.source = "FALLBACK" /\ hist.thrown
<1>1. /\ session \in Session /\ hist \in History
      /\ c.source \in {"PLAN", "FALLBACK", "STOP"} /\ (c.valid <=> c.source # "STOP")
  BY DEF IInv, TypeOK, ResultInv, Command
<1>2. fire' = fire
  BY DEF AckSent
<1>3. hist' = [hist EXCEPT !.fired = c.fire, !.plan = plan, !.thrown = thrown]
  BY DEF AckSent
<1>4. /\ session'.awaiting = FALSE /\ session'.frictionTime = session.frictionTime
      /\ c.source = "STOP" => session'.trajectory = session.trajectory
  BY <1>1 DEF AckSent, Session
<1> HIDE DEF plan, thrown, c
<1>5. /\ hist'.aimed = hist.aimed /\ hist'.aimedSlot = hist.aimedSlot
      /\ hist'.visible = hist.visible /\ hist'.plan = plan /\ hist'.thrown = thrown
  BY <1>1, <1>3 DEF History
<1>6. c.source = "STOP" => session'.trajectory = {}
  BY <1>4 DEF IInv, PlanInv, c
<1>7. ASSUME session'.trajectory # {}, ~thrown
      PROVE  \A p \in plan : p.object = fire.object
  <2>1. CASE c.source = "PLAN"
    BY <2>1 DEF plan, EvidenceInv, TargetInv
  <2>2. CASE c.source = "FALLBACK"
    BY <1>7, <2>2 DEF plan, thrown, c, EvidenceInv, TargetInv
  <2> QED BY <1>1, <1>6, <1>7, <2>1, <2>2
<1> QED BY <1>2, <1>4, <1>5, <1>7 DEF EvidenceInv, StableInv, TargetInv, VisibleInv

LEMMA InitEvidence == Init => EvidenceInv
<1> SUFFICES ASSUME Init PROVE EvidenceInv
  OBVIOUS
<1>1. /\ FreshFireState.stableCycles = 0
      /\ FreshSession.trajectory = {} /\ FreshSession.awaiting = FALSE
      /\ FreshSession.frictionTime = None /\ FreshHistory.visible = None
      /\ None <= None
  BY DEF FreshFireState, FreshSession, FreshHistory, None
<1> QED BY <1>1 DEF Init, EvidenceInv, StableInv, TargetInv, VisibleInv

LEMMA NextEvidence == IInv /\ EvidenceInv /\ [Next]_vars => EvidenceInv'
<1> SUFFICES ASSUME IInv, EvidenceInv, [Next]_vars PROVE EvidenceInv'
  OBVIOUS
<1>1. CASE \E in \in Inputs : Step(in)
  BY <1>1, StepEvidence
<1>2. CASE \E in \in Inputs : StepThrows(in)
  BY <1>2, ThrowEvidence
<1>3. CASE \E sent \in BOOLEAN : AcknowledgePublication(sent)
  BY <1>3, AckSentEvidence, StopEvidence DEF AcknowledgePublication
<1>4. CASE RuntimeStop
  BY <1>4, StopEvidence
<1>5. CASE Tick \/ UNCHANGED vars
  BY <1>5 DEF Tick, vars, EvidenceInv, StableInv, TargetInv, VisibleInv
<1> QED BY <1>1, <1>2, <1>3, <1>4, <1>5 DEF Next

-----------------------------------------------------------------------------
(* The theorems. *)

\* The invariant holds in every reachable state.
LEMMA Invariance == Spec => []IInv
  BY InitIInv, NextIInv, PTL DEF Spec

\* Whatever inputs arrive, the session's state stays well formed.
THEOREM TypeCorrect == Spec => []TypeOK
<1>1. IInv => TypeOK
  BY DEF IInv
<1> QED BY <1>1, Invariance, PTL

\* No command fires unless it was planned in its own cycle for a confirmed
\* track, from fresh input, over a healthy link under external control and with
\* the referee's permission.
THEOREM OnlyGatedFire == Spec => []FireIsGated
<1>1. IInv => FireIsGated
  BY DEF IInv
<1> QED BY <1>1, Invariance, PTL

\* A pulse that was interrupted is never resumed and never outlives its width.
THEOREM PulsesAreContinuous == Spec => []PulseIsContinuous
<1>1. IInv => PulseIsContinuous
  <2> SUFFICES ASSUME IInv, session.awaiting, result.command.fire
               PROVE  /\ result.command.accepted \/ hist.fired
                      /\ session.lastStep - fire.lastFireStart < PulseWidth
    BY DEF PulseIsContinuous
  <2>1. result.command.accepted \/ hist.fired
    BY DEF IInv, PulseInv
  <2>2. fire.pulseUntil # None /\ session.lastStep < fire.pulseUntil
    BY DEF IInv, PulseInv, PulseActive
  <2>3. fire.pulseUntil = fire.lastFireStart + PulseWidth
    BY <2>2 DEF IInv, PulseInv, PulseMatchesShot
  <2>4. session.lastStep \in Int /\ fire.lastFireStart \in Int
    BY DEF IInv, TypeOK, Session, FireState, Instant, None
  <2>5. PulseWidth \in Int
    BY FireControlAssumption
  <2> QED BY <2>1, <2>2, <2>3, <2>4, <2>5
<1> QED BY <1>1, Invariance, PTL

\* A fallback command continues a plan published for its slot at most
\* MaxFallbackAge ago and not stopped since, and it never fires.
THEOREM FallbacksArePublishedPlans == Spec => []FallbackFollowsPublishedPlan
<1>1. IInv => FallbackFollowsPublishedPlan
  <2> SUFFICES ASSUME IInv, session.awaiting, result.command.source = "FALLBACK"
               PROVE  /\ ~result.command.fire
                      /\ \E p \in hist.plan :
                           /\ p.slot = result.command.slot
                           /\ session.lastStep - p.time <= MaxFallbackAge
    BY DEF FallbackFollowsPublishedPlan
  <2>1. ~result.command.fire
    BY DEF IInv, ResultInv
  <2>2. PICK p \in session.trajectory :
          p.slot = result.command.slot /\ session.lastStep - p.time <= MaxFallbackAge
    BY DEF IInv, PlanInv
  <2>3. PICK q \in hist.plan : q.slot = p.slot /\ q.time = p.time
    BY DEF IInv, PlanInv
  <2> QED BY <2>1, <2>2, <2>3
<1> QED BY <1>1, Invariance, PTL

\* Two pulses of a round start at least FireInterval apart, whatever resets,
\* switches, stops and failures lie between them.
THEOREM PulsesAreSpaced == Spec => PulseSpacing
<1>1. IInv /\ [Next]_vars =>
        [fire'.lastFireStart # fire.lastFireStart =>
           \/ fire.lastFireStart = None
           \/ fire'.lastFireStart - fire.lastFireStart >= FireInterval
           \/ session'.round # session.round]_vars
  <2> SUFFICES ASSUME IInv, Next, fire'.lastFireStart # fire.lastFireStart
               PROVE  \/ fire.lastFireStart = None
                      \/ fire'.lastFireStart - fire.lastFireStart >= FireInterval
                      \/ session'.round # session.round
    OBVIOUS
  <2>1. ASSUME NEW in \in Inputs, Step(in)
        PROVE  \/ fire.lastFireStart = None
               \/ fire'.lastFireStart - fire.lastFireStart >= FireInterval
               \/ session'.round # session.round
    <3>1. Ready(in)
      BY <2>1 DEF Step, Ready
    <3>2. /\ NewRound(in) => session.round # {in.round}
          /\ ObservedFire(in).lastFireStart =
               IF NewRound(in) THEN None ELSE fire.lastFireStart
      BY <3>1, ObservedFacts
    <3>3. /\ Concluded(in, Decided(in)) \in Session /\ Concluded(in, Decided(in)).round = {in.round}
          /\ ConcludedFire(in, Decided(in)).lastFireStart # ObservedFire(in).lastFireStart =>
               /\ ConcludedFire(in, Decided(in)).lastFireStart = now
               /\ IntervalReady(ObservedFire(in), now)
      BY <3>1, ConcludedFacts
    <3>4. session'.round = {in.round} /\ fire' = ConcludedFire(in, Decided(in))
      BY <2>1, <3>3 DEF Step, Session
    <3> QED BY <3>2, <3>3, <3>4 DEF IntervalReady
  <2>2. ASSUME NEW in \in Inputs, StepThrows(in)
        PROVE  session'.round # session.round
    <3>1. Ready(in) /\ now \in Nat
      BY <2>2 DEF StepThrows, Ready, IInv, TypeOK
    <3>2. /\ in \in CycleInput /\ ObservedFire(in) \in FireState
          /\ Observed(in).round = {in.round}
          /\ NewRound(in) => session.round # {in.round}
          /\ ObservedFire(in).lastFireStart =
               IF NewRound(in) THEN None ELSE fire.lastFireStart
      BY <3>1, ObservedFacts
    <3>3. fire'.lastFireStart = ObservedFire(in).lastFireStart
      BY <2>2, <3>1, <3>2, IdentifyType, ResetsType DEF StepThrows, FireStepThrows
    <3>4. session'.round = {in.round}
      BY <2>2, <3>2 DEF StepThrows
    <3> QED BY <3>2, <3>3, <3>4
  <2>3. ASSUME NEW sent \in BOOLEAN, AcknowledgePublication(sent)
        PROVE  FALSE
    BY <2>3, ClearFacts DEF AcknowledgePublication, AckSent, AckFailed, IInv
  <2>4. CASE RuntimeStop
    BY <2>4, ClearFacts DEF RuntimeStop, IInv
  <2>5. CASE Tick
    BY <2>5 DEF Tick
  <2> QED BY <2>1, <2>2, <2>3, <2>4, <2>5 DEF Next
<1> QED BY <1>1, Invariance, PTL DEF Spec, PulseSpacing

\* The evidence invariant holds in every reachable state.
LEMMA EvidenceInvariance == Spec => []EvidenceInv
<1>1. Init => IInv /\ EvidenceInv
  BY InitIInv, InitEvidence
<1>2. IInv /\ EvidenceInv /\ [Next]_vars => (IInv /\ EvidenceInv)'
  BY NextIInv, NextEvidence
<1> QED BY <1>1, <1>2, PTL DEF Spec

\* Under the rule policy a command fires only after StableCycles consecutive
\* cycles of that policy aimed at the same slot of the same object, whatever resets, switches,
\* losses and policy changes lie before them.
THEOREM RuleShotsAreAimed == Spec => []RuleFiresWhenStable
<1>1. IInv /\ EvidenceInv => RuleFiresWhenStable
  <2> SUFFICES ASSUME IInv, EvidenceInv, session.awaiting, result.command.fire,
                      \A in \in result.in : in.act = "RULE"
               PROVE  hist.aimed = StableCycles
    BY DEF RuleFiresWhenStable
  <2>1. fire.stableCycles = StableCycles
    BY DEF EvidenceInv, StableInv
  <2>2. StableCycles \in Nat \ {0} /\ hist.aimed \in 0 .. StableCycles
    BY FireControlAssumption DEF IInv, TypeOK, History
  <2>3. StableCycles <= hist.aimed
    BY <2>1, <2>2 DEF EvidenceInv, StableInv
  <2> QED BY <2>2, <2>3
<1> QED BY <1>1, Invariance, EvidenceInvariance, PTL

\* A fallback continues the plan of the target the cycle is about, unless the
\* policy threw after that plan was published.
THEOREM FallbacksKeepTheTarget == Spec => []FallbackSameTargetIfNoThrow
<1>1. EvidenceInv => FallbackSameTargetIfNoThrow
  BY DEF EvidenceInv, TargetInv, FallbackSameTargetIfNoThrow, FallbackSameTarget
<1> QED BY <1>1, EvidenceInvariance, PTL

\* Friction wheels never turn longer than FrictionHold after the capture that
\* last showed the target being aimed at.
THEOREM FrictionStops == Spec => []FrictionIsBounded
<1>1. IInv /\ EvidenceInv => FrictionIsBounded
  <2> SUFFICES ASSUME IInv, EvidenceInv, session.awaiting, result.command.friction,
                      ~(\A in \in result.in :
                          result.command.valid /\ in.tracker \in {"DETECTING", "TRACKING"})
               PROVE  hist.visible # None /\ session.lastStep - hist.visible < FrictionHold
    BY DEF FrictionIsBounded
  <2>1. /\ session.frictionTime <= hist.visible /\ session.frictionTime # None
        /\ session.lastStep - session.frictionTime < FrictionHold
    BY DEF EvidenceInv, VisibleInv
  <2>2. /\ session.frictionTime \in Nat \cup {-1} /\ hist.visible \in Nat \cup {-1}
        /\ session.lastStep \in Nat \cup {-1} /\ FrictionHold \in Nat
    BY SessionAssumption DEF IInv, TypeOK, Session, History, Instant, None
  <2> QED BY <2>1, <2>2 DEF None
<1> QED BY <1>1, Invariance, EvidenceInvariance, PTL
=============================================================================
