------------------------------ MODULE FireControl ------------------------------
(***************************************************************************)
(* FireControl::Step and the RulePolicy it owns: one control cycle as a    *)
(* function from the fire-control state, the cycle's input and the cycle's *)
(* time to the next state and the gimbal command.  Geometry, ballistics    *)
(* and the trajectory solver enter as the verdicts the control flow reads. *)
(*                                                                         *)
(* Time is counted in planner periods (planner.dt_s, 10 ms).  An empty     *)
(* std::optional instant and the slot -1 are None.                         *)
(***************************************************************************)
EXTENDS Integers

CONSTANTS
  Slots,               \* armour slots of the tracked vehicle (0..3 in the code)
  Objects,             \* (label, type, track_generation) identities
  StableCycles,        \* pulse.stable_cycles
  FireInterval,        \* pulse.interval_s
  PulseWidth,          \* pulse.width_s
  MaxPredictionAge,    \* timing.max_prediction_age_s
  MaxTempLostControl,  \* timing.max_temp_lost_control_s
  SwitchConfirmation,  \* selection.switch_confirmation_s
  AutoFire,            \* config auto_fire
  BypassReferee        \* config test_bypass_referee

None == -1

\* The ranges fire_control_config.cpp accepts (ParseFireControlConfig, 87-104).
ASSUME FireControlAssumption ==
  /\ Slots \subseteq Nat
  /\ Objects \subseteq Nat
  /\ StableCycles \in Nat \ {0}
  /\ FireInterval \in Nat \ {0}
  /\ PulseWidth \in 1 .. (FireInterval - 1)
  /\ MaxPredictionAge \in Nat
  /\ MaxTempLostControl \in Nat
  /\ SwitchConfirmation \in Nat
  /\ AutoFire \in BOOLEAN
  /\ BypassReferee \in BOOLEAN

SlotOrNone == Slots \cup {None}
Instant == Nat \cup {None}
TrackerStates == {"LOST", "DETECTING", "TRACKING", "TEMP_LOST"}
Actions == {"RULE", "WAIT", "TRACK", "FIRE", "INVALID", "THROW"}

\* What one cycle reads.  age is now - source time (negative: in the future or
\* unknown); best is the enter-eligible armour with the smallest view angle,
\* leave the slots inside the leave angle, improves whether best beats the
\* locked slot by the margin; act = "RULE" means no external policy.
CycleInput ==
  [round : Nat, object : Objects, tracker : TrackerStates, age : Int,
   feedback : {"OK", "INVALID", "STALE"}, finite : BOOLEAN,
   external : BOOLEAN, healthy : BOOLEAN, actuatorChanged : BOOLEAN,
   best : SlotOrNone, leave : SUBSET Slots, improves : BOOLEAN,
   ballistic : BOOLEAN, planned : BOOLEAN,
   aim : BOOLEAN, certain : BOOLEAN, referee : BOOLEAN,
   act : Actions, slot : Slots]

FireState ==
  [object : Objects \cup {None}, externalMode : BOOLEAN, tempLostSince : Instant,
   externalSlot : SlotOrNone, locked : SlotOrNone,
   pending : SlotOrNone, pendingSince : Instant,
   stableSlot : SlotOrNone, stableCycles : 0 .. StableCycles,
   lastFireStart : Instant, pulseUntil : Instant]

FreshFireState ==
  [object |-> None, externalMode |-> FALSE, tempLostSince |-> None,
   externalSlot |-> None, locked |-> None, pending |-> None, pendingSince |-> None,
   stableSlot |-> None, stableCycles |-> 0, lastFireStart |-> None, pulseUntil |-> None]

RejectReasons ==
  {"NONE", "INVALID_FEEDBACK", "NUMERICAL_INVALID", "STALE_FEEDBACK", "STALE_PREDICTION",
   "TRACK_NOT_CONFIRMED", "INVALID_ACTION", "NO_SHOOTABLE_ARMOR", "BALLISTIC_UNSOLVABLE",
   "MPC_FAILED", "AUTO_FIRE_DISABLED", "EXTERNAL_CONTROL_DISABLED", "TEMPORARY_LOSS",
   "REFEREE", "HIGH_UNCERTAINTY", "AIM_ERROR_TOO_LARGE", "AIM_NOT_STABLE", "PULSE_BUSY",
   "COOLDOWN", "TALOS_UNHEALTHY"}

Command ==
  [valid : BOOLEAN, fire : BOOLEAN, accepted : BOOLEAN,
   source : {"PLAN", "FALLBACK", "STOP"}, reason : RejectReasons,
   slot : SlotOrNone, objectReset : BOOLEAN, friction : BOOLEAN]

StopCommand(reason, slot, reset) ==
  [valid |-> FALSE, fire |-> FALSE, accepted |-> FALSE, source |-> "STOP",
   reason |-> reason, slot |-> slot, objectReset |-> reset, friction |-> FALSE]

-----------------------------------------------------------------------------
(* Resets.  A mutated form of a definition stands before it. *)

\* The interval is forgotten together with the pulse.
ResetFireReadiness_ForgetsInterval(f) ==
  [f EXCEPT !.stableSlot = None, !.stableCycles = 0, !.pulseUntil = None, !.lastFireStart = None]

\* Stability counters and the running pulse; the slot lock stays.
ResetFireReadiness(f) ==
  [f EXCEPT !.stableSlot = None, !.stableCycles = 0, !.pulseUntil = None]

\* RulePolicy::ResetSelection.
ResetRuleSelection(f) ==
  [f EXCEPT !.locked = None, !.pending = None, !.pendingSince = None,
            !.stableSlot = None, !.stableCycles = 0]

ResetSelection(f) ==
  ResetFireReadiness([ResetRuleSelection(f) EXCEPT !.externalSlot = None])

-----------------------------------------------------------------------------
(* Slot selection by the rule policy. *)

\* A better armour was seen while another slot was locked.
Better(f, in) == in.best # None /\ in.best # f.locked /\ in.improves

PendingSince(f, in, now) == IF f.pending # in.best THEN now ELSE f.pendingSince

HoldOrSwitch(f, in, now) ==
  LET since == PendingSince(f, in, now)
  IN  CASE ~Better(f, in) -> [f EXCEPT !.pending = None, !.pendingSince = None]
        [] Better(f, in) /\ now - since >= SwitchConfirmation ->
             [f EXCEPT !.locked = in.best, !.pending = None, !.pendingSince = None]
        [] OTHER -> [f EXCEPT !.pending = in.best, !.pendingSince = since]

\* No switch starts while the target is only extrapolated.
HoldThroughLoss(f, in) ==
  IF f.locked \in in.leave
  THEN [f EXCEPT !.pending = None, !.pendingSince = None]
  ELSE ResetRuleSelection(f)

Acquire(f, in) ==
  IF f.locked = None
  THEN [f EXCEPT !.locked = in.best]
  ELSE [f EXCEPT !.locked = in.best, !.pending = None, !.pendingSince = None]

SelectSlot(f, in, now) ==
  CASE in.tracker = "TEMP_LOST" -> HoldThroughLoss(f, in)
    [] in.tracker # "TEMP_LOST" /\ f.locked \in in.leave -> HoldOrSwitch(f, in, now)
    [] OTHER -> Acquire(f, in)

-----------------------------------------------------------------------------
(* The rule policy's fire heuristics. *)

\* Consecutive aimed cycles on one slot; only compared with StableCycles, so
\* it saturates there.
CountStable(f, in, slot) ==
  IF slot = f.stableSlot /\ in.aim
  THEN [f EXCEPT !.stableCycles = IF @ < StableCycles THEN @ + 1 ELSE @]
  ELSE [f EXCEPT !.stableSlot = slot, !.stableCycles = IF in.aim THEN 1 ELSE 0]

Heuristic(f, in) ==
  CASE in.act # "RULE"                          -> "NONE"
    [] in.act = "RULE" /\ ~in.certain           -> "HIGH_UNCERTAINTY"
    [] in.act = "RULE" /\ in.certain /\ ~in.aim -> "AIM_ERROR_TOO_LARGE"
    [] OTHER -> IF f.stableCycles < StableCycles THEN "AIM_NOT_STABLE" ELSE "NONE"

\* The temporary-loss test is missing from the gate.
FireBlock_FiresWhenLost(f, in, external) ==
  IF ~AutoFire THEN "AUTO_FIRE_DISABLED"
  ELSE IF ~external THEN "EXTERNAL_CONTROL_DISABLED"
  ELSE IF ~BypassReferee /\ ~in.referee THEN "REFEREE"
  ELSE Heuristic(f, in)

\* Why a valid aim may not fire, in the order the code asks.
FireBlock(f, in, external) ==
  IF ~AutoFire THEN "AUTO_FIRE_DISABLED"
  ELSE IF ~external THEN "EXTERNAL_CONTROL_DISABLED"
  ELSE IF in.tracker = "TEMP_LOST" THEN "TEMPORARY_LOSS"
  ELSE IF in.tracker # "TRACKING" THEN "TRACK_NOT_CONFIRMED"
  ELSE IF ~BypassReferee /\ ~in.referee THEN "REFEREE"
  ELSE Heuristic(f, in)

-----------------------------------------------------------------------------
(* The pulse. *)

PulseActive(f, now) == f.pulseUntil # None /\ now < f.pulseUntil
IntervalReady(f, now) == f.lastFireStart = None \/ now - f.lastFireStart >= FireInterval
ShotRequested(in) == in.act \in {"RULE", "FIRE"}
ShotAccepted(f, in, now) == ~PulseActive(f, now) /\ IntervalReady(f, now) /\ ShotRequested(in)

PulseReason(f, in, now) ==
  CASE PulseActive(f, now) -> IF in.act = "FIRE" THEN "PULSE_BUSY" ELSE "NONE"
    [] ~PulseActive(f, now) /\ ShotAccepted(f, in, now) -> "NONE"
    [] OTHER -> IF ShotRequested(in) THEN "COOLDOWN" ELSE "NONE"

PlanCommand(f, in, now, external, slot, reset) ==
  LET block    == FireBlock(f, in, external)
      eligible == block = "NONE"
  IN [valid |-> TRUE,
      fire |-> eligible /\ (PulseActive(f, now) \/ ShotAccepted(f, in, now)),
      accepted |-> eligible /\ ShotAccepted(f, in, now),
      source |-> "PLAN",
      reason |-> IF eligible THEN PulseReason(f, in, now) ELSE block,
      slot |-> slot, objectReset |-> reset, friction |-> FALSE]

AfterPlan(f, in, now, external) ==
  CASE FireBlock(f, in, external) # "NONE" -> [f EXCEPT !.pulseUntil = None]
    [] FireBlock(f, in, external) = "NONE" /\ ShotAccepted(f, in, now) ->
         [f EXCEPT !.lastFireStart = now, !.pulseUntil = now + PulseWidth]
    [] OTHER -> f

-----------------------------------------------------------------------------
(* One cycle. *)

\* A change of policy keeps what the other policy had selected and counted.
Identify_KeepsSelection(f, in, now) ==
  LET f1 == [f EXCEPT !.externalMode = in.act # "RULE"]
      f2 == IF f1.object # in.object
            THEN [ResetSelection(f1) EXCEPT !.object = in.object] ELSE f1
  IN [f2 EXCEPT !.tempLostSince =
        IF in.tracker # "TEMP_LOST" THEN None ELSE IF @ = None THEN now ELSE @]

\* A change between rule and external policy, then a change of target object,
\* then the temporary-loss timer.
Identify(f, in, now) ==
  LET external == in.act # "RULE"
      f1 == IF f.externalMode # external
            THEN [ResetSelection(f) EXCEPT !.externalMode = external] ELSE f
      f2 == IF f1.object # in.object
            THEN [ResetSelection(f1) EXCEPT !.object = in.object] ELSE f1
  IN [f2 EXCEPT !.tempLostSince =
        IF in.tracker # "TEMP_LOST" THEN None ELSE IF @ = None THEN now ELSE @]

StateAllowsControl(f, in, now) ==
  \/ in.tracker \in {"DETECTING", "TRACKING"}
  \/ in.tracker = "TEMP_LOST" /\ now - f.tempLostSince <= MaxTempLostControl

PredictionFresh(in) == in.age >= 0 /\ in.age <= MaxPredictionAge

InputAdmitted(f, in, now) ==
  /\ StateAllowsControl(f, in, now)
  /\ in.feedback = "OK"
  /\ in.finite
  /\ PredictionFresh(in)

InputReason(f, in, now) ==
  IF in.feedback = "INVALID" THEN "INVALID_FEEDBACK"
  ELSE IF StateAllowsControl(f, in, now) /\ ~in.finite THEN "NUMERICAL_INVALID"
  ELSE IF in.feedback = "STALE" THEN "STALE_FEEDBACK"
  ELSE IF ~PredictionFresh(in) THEN "STALE_PREDICTION"
  ELSE "TRACK_NOT_CONFIRMED"

\* The slot this cycle aims at: the rule's lock, or the last external choice.
Select(f, in, now) ==
  CASE in.act = "RULE" -> SelectSlot(f, in, now)
    [] in.act \in {"TRACK", "FIRE"} -> [f EXCEPT !.externalSlot = in.slot]
    [] OTHER -> f

SelectedSlot(f) == IF f.externalMode THEN f.externalSlot ELSE f.locked

\* A switch resets the stability count; only a rule switch ends the pulse.
AfterSwitch(f, g) ==
  IF SelectedSlot(f) # None /\ SelectedSlot(g) \notin {None, SelectedSlot(f)}
  THEN [g EXCEPT !.stableSlot = None, !.stableCycles = 0,
                 !.pulseUntil = IF g.externalMode THEN @ ELSE None]
  ELSE g

Unaimed(f, reason, slot, reset) ==
  [fire |-> ResetFireReadiness(f), command |-> StopCommand(reason, slot, reset)]

Aim(f, in, now, external, reset) ==
  LET g    == AfterSwitch(f, Select(f, in, now))
      slot == SelectedSlot(g)
      e    == IF in.act = "RULE" THEN CountStable(g, in, slot) ELSE g
  IN IF slot = None THEN Unaimed(g, "NO_SHOOTABLE_ARMOR", slot, reset)
     ELSE IF ~in.ballistic THEN Unaimed(g, "BALLISTIC_UNSOLVABLE", slot, reset)
     ELSE IF ~in.planned THEN Unaimed(g, "MPC_FAILED", slot, reset)
     ELSE [fire |-> AfterPlan(e, in, now, external),
           command |-> PlanCommand(e, in, now, external, slot, reset)]

\* The object change is looked for after the new identity was stored.
FireStep_LateReset(f, in, now, external) ==
  LET g == Identify(f, in, now)
      reset == g.object # in.object
  IN IF ~InputAdmitted(g, in, now)
     THEN [fire |-> ResetSelection(g),
           command |-> StopCommand(InputReason(g, in, now), None, reset)]
     ELSE IF in.act = "INVALID" THEN Unaimed(g, "INVALID_ACTION", None, reset)
     ELSE Aim(g, in, now, external, reset)

\* FireControl::Step.  external is the input's enable flag after the session has
\* combined it with the sink's health.
FireStep(f, in, now, external) ==
  LET g     == Identify(f, in, now)
      reset == f.object # in.object
  IN IF ~InputAdmitted(g, in, now)
     THEN [fire |-> ResetSelection(g),
           command |-> StopCommand(InputReason(g, in, now), None, reset)]
     ELSE IF in.act = "INVALID" THEN Unaimed(g, "INVALID_ACTION", None, reset)
     ELSE Aim(g, in, now, external, reset)

\* The pulse survives the callback's exception.
FireStepThrows_KeepsPulse(f, in, now) == Identify(f, in, now)

\* The policy callback throws: everything before the call has happened.
FireStepThrows(f, in, now) == ResetFireReadiness(Identify(f, in, now))

PolicyCalled(f, in, now) == InputAdmitted(Identify(f, in, now), in, now)
=============================================================================
