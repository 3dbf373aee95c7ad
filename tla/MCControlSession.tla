--------------------------- MODULE MCControlSession ---------------------------
(***************************************************************************)
(* Instances of ControlSession: the families of cycle inputs each run      *)
(* feeds the chain.  Every family varies what one hazard is about around a *)
(* cycle in which everything is in order.                                  *)
(***************************************************************************)
EXTENDS ControlSession

Good ==
  [round |-> 0, object |-> 0, tracker |-> "TRACKING", age |-> 0,
   feedback |-> "OK", finite |-> TRUE, external |-> TRUE, healthy |-> TRUE,
   actuatorChanged |-> FALSE, best |-> 0, leave |-> {0}, improves |-> FALSE,
   ballistic |-> TRUE, planned |-> TRUE, aim |-> TRUE, certain |-> TRUE,
   referee |-> TRUE, act |-> "RULE", slot |-> 0]

\* Cycles each input check, gate and link event rejects.
Faults ==
  {[Good EXCEPT !.tracker = t] : t \in {"LOST", "DETECTING"}}
    \cup {[Good EXCEPT !.feedback = "STALE"], [Good EXCEPT !.finite = FALSE],
          [Good EXCEPT !.age = MaxPredictionAge + 1],
          [Good EXCEPT !.external = FALSE], [Good EXCEPT !.healthy = FALSE],
          [Good EXCEPT !.actuatorChanged = TRUE]}

-----------------------------------------------------------------------------
(* Pulses: who asks for a shot, at which slot, and what interrupts it.      *)

External ==
  {[Good EXCEPT !.act = "FIRE", !.slot = s] : s \in Slots}
    \cup {[Good EXCEPT !.act = "TRACK", !.slot = 1], [Good EXCEPT !.act = "WAIT"],
          [Good EXCEPT !.act = "INVALID"], [Good EXCEPT !.act = "THROW"]}

RuleAims ==
  {[Good EXCEPT !.aim = FALSE], [Good EXCEPT !.certain = FALSE],
   [Good EXCEPT !.best = None, !.leave = {}],
   [Good EXCEPT !.best = 1, !.leave = {0, 1}, !.improves = TRUE],
   [Good EXCEPT !.best = 1, !.leave = {1}],
   [Good EXCEPT !.tracker = "TEMP_LOST", !.age = 1]}

PulseInputs == {Good, [Good EXCEPT !.round = 1]} \cup External \cup RuleAims \cup
  {[Good EXCEPT !.referee = FALSE], [Good EXCEPT !.healthy = FALSE],
   [Good EXCEPT !.planned = FALSE], [Good EXCEPT !.object = 1]}

-----------------------------------------------------------------------------
(* Fallbacks and friction wheels: solves that fail, on either target.       *)

Targets == {[Good EXCEPT !.object = o, !.best = s, !.leave = {s}, !.planned = p] :
              o \in Objects, s \in Slots, p \in BOOLEAN}

FallbackInputs == Targets \cup Faults \cup
  {[Good EXCEPT !.tracker = "TEMP_LOST", !.age = a, !.planned = p] :
     a \in {0, 1}, p \in BOOLEAN}
    \cup {[Good EXCEPT !.ballistic = FALSE], [Good EXCEPT !.feedback = "INVALID"],
          [Good EXCEPT !.round = 1]}

\* The same with an external policy that may throw.
ThrowInputs ==
  {[Good EXCEPT !.object = o, !.act = a, !.planned = p] :
     o \in Objects, a \in {"FIRE", "THROW"}, p \in BOOLEAN}
=============================================================================
