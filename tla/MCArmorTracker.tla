---------------------------- MODULE MCArmorTracker ----------------------------
(***************************************************************************)
(* An instance of ArmorTracker: frames that vary what one hazard is about  *)
(* around a frame in which everything is in order.  Costs are 1 (close), 2  *)
(* (evidence of a manoeuvre), 4 (recovery gate only) and 6 (beyond it).     *)
(***************************************************************************)
EXTENDS ArmorTracker, TLC

Armor(label, slot, cost) ==
  [label |-> label, pnp |-> TRUE, cost |-> [s \in {slot} |-> cost]]

Light(costs) == [cost |-> costs, near |-> {}]

Good ==
  [round |-> 0, capture |-> TRUE, gap |-> 1, usable |-> TRUE, visible |-> {0, 1},
   armors |-> <<Armor("ONE", 0, 1)>>, lights |-> <<>>]

L(slot, side, cost) == [b \in {<<slot, side>>} |-> cost]

\* Stamps that break a track, unusable frames, a second vehicle.
Stamps ==
  {[Good EXCEPT !.round = 1], [Good EXCEPT !.capture = FALSE],
   [Good EXCEPT !.gap = 0], [Good EXCEPT !.gap = 2], [Good EXCEPT !.gap = MaxDt + 1],
   [Good EXCEPT !.usable = FALSE]}

Vehicles ==
  {[Good EXCEPT !.armors = <<Armor("TWO", 0, 1)>>],
   [Good EXCEPT !.armors = <<Armor("TWO", 0, 1), Armor("ONE", 1, 1)>>],
   [Good EXCEPT !.armors = <<[Armor("ONE", 0, 1) EXCEPT !.pnp = FALSE]>>],
   [Good EXCEPT !.armors = <<>>], [Good EXCEPT !.armors = <<>>, !.gap = 2]}

Costs ==
  {[Good EXCEPT !.armors = <<Armor("ONE", 0, c)>>] : c \in {2, 4, 6}}
    \cup {[Good EXCEPT !.armors = <<Armor("ONE", 0, 2)>>, !.gap = 2],
          [Good EXCEPT !.armors = <<Armor("ONE", 0, 1), Armor("ONE", 0, 2)>>]}

Lights ==
  {[Good EXCEPT !.armors = <<>>, !.lights = l] :
     l \in {<<Light(L(0, "LEFT", 1))>>,
            <<Light(L(0, "LEFT", 1)), Light(L(0, "RIGHT", 1))>>,
            <<Light(L(0, "LEFT", 1)), Light(L(1, "RIGHT", 1))>>,
            <<Light(L(0, "LEFT", 1)), Light(L(0, "LEFT", 2) @@ L(0, "RIGHT", 3)),
              Light(L(1, "LEFT", 1))>>,
            <<Light(L(0, "LEFT", 1) @@ L(0, "RIGHT", 4)), Light(L(0, "LEFT", 2)),
              Light(L(0, "RIGHT", 2) @@ L(1, "LEFT", 1))>>}}
    \cup
  {[Good EXCEPT !.lights = l] :
     l \in {<<Light(L(0, "LEFT", 1))>>, <<Light(L(1, "LEFT", 1))>>,
            <<[Light(L(0, "LEFT", 1) @@ L(1, "LEFT", 2)) EXCEPT !.near = {<<1, "LEFT">>}],
              Light(L(0, "LEFT", 1) @@ L(1, "LEFT", 3))>>}}

TrackerInputs == {Good} \cup Stamps \cup Vehicles \cup Costs \cup Lights

LabelPriority == [l \in {"ONE", "TWO"} |-> IF l = "ONE" THEN 0 ELSE 1]
=============================================================================
