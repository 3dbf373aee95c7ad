------------------------------ MODULE ArmorTracker ------------------------------
(***************************************************************************)
(* The armour predictor: one vehicle tracked from frame to frame.          *)
(* ProcessFrame is one step; its branches are the actions below.  The      *)
(* filter is numeric: whether a prediction or an update succeeds, and      *)
(* whether an update's innovation is within the gate, are inputs.          *)
(***************************************************************************)
EXTENDS ArmorAssociation

CONSTANTS
  Labels,        \* the supported vehicle labels
  Priority,      \* label_priorities: the lower, the sooner acquired
  Inputs,        \* the frames that may arrive
  MinDetect,     \* tracking.min_detect_count
  MaxTempLost,   \* tracking.max_temp_lost_count
  MaxDt,         \* tracking.max_dt_s
  ConfirmFrames, \* maneuver.confirmation_frames
  ConfirmWindow, \* maneuver.confirmation_window_s
  Hold,          \* maneuver.hold_s
  InitialGate, Gate, RecoveryGate,  \* association gates
  CostTrigger,   \* maneuver.association_cost_trigger
  MaxGeneration  \* bound: tracks started in a behaviour

None == "none"

\* A frame: its stamp relative to the frame before (gap in time units, at most 0
\* when it is not later), whether detections and geometry are usable, the slots
\* that face the camera, the detected armours and the stand-alone light bars.
IsInput(in) ==
  /\ in.round \in Nat
  /\ in.capture \in BOOLEAN
  /\ in.gap \in Nat
  /\ in.usable \in BOOLEAN
  /\ in.visible \subseteq Slots
  /\ \A i \in DOMAIN in.armors : IsArmor(in.armors[i], Labels)
  /\ in.lights \in Seq({in.lights[i] : i \in DOMAIN in.lights})
  /\ \A i \in DOMAIN in.lights : IsLight(in.lights[i], in.armors)

\* What ParseArmorPredictorConfig enforces.
ASSUME TrackerAssumption ==
  /\ Priority \in [Labels -> Nat]
  /\ \A in \in Inputs : IsInput(in)
  /\ None \notin Labels
  /\ MinDetect \in Nat \ {0}
  /\ MaxTempLost \in Nat
  /\ MaxDt \in Nat \ {0}
  /\ ConfirmFrames \in Nat \ {0, 1}
  /\ ConfirmWindow \in Nat \ {0}
  /\ Hold \in Nat \ {0}
  /\ CostTrigger \in Nat \ {0} /\ CostTrigger < Gate
  /\ Gate \in Nat /\ Gate < RecoveryGate
  /\ RecoveryGate \in Nat /\ RecoveryGate <= InitialGate
  /\ InitialGate \in Nat
  /\ MaxGeneration \in Nat

VARIABLES
  track,  \* the tracker's state
  stamp,  \* the round and time source of the last frame
  last,   \* the last frame that was associated with the track, or none
  hist    \* history only: what the track rests on

vars == <<track, stamp, last, hist>>

\* An update of a copy of the filter: it failed, or its innovation is beyond or
\* within the gate.
Update == {"FAILED", "BEYOND", "WITHIN"}

\* filter: the track whose estimate the filter holds, if it is initialised.
Track ==
  [state : {"LOST", "DETECTING", "TRACKING", "TEMP_LOST"},
   label : Labels \cup {None}, filter : SUBSET Nat, generation : Nat,
   detects : Nat, lost : Nat,
   phase : {"IDLE", "PENDING", "ACTIVE"}, evidence : Nat,
   window : 0 .. ConfirmWindow, remaining : 0 .. Hold]

FreshTrack ==
  [state |-> "LOST", label |-> None, filter |-> {}, generation |-> 0,
   detects |-> 0, lost |-> 0,
   phase |-> "IDLE", evidence |-> 0, window |-> 0, remaining |-> 0]

-----------------------------------------------------------------------------
(* Resets. *)

ClearManeuver(t) ==
  [t EXCEPT !.phase = "IDLE", !.evidence = 0, !.window = 0, !.remaining = 0]

\* The manoeuvre of the lost target goes on.
Reset_KeepsManeuver(t) ==
  [t EXCEPT !.state = "LOST", !.label = None, !.filter = {},
            !.detects = 0, !.lost = 0]

Reset(t) ==
  [ClearManeuver(t) EXCEPT !.state = "LOST", !.label = None, !.filter = {},
                           !.detects = 0, !.lost = 0]

\* Every track starts as the first.
Initialized_SameGeneration(t, l) ==
  [ClearManeuver(t) EXCEPT !.generation = 1, !.filter = {1},
                           !.label = l, !.state = "DETECTING",
                           !.detects = 1, !.lost = 0]

Initialized(t, l) ==
  [ClearManeuver(t) EXCEPT !.generation = @ + 1, !.filter = {t.generation + 1},
                           !.label = l, !.state = "DETECTING",
                           !.detects = 1, !.lost = 0]

-----------------------------------------------------------------------------
(* The frame's stamp. *)

FirstFrame == stamp.round = {}
RoundChanged(in) == stamp.round \notin {{}, {in.round}}
SourceChanged(in) == stamp.capture \notin {{}, {in.capture}}

\* Time since the frame before; 0 when there is none to compare with.
Dt(in) ==
  IF FirstFrame \/ RoundChanged(in) \/ SourceChanged(in) THEN 0 ELSE in.gap

\* A new round forgets the stamps before anything compares them.
Interrupted(in) ==
  \/ RoundChanged(in)
  \/ ~FirstFrame /\ (SourceChanged(in) \/ in.gap = 0 \/ Dt(in) > MaxDt)

\* The time left of a manoeuvre that is waiting for confirmation or active.
Aged(t, dt) ==
  IF t.phase = "PENDING" /\ dt > 0
  THEN IF t.window > dt THEN [t EXCEPT !.window = @ - dt] ELSE ClearManeuver(t)
  ELSE IF t.phase = "ACTIVE" /\ dt > 0
  THEN IF t.remaining > dt THEN [t EXCEPT !.remaining = @ - dt] ELSE ClearManeuver(t)
  ELSE t

Entered(in) == Aged(IF Interrupted(in) THEN Reset(track) ELSE track, Dt(in))

-----------------------------------------------------------------------------
(* A frame on a track: association, update, manoeuvre, state. *)

Candidates(in, l) == {i \in DOMAIN in.armors : in.armors[i].label = l}

\* Computed once for every frame, label and gate.
ArmorMatches ==
  [in \in Inputs, l \in Labels, gate \in {InitialGate, Gate, RecoveryGate} |->
     Associate(in.armors, Candidates(in, l), in.visible, gate)]

NormalGate(t) ==
  IF t.state = "DETECTING" THEN InitialGate
  ELSE IF t.remaining > 0 THEN RecoveryGate ELSE Gate

\* A track that matches nothing at its gate is given the recovery gate.
Recovers(t, in) ==
  /\ Candidates(in, t.label) # {}
  /\ {} \in ArmorMatches[in, t.label, NormalGate(t)]
  /\ t.state # "DETECTING"
  /\ NormalGate(t) < RecoveryGate

Matches(t, in) ==
  ArmorMatches[in, t.label, IF Recovers(t, in) THEN RecoveryGate ELSE NormalGate(t)]

\* What one frame offers the filter.  Without an armour the light bars only count
\* in pairs.
Measured(in, armors) ==
  LET lights == AssociateLightbars(in.lights, in.visible, armors)
  IN [armors |-> armors, lights |-> lights,
      used |-> IF armors = {} THEN SelectLightOnlyPairs(lights) ELSE lights]

\* armor: update by the armours alone; combined: with the light bars; trial: the
\* latter again with the noise of a manoeuvre.  Without light bars the first two
\* are the same computation.
Verdicts(m) ==
  {v \in [armor : Update, combined : Update, trial : Update] :
     /\ m.armors = {} => v.armor = "FAILED"
     /\ m.used = {} => v.combined = v.armor}

HasEvidence(t, in, m, v) ==
  /\ m.armors # {} \/ m.used # {}
  /\ v.combined # "FAILED"
  /\ t.state # "DETECTING"
  /\ \/ Recovers(t, in) /\ m.armors # {}
     \/ \E p \in m.armors : in.armors[p[1]].cost[p[2]] >= CostTrigger
     \/ v.combined = "BEYOND"

Confirms(t, evident) ==
  evident /\ t.phase = "PENDING" /\ t.evidence + 1 >= ConfirmFrames

\* A frame without evidence does not end the wait.
Observed_KeepsWaiting(t, evident) ==
  IF Confirms(t, evident)
  THEN [t EXCEPT !.phase = "ACTIVE", !.evidence = @ + 1, !.window = 0, !.remaining = Hold]
  ELSE IF t.phase = "PENDING" /\ evident THEN [t EXCEPT !.evidence = @ + 1]
  ELSE IF t.phase = "IDLE" /\ evident
  THEN [t EXCEPT !.phase = "PENDING", !.evidence = 1, !.window = ConfirmWindow]
  ELSE t

\* Evidence starts, continues or confirms a manoeuvre; a frame without ends the wait.
Observed(t, evident) ==
  IF Confirms(t, evident)
  THEN [t EXCEPT !.phase = "ACTIVE", !.evidence = @ + 1, !.window = 0, !.remaining = Hold]
  ELSE IF t.phase = "PENDING"
  THEN IF evident THEN [t EXCEPT !.evidence = @ + 1] ELSE ClearManeuver(t)
  ELSE IF t.phase = "IDLE" /\ evident
  THEN [t EXCEPT !.phase = "PENDING", !.evidence = 1, !.window = ConfirmWindow]
  ELSE t

\* The update a confirmed manoeuvre leads to is the trial.
Combined(confirmed, v) == IF confirmed THEN v.trial ELSE v.combined

Accepted(m, combined, v) ==
  \/ (m.armors # {} \/ m.used # {}) /\ combined = "WITHIN"
  \/ m.armors # {} /\ m.lights # {} /\ v.armor = "WITHIN"

Breaks(m, combined, v) ==
  /\ m.armors # {}
  /\ combined = "FAILED"
  /\ m.lights = {} \/ v.armor = "FAILED"

\* A detected track is also confirmed by light bars alone.
Advanced_Lights(t, found, m) ==
  IF t.state = "DETECTING"
  THEN IF ~found THEN Reset(t)
       ELSE [t EXCEPT !.detects = @ + 1,
                      !.state = IF t.detects + 1 >= MinDetect THEN "TRACKING" ELSE @]
  ELSE IF found THEN [t EXCEPT !.state = "TRACKING", !.lost = 0]
  ELSE IF t.state = "TRACKING" THEN [t EXCEPT !.state = "TEMP_LOST", !.lost = 1]
  ELSE IF t.lost + 1 > MaxTempLost THEN Reset(t)
  ELSE [t EXCEPT !.lost = @ + 1]

\* The missed frames of one loss are not counted.
Advanced_NoCount(t, found, m) ==
  IF t.state = "DETECTING"
  THEN IF ~found THEN Reset(t)
       ELSE IF m.armors = {} THEN t
       ELSE [t EXCEPT !.detects = @ + 1,
                      !.state = IF t.detects + 1 >= MinDetect THEN "TRACKING" ELSE @]
  ELSE IF found THEN [t EXCEPT !.state = "TRACKING", !.lost = 0]
  ELSE [t EXCEPT !.state = "TEMP_LOST", !.lost = 1]

Advanced(t, found, m) ==
  IF t.state = "DETECTING"
  THEN IF ~found THEN Reset(t)
       ELSE IF m.armors = {} THEN t
       ELSE [t EXCEPT !.detects = @ + 1,
                      !.state = IF t.detects + 1 >= MinDetect THEN "TRACKING" ELSE @]
  ELSE IF found THEN [t EXCEPT !.state = "TRACKING", !.lost = 0]
  ELSE IF t.state = "TRACKING" THEN [t EXCEPT !.state = "TEMP_LOST", !.lost = 1]
  ELSE IF t.lost + 1 > MaxTempLost THEN Reset(t)
  ELSE [t EXCEPT !.lost = @ + 1]

-----------------------------------------------------------------------------
(* History.  full: frames of this track an armour was accepted in; missed:  *)
(* frames in a row without an accepted update; evident: ages of the latest   *)
(* frames in a row that showed evidence of a manoeuvre; active: time since   *)
(* the manoeuvre was confirmed; ended: the latest track that was lost.       *)

FreshHistory == [full |-> 0, missed |-> 0, evident |-> <<>>, active |-> 0, ended |-> 0]

Older(ages, dt) == [i \in DOMAIN ages |-> ages[i] + dt]

\* The ages of the last ConfirmFrames frames of evidence.
WithEvidence(ages, dt) ==
  LET all == Append(Older(ages, dt), 0)
  IN IF Len(all) > ConfirmFrames THEN Tail(all) ELSE all

Capped(n, limit) == IF n < limit THEN n ELSE limit

\* before: the track after the stamp; full, missed and evident are this frame's.
Recorded(in, before, full, missed, evident) ==
  [full |-> IF track'.state = "LOST" THEN 0 ELSE full,
   missed |-> IF track'.state = "LOST" THEN 0 ELSE missed,
   evident |-> IF track'.state = "LOST" THEN <<>> ELSE evident,
   active |-> IF track'.phase # "ACTIVE" \/ before.phase # "ACTIVE" THEN 0
              ELSE Capped(hist.active + Dt(in), Hold),
   ended |-> IF track.state # "LOST" /\ (before.state = "LOST" \/ track'.state = "LOST")
             THEN track.generation ELSE hist.ended]

NoMatch == {}

-----------------------------------------------------------------------------
Init ==
  /\ track = FreshTrack
  /\ stamp = [round |-> {}, capture |-> {}]
  /\ last = NoMatch
  /\ hist = FreshHistory

Stamped(in) == stamp' = [round |-> {in.round}, capture |-> {in.capture}]

\* Detections and refinements do not pair up, or the frame's geometry is missing or
\* invalid.
Reject(in) ==
  /\ Stamped(in)
  /\ ~in.usable
  /\ track' = Reset(Entered(in))
  /\ last' = NoMatch
  /\ hist' = Recorded(in, Entered(in), 0, 0, <<>>)

\* The filter cannot be propagated to this frame.
Diverge(in) ==
  /\ Stamped(in)
  /\ in.usable
  /\ Entered(in).state # "LOST" /\ Dt(in) > 0
  /\ track' = Reset(Entered(in))
  /\ last' = NoMatch
  /\ hist' = Recorded(in, Entered(in), 0, 0, <<>>)

\* Nothing to acquire: no armour with a solved pose.
Solved(in) == {i \in DOMAIN in.armors : in.armors[i].pnp}

Search(in) ==
  /\ Stamped(in)
  /\ in.usable
  /\ Entered(in).state = "LOST"
  /\ Solved(in) = {}
  /\ track' = Entered(in)
  /\ last' = NoMatch
  /\ hist' = Recorded(in, Entered(in), 0, 0, <<>>)

\* The label with the best priority starts a track (among equals the one closest to
\* the image centre), unless its first estimate is invalid.
Preferred(in) ==
  {in.armors[i].label : i \in {j \in Solved(in) :
     \A k \in Solved(in) : Priority[in.armors[j].label] <= Priority[in.armors[k].label]}}

Acquire(in) ==
  /\ Stamped(in)
  /\ in.usable
  /\ Entered(in).state = "LOST"
  /\ \E l \in Preferred(in), valid \in BOOLEAN :
       /\ valid => track.generation < MaxGeneration
       /\ track' = IF valid THEN Initialized(Entered(in), l) ELSE Reset(Entered(in))
  /\ last' = NoMatch
  /\ hist' = Recorded(in, Entered(in), 1, 0, <<>>)

\* One frame on the track.  The divergence check at the end of the code finds
\* nothing: an update only succeeds on an estimate that has not diverged.
Follow(in) ==
  LET t == Entered(in)
  IN /\ Stamped(in)
     /\ in.usable
     /\ t.state # "LOST"
     /\ \E m \in {Measured(in, armors) : armors \in Matches(t, in)} : \E v \in Verdicts(m) :
          LET evident == HasEvidence(t, in, m, v)
              combined == Combined(Confirms(t, evident), v)
              found == Accepted(m, combined, v)
              observed == Observed(t, evident)
          IN /\ track' = IF Breaks(m, combined, v) THEN Reset(observed)
                         ELSE Advanced(observed, found, m)
             /\ last' = {[in |-> in, match |-> m, found |-> found]}
             /\ hist' = Recorded(in, t,
                  IF found /\ m.armors # {} THEN Capped(hist.full + 1, MinDetect) ELSE hist.full,
                  IF found THEN 0 ELSE Capped(hist.missed + 1, MaxTempLost + 2),
                  IF evident THEN WithEvidence(hist.evident, Dt(in)) ELSE <<>>)

ProcessFrame(in) == Reject(in) \/ Diverge(in) \/ Search(in) \/ Acquire(in) \/ Follow(in)

Next == \E in \in Inputs : ProcessFrame(in)

Spec == Init /\ [][Next]_vars

-----------------------------------------------------------------------------
(* Properties *)

TypeOK ==
  /\ track \in Track
  /\ stamp.round \subseteq Nat /\ stamp.capture \subseteq BOOLEAN
  /\ track.state = "LOST" <=> track.label = None
  /\ track.state = "LOST" <=> track.filter = {}
  /\ track.phase = "ACTIVE" <=> track.remaining > 0
  /\ track.phase = "PENDING" <=> track.window > 0

\* A track is confirmed only by MinDetect frames in which the whole armour was
\* seen and accepted; light bars keep a candidate but never confirm it
\* (armor_predictor.cpp, the DETECTING branch).
ConfirmedByArmor ==
  track.state \in {"TRACKING", "TEMP_LOST"} => hist.full >= MinDetect

\* The tracker coasts through at most MaxTempLost frames without an accepted
\* update (at least one, even if none is configured): it neither counts past the
\* limit nor forgets the count while the target stays away.
CoastIsBounded ==
  hist.missed <= Max({MaxTempLost, 1})

\* The generation a track is published under is its own: no track that was lost,
\* be it lost and replaced within one frame, had it, and the estimate published
\* with it belongs to it.
GenerationNamesOneTrack ==
  track.state # "LOST" =>
    /\ track.generation > hist.ended
    /\ track.filter = {track.generation}

\* A manoeuvre is assumed only after ConfirmFrames frames in a row each showed
\* evidence, the first of them less than the confirmation window ago.
ManeuversAreConfirmed ==
  [][track'.phase = "ACTIVE" /\ track.phase # "ACTIVE" =>
       /\ Len(hist'.evident) = ConfirmFrames
       /\ hist'.evident[1] < ConfirmWindow]_vars

\* A manoeuvre ends Hold after it was confirmed, whatever evidence follows, and
\* never outlives the track it was observed on.
ManeuversEnd ==
  track.phase = "ACTIVE" =>
    /\ hist.active < Hold
    /\ track.state \in {"TRACKING", "TEMP_LOST"}

\* One update never uses a bar of the vehicle twice, once in an armour and once as a
\* stand-alone light bar.
BarsAreMeasuredOnce ==
  \A l \in last : \A p \in l.match.used :
    /\ p[2] \notin Occupied(l.match.armors)
    /\ \A q \in l.match.used : p # q => p[2] # q[2]

\* An update without any armour rests on both bars of every slot it uses.
LightsAloneArePaired ==
  \A l \in last : l.found /\ l.match.armors = {} =>
    /\ l.match.used # {}
    /\ \A p \in l.match.used, side \in Sides :
         \E q \in l.match.used : q[2] = <<p[2][1], side>>

\* The dynamic program over sets of bars finds a matching of as many light bars as
\* possible, and of these the cheapest.
LightMatchIsOptimal ==
  \A l \in last :
    LET in == l.in
        bars == FreeBars(in.visible, l.match.armors)
        rows == DOMAIN in.lights \ Duplicates(in.lights, l.match.armors)
        pairs == {p \in rows \X bars : p[2] \in DOMAIN in.lights[p[1]].cost}
    IN l.match.lights \in Best(in.lights, {m \in SUBSET pairs : Injective(m)})

\* A manoeuvre begins and ends as its evidence says (see above).
ManeuversAreOnEvidence == ManeuversAreConfirmed /\ []ManeuversEnd

\* No bar is used twice, and the matching of the light bars is the best there is (see
\* above).
LightsAreMatched == BarsAreMeasuredOnce /\ LightMatchIsOptimal
================================================================================
