--------------------------- MODULE ArmorTrackerProofs ---------------------------
(***************************************************************************)
(* Theorems about ArmorTracker for every set of frames and every value of  *)
(* the constants its assumption allows.  What the matchings contain is     *)
(* opaque to the first parts: their theorems hold whatever armours and     *)
(* light bars match.  The parts after them are about matchings of least    *)
(* cost: lemmas about sums, the light bars of a track, which a dynamic     *)
(* program matches, and, with variables of its own, the detections that    *)
(* the evaluator of the simulation gives to true armours (TruthMatching,   *)
(* the Hungarian algorithm).                                               *)
(***************************************************************************)
EXTENDS ArmorTracker, Integers, FiniteSetsExt, FiniteSetTheorems, WellFoundedInduction, TLAPS

-----------------------------------------------------------------------------
(* The inductive invariant. *)

\* A track's members agree with each other; no manoeuvre is waited for before the
\* track is confirmed.
WellFormed(t) ==
  /\ t \in Track
  /\ t.state = "LOST" <=> t.label = None
  /\ t.state = "LOST" <=> t.filter = {}
  /\ t.phase = "ACTIVE" <=> t.remaining > 0
  /\ t.phase = "PENDING" <=> t.window > 0
  /\ t.phase = "PENDING" => t.evidence \in 1 .. (ConfirmFrames - 1)
  /\ t.state \in {"LOST", "DETECTING"} => t.phase = "IDLE"

\* stamp and history are well typed.
StampInv == stamp.round \subseteq Nat /\ stamp.capture \subseteq BOOLEAN

\* A candidate has been detected no more often than whole armours were accepted.
DetectInv ==
  /\ hist.full \in 0 .. MinDetect
  /\ track.state = "DETECTING" => track.detects <= hist.full
  /\ track.state \in {"TRACKING", "TEMP_LOST"} => hist.full = MinDetect

\* The count of lost frames is the number of frames missed in a row.
CoastInv ==
  /\ hist.missed = IF track.state = "TEMP_LOST" THEN track.lost ELSE 0
  /\ track.state = "TEMP_LOST" => track.lost = 1 \/ track.lost <= MaxTempLost

\* Tracks are numbered in the order they start.
GenerationInv ==
  /\ hist.ended \in Nat /\ hist.ended <= track.generation
  /\ track.state # "LOST" =>
       hist.ended < track.generation /\ track.filter = {track.generation}

\* The pending count counts the latest frames of evidence, and the window is what
\* is left since the first of them.
ManeuverInv ==
  /\ hist.evident \in Seq(Nat) /\ Len(hist.evident) <= ConfirmFrames
  /\ track.phase = "PENDING" =>
       /\ track.evidence <= Len(hist.evident)
       /\ hist.evident[Len(hist.evident) - track.evidence + 1] + track.window <= ConfirmWindow
  /\ hist.active \in Nat
  /\ track.phase = "ACTIVE" => hist.active + track.remaining <= Hold

IInv ==
  WellFormed(track) /\ StampInv /\ DetectInv /\ CoastInv /\ GenerationInv /\ ManeuverInv

-----------------------------------------------------------------------------
(* The operators on a track. *)

\* The constants, without the frames.
LEMMA Ranges ==
  /\ MinDetect \in Nat \ {0} /\ MaxTempLost \in Nat
  /\ ConfirmFrames \in Nat \ {0, 1}
  /\ ConfirmWindow \in Nat \ {0} /\ Hold \in Nat \ {0}
  /\ 0 \in 0 .. ConfirmWindow /\ ConfirmWindow \in 0 .. ConfirmWindow
  /\ 0 \in 0 .. Hold /\ Hold \in 0 .. Hold
  /\ None \notin Labels
<1>1. /\ MinDetect \in Nat \ {0} /\ MaxTempLost \in Nat
      /\ ConfirmFrames \in Nat \ {0, 1}
      /\ ConfirmWindow \in Nat \ {0} /\ Hold \in Nat \ {0}
      /\ None \notin Labels
  BY TrackerAssumption
<1> QED BY <1>1

\* Reset forgets everything but the numbering.
LEMMA ResetFacts ==
  ASSUME NEW t \in Track
  PROVE  /\ WellFormed(Reset(t))
         /\ Reset(t).state = "LOST" /\ Reset(t).phase = "IDLE"
         /\ Reset(t).generation = t.generation
<1>1. ClearManeuver(t) \in Track /\ ClearManeuver(t).phase = "IDLE"
      /\ ClearManeuver(t).window = 0 /\ ClearManeuver(t).remaining = 0
      /\ ClearManeuver(t).generation = t.generation
  BY Ranges DEF ClearManeuver, Track
<1>2. /\ Reset(t) \in Track /\ Reset(t).phase = "IDLE"
      /\ Reset(t).window = 0 /\ Reset(t).remaining = 0
      /\ Reset(t).generation = t.generation
      /\ Reset(t).state = "LOST" /\ Reset(t).label = None /\ Reset(t).filter = {}
  BY <1>1 DEF Reset, Track
<1> QED BY <1>2 DEF WellFormed

\* The members that say which target is tracked and how well.
SameTarget(s, t) ==
  /\ s.state = t.state /\ s.label = t.label /\ s.filter = t.filter
  /\ s.generation = t.generation /\ s.detects = t.detects /\ s.lost = t.lost

LEMMA ClearFacts ==
  ASSUME NEW t, WellFormed(t)
  PROVE  /\ WellFormed(ClearManeuver(t)) /\ SameTarget(ClearManeuver(t), t)
         /\ ClearManeuver(t).phase = "IDLE"
<1>1. /\ ClearManeuver(t) \in Track /\ SameTarget(ClearManeuver(t), t)
      /\ ClearManeuver(t).phase = "IDLE"
      /\ ClearManeuver(t).window = 0 /\ ClearManeuver(t).remaining = 0
  BY Ranges DEF ClearManeuver, WellFormed, Track, SameTarget
<1> QED BY <1>1 DEF WellFormed, SameTarget

\* A new track has its own number.
LEMMA InitializedFacts ==
  ASSUME NEW t, WellFormed(t), NEW l \in Labels
  PROVE  /\ WellFormed(Initialized(t, l))
         /\ Initialized(t, l).state = "DETECTING" /\ Initialized(t, l).phase = "IDLE"
         /\ Initialized(t, l).detects = 1
         /\ Initialized(t, l).generation = t.generation + 1
         /\ Initialized(t, l).filter = {t.generation + 1}
<1>1. t.generation \in Nat
  BY DEF WellFormed, Track
<1> DEFINE g == t.generation + 1
           f == {g}
<1>2. g \in Nat /\ f \in SUBSET Nat
  BY <1>1
<1>3. ClearManeuver(t) \in Track /\ ClearManeuver(t).phase = "IDLE"
      /\ ClearManeuver(t).window = 0 /\ ClearManeuver(t).remaining = 0
      /\ ClearManeuver(t).generation = t.generation
  BY Ranges DEF ClearManeuver, WellFormed, Track
<1>4. Initialized(t, l) = [ClearManeuver(t) EXCEPT !.generation = g, !.filter = f,
                             !.label = l, !.state = "DETECTING", !.detects = 1, !.lost = 0]
  BY <1>3 DEF Initialized
<1>5. l # None /\ l \in Labels \cup {None} /\ f # {}
  BY Ranges
<1> HIDE DEF g, f
<1> DEFINE u == [ClearManeuver(t) EXCEPT !.generation = g, !.filter = f, !.label = l]
<1>6. /\ u \in Track /\ u.phase = "IDLE" /\ u.window = 0 /\ u.remaining = 0
      /\ u.generation = g /\ u.filter = f /\ u.label = l
  BY <1>2, <1>3, <1>5 DEF Track
<1> DEFINE n == Initialized(t, l)
<1>7. n = [u EXCEPT !.state = "DETECTING", !.detects = 1, !.lost = 0]
  BY <1>3, <1>4 DEF Track
<1> HIDE DEF u, n
<1>8. n \in Track
  BY <1>6, <1>7 DEF Track
<1>9. n.state = "DETECTING" /\ n.phase = "IDLE" /\ n.window = 0 /\ n.remaining = 0
  BY <1>6, <1>7 DEF Track
<1>10. n.detects = 1 /\ n.label = l /\ n.generation = g /\ n.filter = f
  BY <1>6, <1>7 DEF Track
<1> QED BY <1>5, <1>8, <1>9, <1>10 DEF WellFormed, n, g, f

\* Time shortens the wait and the manoeuvre, or ends them.
LEMMA AgedFacts ==
  ASSUME NEW t, WellFormed(t), NEW dt \in Nat
  PROVE  /\ WellFormed(Aged(t, dt)) /\ SameTarget(Aged(t, dt), t)
         /\ Aged(t, dt).phase \in {t.phase, "IDLE"}
         /\ Aged(t, dt).phase = "PENDING" =>
              Aged(t, dt).evidence = t.evidence /\ Aged(t, dt).window + dt = t.window
         /\ Aged(t, dt).phase = "ACTIVE" => Aged(t, dt).remaining + dt = t.remaining
<1>1. t.window \in 0 .. ConfirmWindow /\ t.remaining \in 0 .. Hold /\ t \in Track
      /\ ConfirmWindow \in Nat /\ Hold \in Nat
  BY Ranges DEF WellFormed, Track
<1> DEFINE w == t.window - dt
           r == t.remaining - dt
<1>2. CASE t.phase = "PENDING" /\ dt > 0 /\ t.window > dt
  <2>1. w \in 0 .. ConfirmWindow /\ w > 0 /\ w + dt = t.window
    BY <1>1, <1>2
  <2>2. Aged(t, dt) = [t EXCEPT !.window = w]
    BY <1>2 DEF Aged
  <2> HIDE DEF w
  <2> QED BY <1>1, <1>2, <2>1, <2>2 DEF WellFormed, Track, SameTarget
<1>3. CASE t.phase = "ACTIVE" /\ dt > 0 /\ t.remaining > dt
  <2>1. r \in 0 .. Hold /\ r > 0 /\ r + dt = t.remaining
    BY <1>1, <1>3
  <2>2. Aged(t, dt) = [t EXCEPT !.remaining = r]
    BY <1>3 DEF Aged
  <2> HIDE DEF r
  <2> QED BY <1>1, <1>3, <2>1, <2>2 DEF WellFormed, Track, SameTarget
<1>4. CASE \/ t.phase = "PENDING" /\ dt > 0 /\ ~(t.window > dt)
           \/ t.phase = "ACTIVE" /\ dt > 0 /\ ~(t.remaining > dt)
  BY <1>4, ClearFacts DEF Aged
<1>5. CASE ~(t.phase \in {"PENDING", "ACTIVE"} /\ dt > 0)
  <2>1. Aged(t, dt) = t
    BY <1>5 DEF Aged
  <2>2. t.phase \in {"PENDING", "ACTIVE"} => dt = 0
    BY <1>5
  <2> QED BY <1>1, <2>1, <2>2 DEF SameTarget
<1> QED BY <1>2, <1>3, <1>4, <1>5

\* Evidence moves the manoeuvre on and leaves the target alone.
LEMMA ObservedFacts ==
  ASSUME NEW t, WellFormed(t), NEW evident \in BOOLEAN,
         evident => t.state \notin {"LOST", "DETECTING"}
  PROVE  LET o == Observed(t, evident)
         IN /\ WellFormed(o) /\ SameTarget(o, t)
            /\ o.phase = "PENDING" =>
                 /\ evident
                 /\ \/ t.phase = "IDLE" /\ o.evidence = 1 /\ o.window = ConfirmWindow
                    \/ t.phase = "PENDING" /\ o.evidence = t.evidence + 1
                       /\ o.window = t.window
            /\ o.phase = "ACTIVE" =>
                 \/ t.phase = "ACTIVE" /\ o.remaining = t.remaining
                 \/ /\ t.phase = "PENDING" /\ evident /\ t.evidence = ConfirmFrames - 1
                    /\ o.remaining = Hold
<1>1. /\ t \in Track /\ t.evidence \in Nat
      /\ ConfirmWindow \in 0 .. ConfirmWindow /\ ConfirmWindow > 0
      /\ Hold \in 0 .. Hold /\ Hold > 0
      /\ ConfirmFrames \in Nat \ {0, 1}
      /\ 0 \in 0 .. ConfirmWindow
      /\ t.phase = "PENDING" => t.evidence \in 1 .. (ConfirmFrames - 1)
  BY Ranges DEF WellFormed, Track
<1> DEFINE o == Observed(t, evident)
           e == t.evidence + 1
<1>2. e \in Nat /\ (t.phase = "PENDING" /\ ~(e >= ConfirmFrames) => e \in 1 .. (ConfirmFrames - 1))
      /\ (t.phase = "PENDING" /\ e >= ConfirmFrames => t.evidence = ConfirmFrames - 1)
      /\ 1 \in 1 .. (ConfirmFrames - 1)
  BY <1>1
<1>3. CASE Confirms(t, evident)
  <2>1. evident /\ t.phase = "PENDING" /\ e >= ConfirmFrames
    BY <1>3 DEF Confirms
  <2>2. o = [t EXCEPT !.phase = "ACTIVE", !.evidence = e, !.window = 0, !.remaining = Hold]
    BY <1>3 DEF Observed
  <2> HIDE DEF o, e
  <2>3. /\ o \in Track /\ SameTarget(o, t)
        /\ o.phase = "ACTIVE" /\ o.window = 0 /\ o.remaining = Hold
    BY <1>1, <1>2, <2>2 DEF Track, SameTarget
  <2>4. WellFormed(o)
    BY <1>1, <2>1, <2>3 DEF WellFormed, SameTarget
  <2> QED BY <1>2, <2>1, <2>3, <2>4 DEF o
<1>4. CASE ~Confirms(t, evident) /\ t.phase = "PENDING" /\ evident
  <2>1. ~(e >= ConfirmFrames)
    BY <1>4 DEF Confirms
  <2>2. o = [t EXCEPT !.evidence = e]
    BY <1>4 DEF Observed
  <2> HIDE DEF o
  <2>3. WellFormed(o) /\ SameTarget(o, t) /\ o.phase = "PENDING" /\ o.evidence = e
        /\ o.window = t.window
    <3> HIDE DEF e
    <3> QED BY <1>1, <1>2, <1>4, <2>1, <2>2 DEF WellFormed, Track, SameTarget
  <2> QED BY <1>4, <2>3 DEF o
<1>5. CASE t.phase = "PENDING" /\ ~evident
  <2>1. o = ClearManeuver(t)
    BY <1>5 DEF Observed, Confirms
  <2> QED BY <2>1, ClearFacts
<1>6. CASE t.phase = "IDLE" /\ evident
  <2>1. o = [t EXCEPT !.phase = "PENDING", !.evidence = 1, !.window = ConfirmWindow]
    BY <1>6 DEF Observed, Confirms
  <2> HIDE DEF o
  <2>2. WellFormed(o) /\ SameTarget(o, t) /\ o.phase = "PENDING" /\ o.evidence = 1
        /\ o.window = ConfirmWindow
    BY <1>1, <1>2, <1>6, <2>1 DEF WellFormed, Track, SameTarget
  <2> QED BY <1>6, <2>2 DEF o
<1>7. CASE t.phase = "ACTIVE" \/ (t.phase = "IDLE" /\ ~evident)
  <2>1. o = t
    BY <1>7 DEF Observed, Confirms
  <2> QED BY <1>7, <2>1 DEF SameTarget
<1>8. t.phase \in {"IDLE", "PENDING", "ACTIVE"}
  BY <1>1 DEF Track
<1> QED BY <1>3, <1>4, <1>5, <1>6, <1>7, <1>8

\* The manoeuvre of s is the one of t.
SameManeuver(s, t) ==
  /\ s.phase = t.phase /\ s.evidence = t.evidence
  /\ s.window = t.window /\ s.remaining = t.remaining

\* The state machine: lost, or the counts of a target that is still there.
LEMMA AdvancedFacts ==
  ASSUME NEW t, WellFormed(t), t.state # "LOST", NEW found \in BOOLEAN, NEW m
  PROVE  LET n == Advanced(t, found, m)
         IN /\ WellFormed(n) /\ n.generation = t.generation
            /\ n.state # "LOST" => SameManeuver(n, t) /\ n.filter = t.filter
            /\ n.state = "DETECTING" =>
                 /\ t.state = "DETECTING" /\ found
                 /\ \/ m.armors = {} /\ n.detects = t.detects
                    \/ m.armors # {} /\ n.detects = t.detects + 1 /\ n.detects < MinDetect
            /\ n.state = "TRACKING" =>
                 /\ found
                 /\ \/ t.state \in {"TRACKING", "TEMP_LOST"}
                    \/ t.state = "DETECTING" /\ m.armors # {} /\ t.detects + 1 >= MinDetect
            /\ n.state = "TEMP_LOST" =>
                 /\ ~found
                 /\ \/ t.state = "TRACKING" /\ n.lost = 1
                    \/ t.state = "TEMP_LOST" /\ n.lost = t.lost + 1 /\ n.lost <= MaxTempLost
<1>1. /\ t \in Track /\ t.detects \in Nat /\ t.lost \in Nat /\ MinDetect \in Nat
      /\ MaxTempLost \in Nat
  BY Ranges DEF WellFormed, Track
<1> DEFINE n == Advanced(t, found, m)
           d == t.detects + 1
           l == t.lost + 1
           s == IF d >= MinDetect THEN "TRACKING" ELSE "DETECTING"
<1>2. d \in Nat /\ l \in Nat
  BY <1>1
<1>3. CASE \/ t.state = "DETECTING" /\ ~found
           \/ t.state = "TEMP_LOST" /\ ~found /\ l > MaxTempLost
  <2>1. n = Reset(t)
    BY <1>3 DEF Advanced
  <2> QED BY <1>1, <2>1, ResetFacts
<1>4. CASE t.state = "DETECTING" /\ found /\ m.armors = {}
  <2>1. n = t
    BY <1>4 DEF Advanced
  <2> QED BY <1>4, <2>1 DEF SameManeuver
<1>5. CASE t.state = "DETECTING" /\ found /\ m.armors # {}
  <2>1. n = [t EXCEPT !.detects = d, !.state = s]
    BY <1>5 DEF Advanced
  <2>2. s \in {"TRACKING", "DETECTING"} /\ (s = "TRACKING" <=> d >= MinDetect)
    OBVIOUS
  <2>3. ~(d >= MinDetect) => d < MinDetect
    BY <1>1
  <2> HIDE DEF n, s, d
  <2>4. WellFormed(n) /\ SameManeuver(n, t) /\ n.filter = t.filter
        /\ n.generation = t.generation /\ n.state = s /\ n.detects = d
    BY <1>1, <1>2, <1>5, <2>1, <2>2 DEF WellFormed, Track, SameManeuver
  <2> QED BY <1>5, <2>2, <2>3, <2>4 DEF n, d
<1>6. CASE t.state \in {"TRACKING", "TEMP_LOST"} /\ found
  <2>1. n = [t EXCEPT !.state = "TRACKING", !.lost = 0]
    BY <1>6 DEF Advanced
  <2> HIDE DEF n
  <2>2. WellFormed(n) /\ SameManeuver(n, t) /\ n.filter = t.filter
        /\ n.generation = t.generation /\ n.state = "TRACKING"
    BY <1>1, <1>6, <2>1 DEF WellFormed, Track, SameManeuver
  <2> QED BY <1>6, <2>2 DEF n
<1>7. CASE t.state = "TRACKING" /\ ~found
  <2>1. n = [t EXCEPT !.state = "TEMP_LOST", !.lost = 1]
    BY <1>7 DEF Advanced
  <2> HIDE DEF n
  <2>2. WellFormed(n) /\ SameManeuver(n, t) /\ n.filter = t.filter
        /\ n.generation = t.generation /\ n.state = "TEMP_LOST" /\ n.lost = 1
    BY <1>1, <1>7, <2>1 DEF WellFormed, Track, SameManeuver
  <2> QED BY <1>7, <2>2 DEF n
<1>8. CASE t.state = "TEMP_LOST" /\ ~found /\ ~(l > MaxTempLost)
  <2>1. n = [t EXCEPT !.lost = l]
    BY <1>8 DEF Advanced
  <2>2. l <= MaxTempLost
    BY <1>1, <1>8
  <2> HIDE DEF n, l
  <2>3. WellFormed(n) /\ SameManeuver(n, t) /\ n.filter = t.filter
        /\ n.generation = t.generation /\ n.state = "TEMP_LOST" /\ n.lost = l
    BY <1>1, <1>2, <1>8, <2>1 DEF WellFormed, Track, SameManeuver
  <2> QED BY <1>8, <2>2, <2>3 DEF n, l
<1>9. t.state \in {"DETECTING", "TRACKING", "TEMP_LOST"}
  BY <1>1 DEF Track
<1> QED BY <1>3, <1>4, <1>5, <1>6, <1>7, <1>8, <1>9

-----------------------------------------------------------------------------
(* A frame. *)

\* Stamps are compared before anything else: an interruption loses the track, time
\* shortens the manoeuvre.
LEMMA EnteredFacts ==
  ASSUME IInv, NEW in \in Inputs
  PROVE  LET t == Entered(in)
         IN /\ Dt(in) \in Nat
            /\ WellFormed(t) /\ t.generation = track.generation
            /\ t.state # "LOST" => SameTarget(t, track)
            /\ t.phase = "PENDING" =>
                 /\ track.phase = "PENDING"
                 /\ t.evidence = track.evidence /\ t.window + Dt(in) = track.window
            /\ t.phase = "ACTIVE" =>
                 track.phase = "ACTIVE" /\ t.remaining + Dt(in) = track.remaining
<1> DEFINE b == IF Interrupted(in) THEN Reset(track) ELSE track
<1>1. IsInput(in)
  BY TrackerAssumption
<1>2. Dt(in) \in Nat
  BY <1>1 DEF Dt, IsInput
<1>3. track \in Track /\ WellFormed(track)
  BY DEF IInv, WellFormed
<1>4. /\ WellFormed(b) /\ b.generation = track.generation
      /\ b.state # "LOST" \/ b.phase # "IDLE" => b = track
  BY <1>3, ResetFacts
<1>5. Entered(in) = Aged(b, Dt(in))
  BY DEF Entered
<1> HIDE DEF b
<1>6. /\ WellFormed(Aged(b, Dt(in))) /\ SameTarget(Aged(b, Dt(in)), b)
      /\ Aged(b, Dt(in)).phase \in {b.phase, "IDLE"}
      /\ Aged(b, Dt(in)).phase = "PENDING" =>
           /\ Aged(b, Dt(in)).evidence = b.evidence
           /\ Aged(b, Dt(in)).window + Dt(in) = b.window
      /\ Aged(b, Dt(in)).phase = "ACTIVE" => Aged(b, Dt(in)).remaining + Dt(in) = b.remaining
  BY <1>2, <1>4, AgedFacts
<1> QED BY <1>2, <1>4, <1>5, <1>6 DEF SameTarget

\* The ages of the evidence: the frame's own comes last, the others grow older.
\* An index counted from the end of a sequence falls inside it.
LEMMA FromTheEnd ==
  ASSUME NEW l \in Nat, NEW k \in Nat, 1 <= k, k <= l
  PROVE  l - k + 1 \in 1 .. l
<1> QED OBVIOUS

LEMMA EvidenceFacts ==
  ASSUME NEW ages \in Seq(Nat), Len(ages) <= ConfirmFrames, NEW dt \in Nat
  PROVE  LET n == WithEvidence(ages, dt)
         IN /\ n \in Seq(Nat) /\ Len(n) <= ConfirmFrames /\ Len(n) >= 1
            /\ n[Len(n)] = 0
            /\ \A e \in 1 .. (ConfirmFrames - 1) :
                 e <= Len(ages) =>
                   /\ e + 1 <= Len(n)
                   /\ n[Len(n) - (e + 1) + 1] = ages[Len(ages) - e + 1] + dt
<1> DEFINE o == Older(ages, dt)
           a == Append(o, 0)
           n == WithEvidence(ages, dt)
<1>1. Len(ages) \in Nat /\ ConfirmFrames \in Nat \ {0, 1}
  BY Ranges
<1>2. /\ o \in Seq(Nat) /\ Len(o) = Len(ages)
      /\ \A i \in 1 .. Len(ages) : o[i] = ages[i] + dt
  BY DEF Older
<1> HIDE DEF o
<1>3. /\ a \in Seq(Nat) /\ Len(a) = Len(ages) + 1
      /\ \A i \in 1 .. Len(ages) : a[i] = ages[i] + dt
      /\ a[Len(ages) + 1] = 0
  BY <1>2
<1>4. n = IF Len(a) > ConfirmFrames THEN Tail(a) ELSE a
  BY DEF WithEvidence, o
<1> HIDE DEF a, n
<1>5. CASE Len(a) > ConfirmFrames
  <2>1. n = Tail(a)
    BY <1>4, <1>5
  <2>2. /\ n \in Seq(Nat) /\ Len(n) = Len(ages)
        /\ \A i \in 1 .. Len(ages) : n[i] = a[i + 1]
    BY <1>1, <1>3, <2>1
  <2>3. Len(ages) = ConfirmFrames
    BY <1>1, <1>3, <1>5
  <2> QED BY <1>1, <1>3, <2>2, <2>3 DEF n
<1>6. CASE ~(Len(a) > ConfirmFrames)
  <2>1. n = a
    BY <1>4, <1>6
  <2>2. ASSUME NEW e \in 1 .. (ConfirmFrames - 1), e <= Len(ages)
        PROVE  /\ e + 1 <= Len(n)
               /\ n[Len(n) - (e + 1) + 1] = ages[Len(ages) - e + 1] + dt
    <3>1. /\ Len(n) - (e + 1) + 1 = Len(ages) - e + 1 /\ e + 1 <= Len(n)
          /\ Len(ages) - e + 1 \in 1 .. Len(ages)
      BY <1>1, <1>3, <2>1, <2>2
    <3> QED BY <1>3, <2>1, <3>1
  <2> QED BY <1>1, <1>3, <1>6, <2>1, <2>2 DEF n
<1> QED BY <1>5, <1>6

\* What a frame without evidence and without a manoeuvre leaves.
LEMMA Plain ==
  ASSUME IInv, WellFormed(track)', track'.phase = "IDLE", hist'.evident = <<>>,
         hist'.active = 0
  PROVE  ManeuverInv'
  BY Ranges DEF ManeuverInv, WellFormed

\* A frame that is not followed: the track is lost, or none was there, or a new one
\* starts.
LEMMA LostPreserves ==
  ASSUME IInv, NEW in \in Inputs, NEW full \in {0, 1},
         WellFormed(track)', track'.state \in {"LOST", "DETECTING"},
         track'.generation \in {track.generation, track.generation + 1},
         track'.state = "DETECTING" =>
           /\ full = 1 /\ track'.detects = 1 /\ Entered(in).state = "LOST"
           /\ track'.generation = track.generation + 1
           /\ track'.filter = {track'.generation},
         hist' = Recorded(in, Entered(in), full, 0, <<>>),
         Stamped(in)
  PROVE  IInv'
<1>1. track'.phase = "IDLE"
  BY DEF WellFormed
<1>2. hist'.evident = <<>> /\ hist'.active = 0 /\ hist'.missed = 0
      /\ hist'.full = (IF track'.state = "LOST" THEN 0 ELSE full)
      /\ hist'.ended = (IF track.state # "LOST" /\ (Entered(in).state = "LOST" \/ track'.state = "LOST")
                        THEN track.generation ELSE hist.ended)
  BY <1>1 DEF Recorded
<1>3. StampInv'
  <2>1. IsInput(in)
    BY TrackerAssumption
  <2> QED BY <2>1 DEF Stamped, StampInv, IsInput
<1>4. DetectInv'
  BY <1>2, Ranges DEF DetectInv
<1>5. CoastInv'
  BY <1>2 DEF CoastInv
<1>6. GenerationInv'
  <2>1. track.generation \in Nat /\ hist.ended \in Nat /\ hist.ended <= track.generation
    BY DEF IInv, WellFormed, Track, GenerationInv
  <2> QED BY <1>2, <2>1 DEF GenerationInv
<1>7. ManeuverInv'
  BY <1>1, <1>2, Plain
<1> QED BY <1>3, <1>4, <1>5, <1>6, <1>7 DEF IInv

LEMMA RejectPreserves ==
  ASSUME IInv, NEW in \in Inputs, Reject(in) \/ Diverge(in)
  PROVE  IInv'
<1>1. track' = Reset(Entered(in)) /\ Stamped(in)
      /\ hist' = Recorded(in, Entered(in), 0, 0, <<>>)
  BY DEF Reject, Diverge
<1>2. WellFormed(Entered(in)) /\ Entered(in).generation = track.generation
  BY EnteredFacts
<1>3. /\ WellFormed(Reset(Entered(in)))
      /\ Reset(Entered(in)).state = "LOST"
      /\ Reset(Entered(in)).generation = track.generation
  BY <1>2, ResetFacts DEF WellFormed
<1>4. WellFormed(track)'
  BY <1>1, <1>3 DEF WellFormed
<1> QED BY <1>1, <1>3, <1>4, LostPreserves

LEMMA SearchPreserves ==
  ASSUME IInv, NEW in \in Inputs, Search(in)
  PROVE  IInv'
<1>1. track' = Entered(in) /\ Stamped(in) /\ Entered(in).state = "LOST"
      /\ hist' = Recorded(in, Entered(in), 0, 0, <<>>)
  BY DEF Search
<1>2. WellFormed(Entered(in)) /\ Entered(in).generation = track.generation
  BY EnteredFacts
<1>3. WellFormed(track)'
  BY <1>1, <1>2 DEF WellFormed
<1> QED BY <1>1, <1>2, <1>3, LostPreserves

LEMMA AcquirePreserves ==
  ASSUME IInv, NEW in \in Inputs, Acquire(in)
  PROVE  IInv'
<1>1. PICK l \in Preferred(in), valid \in BOOLEAN :
        track' = IF valid THEN Initialized(Entered(in), l) ELSE Reset(Entered(in))
  BY DEF Acquire
<1>2. /\ Stamped(in) /\ Entered(in).state = "LOST"
      /\ hist' = Recorded(in, Entered(in), 1, 0, <<>>)
  BY DEF Acquire
<1>3. l \in Labels
  <2>1. IsInput(in)
    BY TrackerAssumption
  <2>2. PICK i \in DOMAIN in.armors : l = in.armors[i].label
    BY DEF Preferred, Solved
  <2> QED BY <2>1, <2>2 DEF IsInput, IsArmor
<1>4. WellFormed(Entered(in)) /\ Entered(in).generation = track.generation
  BY EnteredFacts
<1>5. CASE valid
  <2>1. track' = Initialized(Entered(in), l)
    BY <1>1, <1>5
  <2>2. /\ WellFormed(Initialized(Entered(in), l))
        /\ Initialized(Entered(in), l).state = "DETECTING"
        /\ Initialized(Entered(in), l).detects = 1
        /\ Initialized(Entered(in), l).generation = track.generation + 1
        /\ Initialized(Entered(in), l).filter = {track.generation + 1}
    BY <1>3, <1>4, InitializedFacts
  <2>3. WellFormed(track)'
    BY <2>1, <2>2 DEF WellFormed
  <2> QED BY <1>2, <2>1, <2>2, <2>3, LostPreserves
<1>6. CASE ~valid
  <2>1. track' = Reset(Entered(in))
    BY <1>1, <1>6
  <2>2. /\ WellFormed(Reset(Entered(in)))
        /\ Reset(Entered(in)).state = "LOST"
        /\ Reset(Entered(in)).generation = track.generation
    BY <1>4, ResetFacts DEF WellFormed
  <2>3. WellFormed(track)'
    BY <2>1, <2>2 DEF WellFormed
  <2> QED BY <1>2, <2>1, <2>2, <2>3, LostPreserves
<1> QED BY <1>5, <1>6

-----------------------------------------------------------------------------
(* A frame on a track. *)

\* What one frame decides on, whatever it matched: whether it shows evidence of a
\* manoeuvre, and whether an update was accepted.
Follows(in, evident, found, m) ==
  LET t == Entered(in)
      o == Observed(t, evident)
  IN /\ evident => t.state \notin {"LOST", "DETECTING"}
     /\ track' \in {Reset(o), Advanced(o, found, m)}
     /\ hist' = Recorded(in, t,
          IF found /\ m.armors # {} THEN Capped(hist.full + 1, MinDetect) ELSE hist.full,
          IF found THEN 0 ELSE Capped(hist.missed + 1, MaxTempLost + 2),
          IF evident THEN WithEvidence(hist.evident, Dt(in)) ELSE <<>>)

LEMMA FollowShape ==
  ASSUME NEW in \in Inputs, Follow(in)
  PROVE  /\ Stamped(in) /\ Entered(in).state # "LOST"
         /\ \E m : \E evident, found \in BOOLEAN : Follows(in, evident, found, m)
<1> DEFINE t == Entered(in)
<1> DEFINE Does(m, v) ==
        LET evident == HasEvidence(t, in, m, v)
            combined == Combined(Confirms(t, evident), v)
            found == Accepted(m, combined, v)
            observed == Observed(t, evident)
        IN /\ track' = IF Breaks(m, combined, v) THEN Reset(observed)
                       ELSE Advanced(observed, found, m)
           /\ hist' = Recorded(in, t,
                IF found /\ m.armors # {} THEN Capped(hist.full + 1, MinDetect) ELSE hist.full,
                IF found THEN 0 ELSE Capped(hist.missed + 1, MaxTempLost + 2),
                IF evident THEN WithEvidence(hist.evident, Dt(in)) ELSE <<>>)
<1>0. PICK m \in {Measured(in, armors) : armors \in Matches(t, in)} :
        \E v \in Verdicts(m) : Does(m, v)
  BY DEF Follow
<1>1. PICK v \in Verdicts(m) : Does(m, v)
  BY <1>0
<1>2. Stamped(in) /\ t.state # "LOST"
  BY DEF Follow
<1> DEFINE evident == HasEvidence(t, in, m, v)
           combined == Combined(Confirms(t, evident), v)
           found == Accepted(m, combined, v)
           broken == Breaks(m, combined, v)
<1>3. /\ track' = IF broken THEN Reset(Observed(t, evident))
                  ELSE Advanced(Observed(t, evident), found, m)
      /\ hist' = Recorded(in, t,
           IF found /\ m.armors # {} THEN Capped(hist.full + 1, MinDetect) ELSE hist.full,
           IF found THEN 0 ELSE Capped(hist.missed + 1, MaxTempLost + 2),
           IF evident THEN WithEvidence(hist.evident, Dt(in)) ELSE <<>>)
  BY <1>1
<1>4. evident \in BOOLEAN /\ found \in BOOLEAN /\ (evident => t.state # "DETECTING")
  BY DEF HasEvidence, Accepted
<1> HIDE DEF evident, found, broken
<1>5. Follows(in, evident, found, m)
  BY <1>2, <1>3, <1>4 DEF Follows
<1> QED BY <1>2, <1>4, <1>5

\* The track after a frame that did not lose it.
LEMMA FollowedTrack ==
  ASSUME IInv, NEW in \in Inputs, Entered(in).state # "LOST",
         NEW evident \in BOOLEAN, NEW found \in BOOLEAN, NEW m,
         Follows(in, evident, found, m)
  PROVE  /\ WellFormed(track)' /\ track'.generation = track.generation
         /\ track'.state # "LOST" =>
              /\ track'.filter = track.filter /\ track.state # "LOST"
              /\ track'.state = "DETECTING" =>
                   /\ track.state = "DETECTING" /\ found
                   /\ \/ m.armors = {} /\ track'.detects = track.detects
                      \/ /\ m.armors # {}
                         /\ track'.detects = track.detects + 1 /\ track'.detects < MinDetect
              /\ track'.state = "TRACKING" =>
                   /\ found
                   /\ \/ track.state \in {"TRACKING", "TEMP_LOST"}
                      \/ /\ track.state = "DETECTING" /\ m.armors # {}
                         /\ track.detects + 1 >= MinDetect
              /\ track'.state = "TEMP_LOST" =>
                   /\ ~found
                   /\ \/ track.state = "TRACKING" /\ track'.lost = 1
                      \/ /\ track.state = "TEMP_LOST"
                         /\ track'.lost = track.lost + 1 /\ track'.lost <= MaxTempLost
         /\ track'.phase = "PENDING" =>
              /\ evident
              /\ \/ track'.evidence = 1 /\ track'.window = ConfirmWindow
                 \/ /\ track.phase = "PENDING"
                    /\ track'.evidence = track.evidence + 1
                    /\ track'.window + Dt(in) = track.window
         /\ track'.phase = "ACTIVE" =>
              \/ /\ Entered(in).phase = "ACTIVE" /\ track.phase = "ACTIVE"
                 /\ track'.remaining + Dt(in) = track.remaining
              \/ /\ Entered(in).phase = "PENDING" /\ track.phase = "PENDING" /\ evident
                 /\ track.evidence = ConfirmFrames - 1 /\ track'.remaining = Hold
                 /\ Entered(in).window > 0 /\ Entered(in).window + Dt(in) = track.window
<1> DEFINE t == Entered(in)
           o == Observed(t, evident)
<1>1. /\ WellFormed(t) /\ t.generation = track.generation
      /\ SameTarget(t, track)
      /\ t.phase = "PENDING" =>
           /\ track.phase = "PENDING"
           /\ t.evidence = track.evidence /\ t.window + Dt(in) = track.window
      /\ t.phase = "ACTIVE" =>
           track.phase = "ACTIVE" /\ t.remaining + Dt(in) = track.remaining
  BY EnteredFacts
<1>2. evident => t.state \notin {"LOST", "DETECTING"}
  BY DEF Follows
<1>3. track' \in {Reset(o), Advanced(o, found, m)}
  BY DEF Follows
<1> HIDE DEF t
<1>4. /\ WellFormed(o) /\ SameTarget(o, t)
      /\ o.phase = "PENDING" =>
           /\ evident
           /\ \/ t.phase = "IDLE" /\ o.evidence = 1 /\ o.window = ConfirmWindow
              \/ t.phase = "PENDING" /\ o.evidence = t.evidence + 1 /\ o.window = t.window
      /\ o.phase = "ACTIVE" =>
           \/ t.phase = "ACTIVE" /\ o.remaining = t.remaining
           \/ /\ t.phase = "PENDING" /\ evident /\ t.evidence = ConfirmFrames - 1
              /\ o.remaining = Hold
  BY <1>1, <1>2, ObservedFacts
<1> HIDE DEF o
<1>5. SameTarget(o, track) /\ o.state # "LOST"
  BY <1>1, <1>4 DEF SameTarget, t
<1>6. CASE track' = Reset(o)
  <2>1. o \in Track
    BY <1>4 DEF WellFormed
  <2>2. WellFormed(Reset(o)) /\ Reset(o).state = "LOST" /\ Reset(o).phase = "IDLE"
        /\ Reset(o).generation = o.generation
    BY <2>1, ResetFacts
  <2>3. WellFormed(track)'
    BY <1>6, <2>2 DEF WellFormed
  <2> QED BY <1>5, <1>6, <2>2, <2>3 DEF SameTarget
<1>7. CASE track' = Advanced(o, found, m)
  <2> DEFINE n == Advanced(o, found, m)
  <2>1. /\ WellFormed(n) /\ n.generation = o.generation
        /\ n.state # "LOST" => SameManeuver(n, o) /\ n.filter = o.filter
        /\ n.state = "DETECTING" =>
             /\ o.state = "DETECTING" /\ found
             /\ \/ m.armors = {} /\ n.detects = o.detects
                \/ m.armors # {} /\ n.detects = o.detects + 1 /\ n.detects < MinDetect
        /\ n.state = "TRACKING" =>
             /\ found
             /\ \/ o.state \in {"TRACKING", "TEMP_LOST"}
                \/ o.state = "DETECTING" /\ m.armors # {} /\ o.detects + 1 >= MinDetect
        /\ n.state = "TEMP_LOST" =>
             /\ ~found
             /\ \/ o.state = "TRACKING" /\ n.lost = 1
                \/ o.state = "TEMP_LOST" /\ n.lost = o.lost + 1 /\ n.lost <= MaxTempLost
    BY <1>4, <1>5, AdvancedFacts
  <2>2. track' = n
    BY <1>7
  <2> HIDE DEF n
  <2>3. WellFormed(track)'
    BY <2>1, <2>2 DEF WellFormed
  <2>4. n.phase # "IDLE" => n.state # "LOST"
    BY <2>1 DEF WellFormed
  <2>5. t.phase = "PENDING" => t.window > 0
    BY <1>1 DEF WellFormed
  <2>6. /\ n.state # "LOST" => n.filter = track.filter /\ track.state # "LOST"
        /\ n.generation = track.generation
    BY <1>5, <2>1 DEF SameTarget
  <2>7. /\ n.state = "DETECTING" =>
             /\ track.state = "DETECTING" /\ found
             /\ \/ m.armors = {} /\ n.detects = track.detects
                \/ m.armors # {} /\ n.detects = track.detects + 1 /\ n.detects < MinDetect
        /\ n.state = "TRACKING" =>
             /\ found
             /\ \/ track.state \in {"TRACKING", "TEMP_LOST"}
                \/ track.state = "DETECTING" /\ m.armors # {} /\ track.detects + 1 >= MinDetect
        /\ n.state = "TEMP_LOST" =>
             /\ ~found
             /\ \/ track.state = "TRACKING" /\ n.lost = 1
                \/ track.state = "TEMP_LOST" /\ n.lost = track.lost + 1 /\ n.lost <= MaxTempLost
    BY <1>5, <2>1 DEF SameTarget
  <2>8. n.phase = "PENDING" =>
          /\ evident
          /\ \/ n.evidence = 1 /\ n.window = ConfirmWindow
             \/ /\ track.phase = "PENDING" /\ n.evidence = track.evidence + 1
                /\ n.window + Dt(in) = track.window
    BY <1>1, <1>4, <2>1, <2>4 DEF SameManeuver
  <2>9. n.phase = "ACTIVE" =>
          \/ /\ t.phase = "ACTIVE" /\ track.phase = "ACTIVE"
             /\ n.remaining + Dt(in) = track.remaining
          \/ /\ t.phase = "PENDING" /\ track.phase = "PENDING" /\ evident
             /\ track.evidence = ConfirmFrames - 1 /\ n.remaining = Hold
             /\ t.window > 0 /\ t.window + Dt(in) = track.window
    BY <1>1, <1>4, <2>1, <2>4, <2>5 DEF SameManeuver
  <2> QED BY <2>2, <2>3, <2>6, <2>7, <2>8, <2>9 DEF t
<1> QED BY <1>3, <1>6, <1>7

LEMMA FollowPreserves ==
  ASSUME IInv, NEW in \in Inputs, Follow(in)
  PROVE  IInv'
<1>1. Stamped(in) /\ Entered(in).state # "LOST"
  BY FollowShape
<1>2. PICK m : \E evident, found \in BOOLEAN : Follows(in, evident, found, m)
  BY FollowShape
<1>3. PICK evident \in BOOLEAN, found \in BOOLEAN : Follows(in, evident, found, m)
  BY <1>2
<1> DEFINE full == IF found /\ m.armors # {} THEN Capped(hist.full + 1, MinDetect) ELSE hist.full
           missed == IF found THEN 0 ELSE Capped(hist.missed + 1, MaxTempLost + 2)
           ages == IF evident THEN WithEvidence(hist.evident, Dt(in)) ELSE <<>>
<1>4. hist' = Recorded(in, Entered(in), full, missed, ages)
  BY <1>3 DEF Follows
<1>5. WellFormed(track)' /\ track'.generation = track.generation
  BY <1>1, <1>3, FollowedTrack
<1>6. CASE track'.state = "LOST"
  <2>1. hist' = Recorded(in, Entered(in), 0, 0, <<>>)
    BY <1>4, <1>6 DEF Recorded
  <2> QED BY <1>1, <1>5, <1>6, <2>1, LostPreserves
<1>7. CASE track'.state # "LOST"
  <2>1. /\ hist'.full = full /\ hist'.missed = missed /\ hist'.evident = ages
        /\ hist'.active = (IF track'.phase # "ACTIVE" \/ Entered(in).phase # "ACTIVE" THEN 0
                           ELSE Capped(hist.active + Dt(in), Hold))
        /\ hist'.ended = hist.ended
    BY <1>1, <1>4, <1>7 DEF Recorded
  <2>2. /\ track.state # "LOST" /\ track'.filter = track.filter
        /\ track'.state = "DETECTING" =>
             /\ track.state = "DETECTING" /\ found
             /\ \/ m.armors = {} /\ track'.detects = track.detects
                \/ /\ m.armors # {}
                   /\ track'.detects = track.detects + 1 /\ track'.detects < MinDetect
        /\ track'.state = "TRACKING" =>
             /\ found
             /\ \/ track.state \in {"TRACKING", "TEMP_LOST"}
                \/ /\ track.state = "DETECTING" /\ m.armors # {}
                   /\ track.detects + 1 >= MinDetect
        /\ track'.state = "TEMP_LOST" =>
             /\ ~found
             /\ \/ track.state = "TRACKING" /\ track'.lost = 1
                \/ /\ track.state = "TEMP_LOST"
                   /\ track'.lost = track.lost + 1 /\ track'.lost <= MaxTempLost
    BY <1>1, <1>3, <1>7, FollowedTrack
  <2>3. /\ track'.phase = "PENDING" =>
             /\ evident
             /\ \/ track'.evidence = 1 /\ track'.window = ConfirmWindow
                \/ /\ track.phase = "PENDING"
                   /\ track'.evidence = track.evidence + 1
                   /\ track'.window + Dt(in) = track.window
        /\ track'.phase = "ACTIVE" =>
             \/ /\ Entered(in).phase = "ACTIVE" /\ track.phase = "ACTIVE"
                /\ track'.remaining + Dt(in) = track.remaining
             \/ /\ Entered(in).phase = "PENDING" /\ track.phase = "PENDING" /\ evident
                /\ track.evidence = ConfirmFrames - 1 /\ track'.remaining = Hold
    BY <1>1, <1>3, FollowedTrack
  <2>4. /\ Dt(in) \in Nat
        /\ track.detects \in Nat /\ track.lost \in Nat /\ track.generation \in Nat
        /\ track.window \in Nat /\ track.remaining \in Nat
        /\ track.state \in {"LOST", "DETECTING", "TRACKING", "TEMP_LOST"}
        /\ track.phase = "PENDING" => track.evidence \in 1 .. (ConfirmFrames - 1)
        /\ track'.state \in {"LOST", "DETECTING", "TRACKING", "TEMP_LOST"}
        /\ track'.window \in Nat /\ track'.remaining \in Nat
    BY <1>5, EnteredFacts, Ranges DEF IInv, WellFormed, Track
  <2>5. StampInv'
    <3>1. IsInput(in)
      BY TrackerAssumption
    <3> QED BY <1>1, <3>1 DEF Stamped, StampInv, IsInput
  <2>6. DetectInv'
    <3>1. hist.full \in 0 .. MinDetect /\ MinDetect \in Nat
      BY Ranges DEF IInv, DetectInv
    <3>2. full \in 0 .. MinDetect /\ hist.full <= full
          /\ (found /\ m.armors # {} => full = MinDetect \/ full = hist.full + 1)
      BY <3>1 DEF Capped
    <3>3. /\ track.state = "DETECTING" => track.detects <= hist.full
          /\ track.state \in {"TRACKING", "TEMP_LOST"} => hist.full = MinDetect
      BY DEF IInv, DetectInv
    <3> HIDE DEF full
    <3>4. track'.state = "DETECTING" => track'.detects <= full
      BY <2>2, <2>4, <3>1, <3>2, <3>3
    <3>5. track'.state \in {"TRACKING", "TEMP_LOST"} => full = MinDetect
      BY <2>2, <2>4, <3>1, <3>2, <3>3
    <3> QED BY <2>1, <3>2, <3>4, <3>5 DEF DetectInv
  <2>7. CoastInv'
    <3>1. MaxTempLost \in Nat
      BY Ranges
    <3>2. /\ hist.missed = IF track.state = "TEMP_LOST" THEN track.lost ELSE 0
          /\ track.state = "TEMP_LOST" => track.lost = 1 \/ track.lost <= MaxTempLost
      BY DEF IInv, CoastInv
    <3>3. found => missed = 0
      OBVIOUS
    <3>4. ~found /\ hist.missed + 1 <= MaxTempLost + 1 => missed = hist.missed + 1
      BY <2>4, <3>1, <3>2 DEF Capped
    <3> HIDE DEF missed
    <3>5. CASE track'.state = "TEMP_LOST"
      <4>1. missed = track'.lost
        BY <2>2, <2>4, <3>1, <3>2, <3>4, <3>5
      <4> QED BY <2>1, <2>2, <3>5, <4>1 DEF CoastInv
    <3>6. CASE track'.state # "TEMP_LOST"
      BY <1>7, <2>1, <2>2, <2>4, <3>3, <3>6 DEF CoastInv
    <3> QED BY <3>5, <3>6
  <2>8. GenerationInv'
    BY <1>5, <2>1, <2>2 DEF IInv, GenerationInv
  <2>9. ManeuverInv'
    <3>1. /\ hist.evident \in Seq(Nat) /\ Len(hist.evident) <= ConfirmFrames
          /\ track.phase = "PENDING" =>
               /\ track.evidence <= Len(hist.evident)
               /\ hist.evident[Len(hist.evident) - track.evidence + 1] + track.window
                    <= ConfirmWindow
          /\ hist.active \in Nat
          /\ track.phase = "ACTIVE" => hist.active + track.remaining <= Hold
      BY DEF IInv, ManeuverInv
    <3> DEFINE n == WithEvidence(hist.evident, Dt(in))
    <3>2. /\ n \in Seq(Nat) /\ Len(n) <= ConfirmFrames /\ Len(n) >= 1
          /\ n[Len(n)] = 0
          /\ \A e \in 1 .. (ConfirmFrames - 1) :
               e <= Len(hist.evident) =>
                 /\ e + 1 <= Len(n)
                 /\ n[Len(n) - (e + 1) + 1]
                      = hist.evident[Len(hist.evident) - e + 1] + Dt(in)
      BY <2>4, <3>1, EvidenceFacts
    <3>3. ages = IF evident THEN n ELSE <<>>
      OBVIOUS
    <3> HIDE DEF n, ages
    <3>4. ages \in Seq(Nat) /\ Len(ages) <= ConfirmFrames
      BY <3>2, <3>3, Ranges
    <3>5. ASSUME track'.phase = "PENDING"
          PROVE  /\ track'.evidence <= Len(ages)
                 /\ ages[Len(ages) - track'.evidence + 1] + track'.window <= ConfirmWindow
      <4>1. ages = n
        BY <2>3, <3>3, <3>5
      <4>2. CASE track'.evidence = 1 /\ track'.window = ConfirmWindow
        <5>1. Len(n) - 1 + 1 = Len(n) /\ 1 <= Len(n)
          BY <3>2
        <5> QED BY <3>2, <4>1, <4>2, <5>1, Ranges
      <4>3. CASE /\ track.phase = "PENDING"
                 /\ track'.evidence = track.evidence + 1
                 /\ track'.window + Dt(in) = track.window
        <5>1. /\ track.evidence + 1 <= Len(n)
              /\ n[Len(n) - (track.evidence + 1) + 1]
                   = hist.evident[Len(hist.evident) - track.evidence + 1] + Dt(in)
          BY <2>4, <3>1, <3>2, <4>3
        <5>2. hist.evident[Len(hist.evident) - track.evidence + 1] \in Nat
          <6>1. /\ track.evidence \in Nat /\ 1 <= track.evidence
                /\ Len(hist.evident) \in Nat /\ track.evidence <= Len(hist.evident)
            <7>1. track.evidence \in 1 .. (ConfirmFrames - 1)
              BY <2>4, <4>3
            <7>2. track.evidence \in Nat /\ 1 <= track.evidence
              BY <7>1, Ranges
            <7>3. Len(hist.evident) \in Nat
              BY <3>1
            <7> QED BY <3>1, <4>3, <7>2, <7>3
          <6>2. Len(hist.evident) - track.evidence + 1 \in 1 .. Len(hist.evident)
            BY <6>1, FromTheEnd
          <6> QED BY <3>1, <6>2
        <5>3. ConfirmWindow \in Nat
          BY Ranges
        <5>4. /\ hist.evident[Len(hist.evident) - track.evidence + 1] + track.window
                   <= ConfirmWindow
              /\ Dt(in) \in Nat /\ track.window \in Nat /\ track'.window \in Nat
          BY <2>4, <3>1, <4>3
        <5>5. n[Len(n) - track'.evidence + 1] + track'.window <= ConfirmWindow
          BY <4>3, <5>1, <5>2, <5>3, <5>4
        <5> QED BY <4>1, <4>3, <5>1, <5>5
      <4> QED BY <2>3, <3>5, <4>2, <4>3
    <3>6. hist'.active \in Nat /\ hist'.active <= hist.active + Dt(in)
      BY <2>1, <2>4, <3>1, Ranges DEF Capped
    <3>7. ASSUME track'.phase = "ACTIVE"
          PROVE  hist'.active + track'.remaining <= Hold
      <4>1. CASE Entered(in).phase = "ACTIVE" /\ track.phase = "ACTIVE"
                 /\ track'.remaining + Dt(in) = track.remaining
        BY <2>4, <3>1, <3>6, <4>1, Ranges
      <4>2. CASE Entered(in).phase = "PENDING" /\ track'.remaining = Hold
        <5>1. hist'.active = 0
          BY <2>1, <4>2
        <5> QED BY <4>2, <5>1, Ranges
      <4> QED BY <2>3, <3>7, <4>1, <4>2
    <3> QED BY <2>1, <3>4, <3>5, <3>6, <3>7 DEF ManeuverInv
  <2> QED BY <1>5, <2>5, <2>6, <2>7, <2>8, <2>9 DEF IInv
<1> QED BY <1>6, <1>7

LEMMA InitIInv == Init => IInv
<1> SUFFICES ASSUME Init PROVE IInv
  OBVIOUS
<1>1. FreshTrack \in Track
  BY Ranges DEF FreshTrack, Track
<1>2. WellFormed(track)
  BY <1>1 DEF Init, FreshTrack, WellFormed
<1>3. /\ hist.full = 0 /\ hist.missed = 0 /\ hist.evident = <<>> /\ hist.active = 0
      /\ hist.ended = 0
      /\ track.state = "LOST" /\ track.phase = "IDLE" /\ track.generation = 0
  BY DEF Init, FreshHistory, FreshTrack
<1>4. StampInv
  BY DEF Init, StampInv
<1>5. DetectInv /\ CoastInv /\ GenerationInv
  BY <1>3, Ranges DEF DetectInv, CoastInv, GenerationInv
<1>6. ManeuverInv
  BY <1>3, Ranges DEF ManeuverInv
<1> QED BY <1>2, <1>4, <1>5, <1>6 DEF IInv

LEMMA NextIInv == IInv /\ [Next]_vars => IInv'
<1> SUFFICES ASSUME IInv, [Next]_vars PROVE IInv'
  OBVIOUS
<1>1. CASE \E in \in Inputs : Reject(in) \/ Diverge(in)
  BY <1>1, RejectPreserves
<1>2. CASE \E in \in Inputs : Search(in)
  BY <1>2, SearchPreserves
<1>3. CASE \E in \in Inputs : Acquire(in)
  BY <1>3, AcquirePreserves
<1>4. CASE \E in \in Inputs : Follow(in)
  BY <1>4, FollowPreserves
<1>5. CASE UNCHANGED vars
  BY <1>5 DEF vars, IInv, WellFormed, StampInv, DetectInv, CoastInv, GenerationInv, ManeuverInv
<1> QED BY <1>1, <1>2, <1>3, <1>4, <1>5 DEF Next, ProcessFrame

-----------------------------------------------------------------------------
(* The theorems. *)

\* The invariant holds in every reachable state.
THEOREM Soundness == Spec => []IInv
  BY InitIInv, NextIInv, PTL DEF Spec

\* Whatever frames arrive, the tracker's state stays well formed.
THEOREM TypeCorrect == Spec => []TypeOK
<1>1. IInv => TypeOK
  BY DEF IInv, WellFormed, StampInv, TypeOK
<1> QED BY <1>1, Soundness, PTL

\* No track is confirmed by fewer than MinDetect accepted whole armours, whatever
\* light bars kept it alive.
THEOREM TracksAreConfirmedByArmor == Spec => []ConfirmedByArmor
<1>1. IInv => ConfirmedByArmor
  BY Ranges DEF IInv, DetectInv, ConfirmedByArmor
<1> QED BY <1>1, Soundness, PTL

\* The larger of two numbers is at least both.
LEMMA LargerOfTwo ==
  ASSUME NEW a \in Int, NEW b \in Int
  PROVE  Max({a, b}) \in {a, b} /\ a <= Max({a, b}) /\ b <= Max({a, b})
<1>1. \E x \in {a, b} : \A y \in {a, b} : x >= y
  <2>1. CASE a >= b
    BY <2>1
  <2>2. CASE ~(a >= b)
    BY <2>2
  <2> QED BY <2>1, <2>2
<1>2. Max({a, b}) \in {a, b} /\ \A y \in {a, b} : Max({a, b}) >= y
  BY <1>1 DEF Max
<1> QED BY <1>2

\* A target that stays away is given up after MaxTempLost frames, or one.
THEOREM CoastingEnds == Spec => []CoastIsBounded
<1>1. IInv => CoastIsBounded
  <2> SUFFICES ASSUME IInv PROVE hist.missed <= Max({MaxTempLost, 1})
    BY DEF CoastIsBounded
  <2>1. /\ hist.missed = IF track.state = "TEMP_LOST" THEN track.lost ELSE 0
        /\ track.state = "TEMP_LOST" => track.lost = 1 \/ track.lost <= MaxTempLost
        /\ track.lost \in Nat
    BY DEF IInv, CoastInv, WellFormed, Track
  <2>2. /\ MaxTempLost \in Nat /\ Max({MaxTempLost, 1}) \in Int
        /\ MaxTempLost <= Max({MaxTempLost, 1}) /\ 1 <= Max({MaxTempLost, 1})
    BY Ranges, LargerOfTwo
  <2> QED BY <2>1, <2>2
<1> QED BY <1>1, Soundness, PTL

\* The generation a track is published under was never a lost track's, and the
\* estimate published with it is its own.
THEOREM GenerationsAreUnique == Spec => []GenerationNamesOneTrack
<1>1. IInv => GenerationNamesOneTrack
  <2> SUFFICES ASSUME IInv, track.state # "LOST"
               PROVE  track.generation > hist.ended /\ track.filter = {track.generation}
    BY DEF GenerationNamesOneTrack
  <2> QED BY DEF IInv, GenerationInv, WellFormed, Track
<1> QED BY <1>1, Soundness, PTL

\* A manoeuvre is assumed only after ConfirmFrames frames of evidence in a row
\* within the window, and ends Hold later or with its track.
THEOREM ManeuversRestOnEvidence == Spec => ManeuversAreOnEvidence
<1>1. IInv => ManeuversEnd
  <2> SUFFICES ASSUME IInv, track.phase = "ACTIVE"
               PROVE  hist.active < Hold /\ track.state \in {"TRACKING", "TEMP_LOST"}
    BY DEF ManeuversEnd
  <2>1. track.remaining \in Nat /\ track.remaining > 0 /\ hist.active \in Nat
        /\ hist.active + track.remaining <= Hold
    BY Ranges DEF IInv, WellFormed, Track, ManeuverInv
  <2>2. track.state \in {"TRACKING", "TEMP_LOST"}
    BY DEF IInv, WellFormed, Track
  <2> QED BY <2>1, <2>2, Ranges
<1>2. IInv /\ [Next]_vars =>
        [track'.phase = "ACTIVE" /\ track.phase # "ACTIVE" =>
           /\ Len(hist'.evident) = ConfirmFrames
           /\ hist'.evident[1] < ConfirmWindow]_vars
  <2> SUFFICES ASSUME IInv, Next, track'.phase = "ACTIVE", track.phase # "ACTIVE"
               PROVE  Len(hist'.evident) = ConfirmFrames /\ hist'.evident[1] < ConfirmWindow
    OBVIOUS
  <2>1. PICK in \in Inputs : ProcessFrame(in)
    BY DEF Next
  <2>2. Follow(in)
    <3>1. WellFormed(Entered(in))
      BY EnteredFacts
    <3>2. Entered(in).phase = "ACTIVE" => track.phase = "ACTIVE"
      BY EnteredFacts
    <3>3. Reset(Entered(in)).phase = "IDLE"
      BY <3>1, ResetFacts DEF WellFormed
    <3>4. ~(Reject(in) \/ Diverge(in))
      BY <3>3 DEF Reject, Diverge
    <3>5. ~Search(in)
      BY <3>2 DEF Search
    <3>6. ~Acquire(in)
      <4> SUFFICES ASSUME Acquire(in) PROVE FALSE
        OBVIOUS
      <4>1. IInv'
        BY AcquirePreserves
      <4>2. PICK l \in Preferred(in), valid \in BOOLEAN :
              track' = IF valid THEN Initialized(Entered(in), l) ELSE Reset(Entered(in))
        BY DEF Acquire
      <4>3. l \in Labels
        <5>1. IsInput(in)
          BY TrackerAssumption
        <5>2. PICK i \in DOMAIN in.armors : l = in.armors[i].label
          BY DEF Preferred, Solved
        <5> QED BY <5>1, <5>2 DEF IsInput, IsArmor
      <4>4. Initialized(Entered(in), l).phase = "IDLE"
        BY <3>1, <4>3, InitializedFacts
      <4> QED BY <3>3, <4>2, <4>4
    <3> QED BY <2>1, <3>4, <3>5, <3>6 DEF ProcessFrame
  <2>3. PICK m : \E evident, found \in BOOLEAN : Follows(in, evident, found, m)
    BY <2>2, FollowShape
  <2>4. PICK evident \in BOOLEAN, found \in BOOLEAN : Follows(in, evident, found, m)
    BY <2>3
  <2>5. /\ WellFormed(track)'
        /\ Entered(in).phase = "PENDING" /\ track.phase = "PENDING" /\ evident
        /\ track.evidence = ConfirmFrames - 1
        /\ Entered(in).window > 0 /\ Entered(in).window + Dt(in) = track.window
    BY <2>2, <2>4, FollowShape, FollowedTrack
  <2>6. track'.state # "LOST"
    BY <2>5 DEF WellFormed
  <2> DEFINE n == WithEvidence(hist.evident, Dt(in))
  <2>7. hist'.evident = n
    BY <2>4, <2>5, <2>6 DEF Follows, Recorded
  <2>8. /\ Dt(in) \in Nat /\ Entered(in).window \in Nat /\ track.window \in Nat
        /\ hist.evident \in Seq(Nat) /\ Len(hist.evident) <= ConfirmFrames
        /\ track.evidence <= Len(hist.evident)
        /\ hist.evident[Len(hist.evident) - track.evidence + 1] + track.window <= ConfirmWindow
    <3>1. Dt(in) \in Nat /\ WellFormed(Entered(in))
      BY EnteredFacts
    <3>2. Entered(in).window \in Nat
      BY <3>1, Ranges DEF WellFormed, Track
    <3>3. track.window \in Nat
      BY Ranges DEF IInv, WellFormed, Track
    <3> QED BY <2>5, <3>1, <3>2, <3>3 DEF IInv, ManeuverInv
  <2>9. /\ Len(n) \in Nat /\ Len(n) <= ConfirmFrames
        /\ track.evidence + 1 <= Len(n)
        /\ n[Len(n) - (track.evidence + 1) + 1]
             = hist.evident[Len(hist.evident) - track.evidence + 1] + Dt(in)
    <3>1. track.evidence \in 1 .. (ConfirmFrames - 1)
      BY <2>5, Ranges
    <3> HIDE DEF n
    <3>2. /\ n \in Seq(Nat) /\ Len(n) <= ConfirmFrames
          /\ \A e \in 1 .. (ConfirmFrames - 1) :
               e <= Len(hist.evident) =>
                 /\ e + 1 <= Len(n)
                 /\ n[Len(n) - (e + 1) + 1]
                      = hist.evident[Len(hist.evident) - e + 1] + Dt(in)
      BY <2>8, EvidenceFacts DEF n
    <3>3. Len(n) \in Nat
      BY <3>2
    <3> QED BY <2>8, <3>1, <3>2, <3>3
  <2> HIDE DEF n
  <2>10. Len(n) = ConfirmFrames /\ Len(n) - (track.evidence + 1) + 1 = 1
    BY <2>5, <2>9, Ranges
  <2>11. hist.evident[Len(hist.evident) - track.evidence + 1] \in Nat
    <3>1. /\ track.evidence \in Nat /\ 1 <= track.evidence
          /\ Len(hist.evident) \in Nat /\ track.evidence <= Len(hist.evident)
      BY <2>5, <2>8, Ranges
    <3>2. Len(hist.evident) - track.evidence + 1 \in 1 .. Len(hist.evident)
      BY <3>1, FromTheEnd
    <3> QED BY <2>8, <3>2
  <2>12. n[1] < ConfirmWindow
    <3>1. n[1] = hist.evident[Len(hist.evident) - track.evidence + 1] + Dt(in)
      BY <2>9, <2>10
    <3>2. Dt(in) < track.window
      BY <2>5, <2>8
    <3> HIDE DEF n
    <3> QED BY <2>8, <2>11, <3>1, <3>2, Ranges
  <2> QED BY <2>7, <2>10, <2>12
<1>3. ManeuversAreOnEvidence <=> ManeuversAreConfirmed /\ []ManeuversEnd
  BY DEF ManeuversAreOnEvidence
<1> QED BY <1>1, <1>2, <1>3, Soundness, PTL DEF Spec, ManeuversAreConfirmed

\* The slots that are kept are kept with both bars, whatever bars were matched.
LEMMA PairsAreKeptWhole ==
  ASSUME NEW lights, NEW p \in SelectLightOnlyPairs(lights), NEW side \in Sides
  PROVE  \E q \in SelectLightOnlyPairs(lights) : q[2] = <<p[2][1], side>>
<1>1. PICK q \in lights : q[2] = <<p[2][1], side>>
  BY DEF SelectLightOnlyPairs
<1>2. q[2][1] = p[2][1]
  BY <1>1
<1>3. \A s \in Sides : \E r \in lights : r[2] = <<q[2][1], s>>
  BY <1>2 DEF SelectLightOnlyPairs
<1>4. q \in SelectLightOnlyPairs(lights)
  BY <1>3 DEF SelectLightOnlyPairs
<1> QED BY <1>1, <1>4

\* An update that rests on light bars alone rests on both bars of every slot.
THEOREM LoneLightsComeInPairs == Spec => []LightsAloneArePaired
<1>1. Init => LightsAloneArePaired
  BY DEF Init, NoMatch, LightsAloneArePaired
<1>2. LightsAloneArePaired /\ [Next]_vars => LightsAloneArePaired'
  <2>1. CASE UNCHANGED vars
    BY <2>1 DEF vars, LightsAloneArePaired
  <2>2. ASSUME NEW in \in Inputs, ProcessFrame(in)
        PROVE  LightsAloneArePaired'
    <3>1. CASE Reject(in) \/ Diverge(in) \/ Search(in) \/ Acquire(in)
      <4>1. last' = {}
        BY <3>1 DEF Reject, Diverge, Search, Acquire, NoMatch
      <4> QED BY <4>1 DEF LightsAloneArePaired
    <3>2. CASE Follow(in)
      <4>1. PICK armors, combined, v :
              LET m == Measured(in, armors)
              IN last' = {[in |-> in, match |-> m, found |-> Accepted(m, combined, v)]}
        BY <3>2 DEF Follow
      <4> DEFINE m == Measured(in, armors)
      <4>2. last' = {[in |-> in, match |-> m, found |-> Accepted(m, combined, v)]}
        BY <4>1
      <4>3. m.armors = armors /\ (armors = {} => m.used = SelectLightOnlyPairs(m.lights))
        BY DEF Measured
      <4>4. m.armors = {} /\ Accepted(m, combined, v) => m.used # {}
        BY DEF Accepted
      <4> HIDE DEF m
      <4>5. ASSUME NEW l \in last', l.found, l.match.armors = {}
            PROVE  /\ l.match.used # {}
                   /\ \A p \in l.match.used, side \in Sides :
                        \E q \in l.match.used : q[2] = <<p[2][1], side>>
        <5> DEFINE a == Accepted(m, combined, v)
        <5>1. l = [in |-> in, match |-> m, found |-> a]
          BY <4>2, <4>5
        <5>2. a
          <6> HIDE DEF a
          <6> QED BY <4>5, <5>1
        <5>3. l.match = m
          BY <5>1
        <5>4. m.used # {} /\ m.used = SelectLightOnlyPairs(m.lights)
          BY <4>3, <4>4, <4>5, <5>2, <5>3
        <5> HIDE DEF a
        <5>5. \A p \in m.used, side \in Sides : \E q \in m.used : q[2] = <<p[2][1], side>>
          <6> SUFFICES ASSUME NEW p \in m.used, NEW side \in Sides
                       PROVE  \E q \in m.used : q[2] = <<p[2][1], side>>
            OBVIOUS
          <6>1. p \in SelectLightOnlyPairs(m.lights)
            BY <5>4
          <6>2. \E q \in SelectLightOnlyPairs(m.lights) : q[2] = <<p[2][1], side>>
            BY <6>1, PairsAreKeptWhole
          <6> QED BY <5>4, <6>2
        <5> QED BY <5>3, <5>4, <5>5
      <4> QED BY <4>5 DEF LightsAloneArePaired
    <3> QED BY <2>2, <3>1, <3>2 DEF ProcessFrame
  <2> QED BY <2>1, <2>2 DEF Next
<1> QED BY <1>1, <1>2, PTL DEF Spec

-----------------------------------------------------------------------------
\* A set of natural numbers has a least one.
LEMMA FirstPlace ==
  ASSUME NEW S, S \subseteq Nat, S # {}
  PROVE  \E i \in S : \A j \in S : i <= j
<1> DEFINE R == OpToRel(<, Nat)
<1>1. PICK x \in S : \A y \in S : ~ (<<y, x>> \in R)
  <2> HIDE DEF R
  <2>1. IsWellFoundedOn(R, Nat)
    BY NatLessThanWellFounded DEF R
  <2> QED BY <2>1, WFMin
<1>2. \A y \in S : ~(y < x)
  BY <1>1 DEF OpToRel
<1> HIDE DEF R
<1> QED BY <1>2

-----------------------------------------------------------------------------
(* Sums over finite sets. *)

\* Any element: sums take the elements in some order.
Any(s) == CHOOSE x \in s : TRUE

\* sum gives for each subset of S, of n elements at most, the sum of c over it.
Small(S, n) == {s \in SUBSET S : Cardinality(s) <= n}

IsSum(sum, c, sets) ==
  sum = [s \in sets |-> IF s = {} THEN 0 ELSE c[Any(s)] + sum[s \ {Any(s)}]]

Sum(c, S) == MapThenSumSet(LAMBDA x : c[x], S)

\* What is left of a finite set without one of its elements.
LEMMA OneLess ==
  ASSUME NEW S, IsFiniteSet(S), S # {}
  PROVE  /\ Any(S) \in S
         /\ IsFiniteSet(S \ {Any(S)})
         /\ Cardinality(S) \in Nat /\ Cardinality(S) > 0
         /\ Cardinality(S \ {Any(S)}) = Cardinality(S) - 1
<1>1. Any(S) \in S
  BY DEF Any
<1>2. Cardinality(S) \in Nat /\ (Cardinality(S) = 0 <=> S = {})
  BY FS_CardinalityType, FS_EmptySet
<1>3. /\ IsFiniteSet(S \ {Any(S)})
      /\ Cardinality(S \ {Any(S)}) = Cardinality(S) - 1
  BY <1>1, FS_RemoveElement
<1> QED BY <1>1, <1>2, <1>3

\* The sum is defined for the subsets of n elements at most, one size after the other.
LEMMA SmallSumExists ==
  ASSUME NEW c, NEW S, IsFiniteSet(S), NEW n \in Nat
  PROVE  \E sum : IsSum(sum, c, Small(S, n))
<1> DEFINE Fails == {m \in Nat : ~ \E sum : IsSum(sum, c, Small(S, m))}
<1> SUFFICES ASSUME Fails # {} PROVE FALSE
  OBVIOUS
<1>1. PICK m \in Fails : \A j \in Fails : m <= j
  BY FirstPlace
<1>2. m \in Nat /\ ~ \E sum : IsSum(sum, c, Small(S, m))
  OBVIOUS
<1>3. \A s \in SUBSET S : IsFiniteSet(s) /\ Cardinality(s) \in Nat
  BY FS_Subset, FS_CardinalityType
<1>4. CASE m = 0
  <2> DEFINE f == [s \in Small(S, 0) |-> 0]
  <2>1. \A s \in Small(S, 0) : s = {}
    <3> SUFFICES ASSUME NEW s \in SUBSET S, Cardinality(s) <= 0 PROVE s = {}
      BY DEF Small
    <3>1. Cardinality(s) = 0
      BY <1>3
    <3> QED BY <1>3, <3>1, FS_EmptySet
  <2>2. IsSum(f, c, Small(S, 0))
    BY <2>1 DEF IsSum
  <2> QED BY <1>2, <1>4, <2>2
<1>5. CASE m > 0
  <2>1. m - 1 \in Nat /\ m - 1 \notin Fails
    BY <1>1, <1>2, <1>5
  <2>2. PICK g : IsSum(g, c, Small(S, m - 1))
    BY <2>1
  <2> DEFINE f == [s \in Small(S, m) |-> IF s = {} THEN 0 ELSE c[Any(s)] + g[s \ {Any(s)}]]
  <2>3. \A s \in Small(S, m - 1) : s \in Small(S, m) /\ f[s] = g[s]
    <3> SUFFICES ASSUME NEW s \in Small(S, m - 1) PROVE s \in Small(S, m) /\ f[s] = g[s]
      OBVIOUS
    <3>1. s \in Small(S, m)
      BY <1>2, <1>3 DEF Small
    <3>2. g[s] = IF s = {} THEN 0 ELSE c[Any(s)] + g[s \ {Any(s)}]
      BY <2>2 DEF IsSum
    <3> QED BY <3>1, <3>2
  <2>4. \A s \in Small(S, m) : s # {} => s \ {Any(s)} \in Small(S, m - 1)
    <3> SUFFICES ASSUME NEW s \in Small(S, m), s # {} PROVE s \ {Any(s)} \in Small(S, m - 1)
      OBVIOUS
    <3>1. s \in SUBSET S /\ Cardinality(s) <= m
      BY DEF Small
    <3>2. Cardinality(s \ {Any(s)}) = Cardinality(s) - 1 /\ Cardinality(s) \in Nat
      BY <1>3, <3>1, OneLess
    <3> QED BY <1>2, <3>1, <3>2 DEF Small
  <2>5. f = [s \in Small(S, m) |-> IF s = {} THEN 0 ELSE c[Any(s)] + f[s \ {Any(s)}]]
    <3>1. \A s \in Small(S, m) :
             f[s] = IF s = {} THEN 0 ELSE c[Any(s)] + f[s \ {Any(s)}]
      BY <2>3, <2>4
    <3>2. f = [s \in Small(S, m) |-> f[s]]
      OBVIOUS
    <3> HIDE DEF f
    <3> QED BY <3>1, <3>2
  <2> HIDE DEF f
  <2> QED BY <1>2, <2>5 DEF IsSum
<1> QED BY <1>2, <1>4, <1>5

\* So it is for every subset.
LEMMA SumExists ==
  ASSUME NEW c, NEW S, IsFiniteSet(S)
  PROVE  \E sum : IsSum(sum, c, SUBSET S)
<1>1. Cardinality(S) \in Nat
  BY FS_CardinalityType
<1>2. Small(S, Cardinality(S)) = SUBSET S
  BY FS_Subset DEF Small
<1>3. \E sum : IsSum(sum, c, Small(S, Cardinality(S)))
  BY <1>1, SmallSumExists
<1> QED BY <1>2, <1>3

\* Two sums agree wherever both are given, if what they add up agrees.
LEMMA SumsAgree ==
  ASSUME NEW c, NEW d, NEW S, NEW T, NEW f, NEW g,
         IsSum(f, c, SUBSET S), IsSum(g, d, SUBSET T),
         NEW s, s \subseteq S, s \subseteq T, IsFiniteSet(s), \A x \in s : c[x] = d[x]
  PROVE  f[s] = g[s]
<1> DEFINE Fails == {m \in Nat : \E t \in SUBSET s : Cardinality(t) = m /\ f[t] # g[t]}
<1>1. \A t \in SUBSET s : IsFiniteSet(t) /\ Cardinality(t) \in Nat
  BY FS_Subset, FS_CardinalityType
<1>2. SUFFICES ASSUME Fails # {} PROVE FALSE
  BY <1>1
<1>3. PICK m \in Fails : \A j \in Fails : m <= j
  <2>1. Fails \subseteq Nat
    OBVIOUS
  <2> HIDE DEF Fails
  <2> QED BY <1>2, <2>1, FirstPlace
<1>4. PICK t \in SUBSET s : Cardinality(t) = m /\ f[t] # g[t]
  OBVIOUS
<1>5. /\ f[t] = IF t = {} THEN 0 ELSE c[Any(t)] + f[t \ {Any(t)}]
      /\ g[t] = IF t = {} THEN 0 ELSE d[Any(t)] + g[t \ {Any(t)}]
  <2>1. t \in SUBSET S /\ t \in SUBSET T
    OBVIOUS
  <2> QED BY <2>1 DEF IsSum
<1>6. t # {}
  BY <1>4, <1>5
<1> DEFINE r == t \ {Any(t)}
<1>7. Any(t) \in s /\ r \in SUBSET s /\ Cardinality(r) = m - 1 /\ m \in Nat /\ m > 0
  BY <1>1, <1>4, <1>6, OneLess
<1>8. m - 1 \in Nat /\ ~(m <= m - 1)
  BY <1>7
<1>9. m - 1 \notin Fails
  BY <1>3, <1>8
<1>10. f[r] = g[r]
  BY <1>7, <1>8, <1>9
<1> QED BY <1>4, <1>5, <1>6, <1>7, <1>10

\* The sum of the community modules is the one that IsSum describes.
LEMMA SumIsSum ==
  ASSUME NEW c, NEW S, IsFiniteSet(S)
  PROVE  \E f : IsSum(f, c, SUBSET S) /\ Sum(c, S) = f[S]
<1> DEFINE IsIt(f) == f = [s \in SUBSET S |->
                             IF s = {} THEN 0
                             ELSE c[CHOOSE x \in s : TRUE] + f[s \ {CHOOSE x \in s : TRUE}]]
           f == CHOOSE f : IsIt(f)
<1>1. Sum(c, S) = f[S]
  BY DEF Sum, MapThenSumSet, MapThenFoldSet
<1>2. \E g : IsIt(g)
  <2>1. PICK g : IsSum(g, c, SUBSET S)
    BY SumExists
  <2>2. IsIt(g)
    BY <2>1 DEF IsSum, Any
  <2> QED BY <2>2
<1>3. IsIt(f)
  <2> HIDE DEF IsIt
  <2> QED BY <1>2
<1>4. IsSum(f, c, SUBSET S)
  <2> HIDE DEF f
  <2> QED BY <1>3 DEF IsSum, Any
<1> QED BY <1>1, <1>4

\* Nothing adds up to 0.
LEMMA SumOfNone ==
  ASSUME NEW c
  PROVE  Sum(c, {}) = 0
<1>1. IsFiniteSet({})
  BY FS_EmptySet
<1>2. PICK f : IsSum(f, c, SUBSET {}) /\ Sum(c, {}) = f[{}]
  BY <1>1, SumIsSum
<1> QED BY <1>2 DEF IsSum

\* One step of the definition.
LEMMA SumUnfolds ==
  ASSUME NEW c, NEW S, IsFiniteSet(S), S # {}
  PROVE  Sum(c, S) = c[Any(S)] + Sum(c, S \ {Any(S)})
<1> DEFINE R == S \ {Any(S)}
<1>1. IsFiniteSet(R) /\ R \subseteq S
  BY OneLess
<1>2. PICK f : IsSum(f, c, SUBSET S) /\ Sum(c, S) = f[S]
  BY SumIsSum
<1>3. PICK g : IsSum(g, c, SUBSET R) /\ Sum(c, R) = g[R]
  BY <1>1, SumIsSum
<1>4. f[R] = g[R]
  <2> HIDE DEF R
  <2> QED BY <1>1, <1>2, <1>3, SumsAgree
<1>5. f[S] = c[Any(S)] + f[R]
  BY <1>2 DEF IsSum
<1> QED BY <1>2, <1>3, <1>4, <1>5

\* A sum depends on the numbers it adds up alone.
LEMMA SameSums ==
  ASSUME NEW c, NEW d, NEW S, IsFiniteSet(S), \A x \in S : c[x] = d[x]
  PROVE  Sum(c, S) = Sum(d, S)
<1>1. PICK f : IsSum(f, c, SUBSET S) /\ Sum(c, S) = f[S]
  BY SumIsSum
<1>2. PICK g : IsSum(g, d, SUBSET S) /\ Sum(d, S) = g[S]
  BY SumIsSum
<1> QED BY <1>1, <1>2, SumsAgree

\* Of the subsets that fail one has the fewest elements: sets are finite here.
LEMMA SmallestSet ==
  ASSUME NEW S, IsFiniteSet(S), NEW F, F \subseteq SUBSET S, F # {}
  PROVE  \E t \in F : \A r \in SUBSET S : Cardinality(r) < Cardinality(t) => r \notin F
<1> DEFINE N == {Cardinality(t) : t \in F}
<1>1. \A t \in SUBSET S : Cardinality(t) \in Nat
  BY FS_Subset, FS_CardinalityType
<1>2. PICK m \in N : \A j \in N : m <= j
  <2>1. N \subseteq Nat /\ N # {}
    BY <1>1
  <2> HIDE DEF N
  <2> QED BY <2>1, FirstPlace
<1>3. PICK t \in F : Cardinality(t) = m
  OBVIOUS
<1>4. \A r \in F : Cardinality(t) <= Cardinality(r)
  BY <1>2, <1>3
<1> QED BY <1>1, <1>4

\* Numbers add up to a number.
LEMMA SumIsInt ==
  ASSUME NEW c, NEW S, IsFiniteSet(S), \A x \in S : c[x] \in Int
  PROVE  Sum(c, S) \in Int
<1> DEFINE F == {t \in SUBSET S : Sum(c, t) \notin Int}
<1> SUFFICES ASSUME F # {} PROVE FALSE
  OBVIOUS
<1>1. PICK t \in F : \A r \in SUBSET S : Cardinality(r) < Cardinality(t) => r \notin F
  <2>1. F \subseteq SUBSET S
    OBVIOUS
  <2> HIDE DEF F
  <2> QED BY <2>1, SmallestSet
<1>2. t \subseteq S /\ Sum(c, t) \notin Int /\ IsFiniteSet(t)
  BY FS_Subset
<1>3. t # {}
  BY <1>2, SumOfNone
<1> DEFINE r == t \ {Any(t)}
<1>4. Any(t) \in t /\ r \in SUBSET S /\ Cardinality(r) < Cardinality(t)
  BY <1>2, <1>3, OneLess
<1>5. Sum(c, r) \in Int
  BY <1>1, <1>4
<1>6. c[Any(t)] \in Int
  BY <1>2, <1>4
<1>7. Sum(c, t) = c[Any(t)] + Sum(c, r)
  BY <1>2, <1>3, SumUnfolds
<1> HIDE DEF r, F
<1> QED BY <1>2, <1>5, <1>6, <1>7

\* In whichever order: one element more adds its number.
LEMMA SumOfOneMore ==
  ASSUME NEW c, NEW S, IsFiniteSet(S), NEW x, x \notin S,
         c[x] \in Int, \A y \in S : c[y] \in Int
  PROVE  Sum(c, S \cup {x}) = Sum(c, S) + c[x]
<1> DEFINE W == S \cup {x}
           F == {t \in SUBSET W : \E y \in W \ t : Sum(c, t \cup {y}) # Sum(c, t) + c[y]}
<1>1. IsFiniteSet(W) /\ \A y \in W : c[y] \in Int
  BY FS_AddElement
<1> SUFFICES ASSUME F # {} PROVE FALSE
  OBVIOUS
<1>2. PICK t \in F : \A r \in SUBSET W : Cardinality(r) < Cardinality(t) => r \notin F
  <2>1. F \subseteq SUBSET W
    OBVIOUS
  <2> HIDE DEF F, W
  <2> QED BY <1>1, <2>1, SmallestSet
<1>3. PICK y \in W \ t : Sum(c, t \cup {y}) # Sum(c, t) + c[y]
  OBVIOUS
<1> HIDE DEF W
<1>4. t \subseteq W /\ IsFiniteSet(t) /\ IsFiniteSet(t \cup {y}) /\ t \cup {y} # {}
  BY <1>1, FS_Subset, FS_AddElement
<1>5. \A s \in SUBSET W : Sum(c, s) \in Int
  <2> SUFFICES ASSUME NEW s \in SUBSET W PROVE Sum(c, s) \in Int
    OBVIOUS
  <2>1. IsFiniteSet(s) /\ \A z \in s : c[z] \in Int
    BY <1>1, FS_Subset
  <2> QED BY <2>1, SumIsInt
<1> DEFINE z == Any(t \cup {y})
<1>6. z \in t \cup {y} /\ Sum(c, t \cup {y}) = c[z] + Sum(c, (t \cup {y}) \ {z})
  BY <1>4, OneLess, SumUnfolds
<1> HIDE DEF z
<1>7. CASE z = y
  <2>1. (t \cup {y}) \ {z} = t
    BY <1>3, <1>7
  <2> QED BY <1>1, <1>3, <1>4, <1>5, <1>6, <1>7, <2>1
<1>8. CASE z # y
  <2> DEFINE r == t \ {z}
  <2>1. z \in t /\ r \in SUBSET W /\ y \in W \ r /\ z \in W \ r
    BY <1>3, <1>4, <1>6, <1>8
  <2>2. Cardinality(r) < Cardinality(t)
    <3>1. Cardinality(t) \in Nat /\ Cardinality(r) = Cardinality(t) - 1
      BY <1>4, <2>1, FS_RemoveElement, FS_CardinalityType
    <3> QED BY <3>1
  <2>3. r \notin F
    BY <1>2, <2>1, <2>2
  <2>4. /\ Sum(c, r \cup {y}) = Sum(c, r) + c[y]
        /\ Sum(c, r \cup {z}) = Sum(c, r) + c[z]
    BY <2>1, <2>3
  <2>5. r \cup {z} = t /\ (t \cup {y}) \ {z} = r \cup {y}
    BY <1>8, <2>1
  <2>6. Sum(c, r) \in Int /\ c[y] \in Int /\ c[z] \in Int
    BY <1>1, <1>5, <2>1
  <2>7. Sum(c, t \cup {y}) = c[z] + (Sum(c, r) + c[y])
    BY <1>6, <2>4, <2>5
  <2>8. Sum(c, t) = Sum(c, r) + c[z]
    BY <2>4, <2>5
  <2> HIDE DEF r, F
  <2> QED BY <1>3, <2>6, <2>7, <2>8
<1> QED BY <1>7, <1>8

\* A sum is found from any element of its set and the rest.
LEMMA SumWithout ==
  ASSUME NEW c, NEW S, IsFiniteSet(S), \A y \in S : c[y] \in Int, NEW x \in S
  PROVE  /\ IsFiniteSet(S \ {x})
         /\ Cardinality(S) \in Nat /\ Cardinality(S \ {x}) = Cardinality(S) - 1
         /\ Sum(c, S \ {x}) \in Int /\ c[x] \in Int
         /\ Sum(c, S) = Sum(c, S \ {x}) + c[x]
<1> DEFINE R == S \ {x}
<1>1. /\ IsFiniteSet(R) /\ Cardinality(S) \in Nat
      /\ Cardinality(R) = Cardinality(S) - 1
  BY FS_RemoveElement, FS_CardinalityType
<1>2. R \cup {x} = S /\ x \notin R /\ c[x] \in Int /\ \A y \in R : c[y] \in Int
  OBVIOUS
<1> HIDE DEF R
<1>3. Sum(c, R) \in Int
  BY <1>1, <1>2, SumIsInt
<1>4. Sum(c, R \cup {x}) = Sum(c, R) + c[x]
  BY <1>1, <1>2, SumOfOneMore
<1> QED BY <1>1, <1>2, <1>3, <1>4 DEF R

\* Sums over two sets that share no element add up.
LEMMA SumOfUnion ==
  ASSUME NEW c, NEW S, NEW T, IsFiniteSet(S), IsFiniteSet(T), S \cap T = {},
         \A x \in S \cup T : c[x] \in Int
  PROVE  Sum(c, S \cup T) = Sum(c, S) + Sum(c, T)
<1> DEFINE F == {t \in SUBSET T : Sum(c, S \cup t) # Sum(c, S) + Sum(c, t)}
<1> SUFFICES ASSUME F # {} PROVE FALSE
  OBVIOUS
<1>1. PICK t \in F : \A r \in SUBSET T : Cardinality(r) < Cardinality(t) => r \notin F
  <2>1. F \subseteq SUBSET T
    OBVIOUS
  <2> HIDE DEF F
  <2> QED BY <2>1, SmallestSet
<1>2. t \subseteq T /\ Sum(c, S \cup t) # Sum(c, S) + Sum(c, t)
  OBVIOUS
<1>3. IsFiniteSet(t) /\ IsFiniteSet(S \cup t) /\ Sum(c, S) \in Int
  BY <1>2, FS_Subset, FS_Union, SumIsInt
<1>4. t # {}
  <2>1. t = {} => S \cup t = S
    OBVIOUS
  <2> QED BY <1>2, <1>3, <2>1, SumOfNone
<1>5. PICK x : x \in t
  BY <1>4
<1> DEFINE r == t \ {x}
<1>6. /\ Cardinality(t) \in Nat /\ Cardinality(r) = Cardinality(t) - 1
      /\ Sum(c, r) \in Int /\ c[x] \in Int /\ Sum(c, t) = Sum(c, r) + c[x]
  BY <1>2, <1>3, <1>5, SumWithout
<1>7. (S \cup t) \ {x} = S \cup r
  BY <1>2, <1>5
<1>8. Sum(c, S \cup r) \in Int /\ Sum(c, S \cup t) = Sum(c, S \cup r) + c[x]
  <2>1. x \in S \cup t /\ \A y \in S \cup t : c[y] \in Int
    BY <1>2, <1>5
  <2> QED BY <1>3, <1>7, <2>1, SumWithout
<1>9. r \in SUBSET T /\ Cardinality(r) < Cardinality(t)
  BY <1>2, <1>6
<1>10. Sum(c, S \cup r) = Sum(c, S) + Sum(c, r)
  BY <1>1, <1>9
<1> HIDE DEF r, F
<1> QED BY <1>2, <1>3, <1>6, <1>8, <1>10

\* Larger numbers have the larger sum.
LEMMA SumIsMonotone ==
  ASSUME NEW c, NEW d, NEW S, IsFiniteSet(S),
         \A x \in S : c[x] \in Int /\ d[x] \in Int /\ c[x] <= d[x]
  PROVE  Sum(c, S) <= Sum(d, S)
<1> DEFINE F == {t \in SUBSET S : ~(Sum(c, t) <= Sum(d, t))}
<1> SUFFICES ASSUME F # {} PROVE FALSE
  OBVIOUS
<1>1. PICK t \in F : \A r \in SUBSET S : Cardinality(r) < Cardinality(t) => r \notin F
  <2>1. F \subseteq SUBSET S
    OBVIOUS
  <2> HIDE DEF F
  <2> QED BY <2>1, SmallestSet
<1>2. t \subseteq S /\ ~(Sum(c, t) <= Sum(d, t)) /\ IsFiniteSet(t)
  BY FS_Subset
<1>3. t # {}
  BY <1>2, SumOfNone
<1>4. PICK x : x \in t
  BY <1>3
<1> DEFINE r == t \ {x}
<1>5. /\ Cardinality(t) \in Nat /\ Cardinality(r) = Cardinality(t) - 1
      /\ Sum(c, r) \in Int /\ c[x] \in Int /\ Sum(c, t) = Sum(c, r) + c[x]
  BY <1>2, <1>4, SumWithout
<1>6. Sum(d, r) \in Int /\ d[x] \in Int /\ Sum(d, t) = Sum(d, r) + d[x]
  BY <1>2, <1>4, SumWithout
<1>7. r \in SUBSET S /\ Cardinality(r) < Cardinality(t)
  BY <1>2, <1>5
<1>8. Sum(c, r) <= Sum(d, r)
  BY <1>1, <1>7
<1>9. c[x] <= d[x]
  BY <1>2, <1>4
<1> HIDE DEF r, F
<1> QED BY <1>2, <1>5, <1>6, <1>8, <1>9

\* Two sums over the same set add up element by element.
LEMMA SumOfSums ==
  ASSUME NEW c, NEW d, NEW e, NEW S, IsFiniteSet(S),
         \A x \in S : c[x] \in Int /\ d[x] \in Int /\ e[x] = c[x] + d[x]
  PROVE  Sum(e, S) = Sum(c, S) + Sum(d, S)
<1> DEFINE F == {t \in SUBSET S : Sum(e, t) # Sum(c, t) + Sum(d, t)}
<1> SUFFICES ASSUME F # {} PROVE FALSE
  OBVIOUS
<1>1. PICK t \in F : \A r \in SUBSET S : Cardinality(r) < Cardinality(t) => r \notin F
  <2>1. F \subseteq SUBSET S
    OBVIOUS
  <2> HIDE DEF F
  <2> QED BY <2>1, SmallestSet
<1>2. t \subseteq S /\ Sum(e, t) # Sum(c, t) + Sum(d, t) /\ IsFiniteSet(t)
  BY FS_Subset
<1>3. t # {}
  <2>1. Sum(e, {}) = 0 /\ Sum(c, {}) = 0 /\ Sum(d, {}) = 0
    BY SumOfNone
  <2>2. Sum(e, {}) = Sum(c, {}) + Sum(d, {})
    BY <2>1
  <2>3. ASSUME t = {} PROVE FALSE
    BY <1>2, <2>2, <2>3
  <2> QED BY <2>3
<1>4. PICK x : x \in t
  BY <1>3
<1> DEFINE r == t \ {x}
<1>5. /\ Cardinality(t) \in Nat /\ Cardinality(r) = Cardinality(t) - 1
      /\ Sum(c, r) \in Int /\ c[x] \in Int /\ Sum(c, t) = Sum(c, r) + c[x]
  BY <1>2, <1>4, SumWithout
<1>6. Sum(d, r) \in Int /\ d[x] \in Int /\ Sum(d, t) = Sum(d, r) + d[x]
  BY <1>2, <1>4, SumWithout
<1>7. Sum(e, t) = Sum(e, r) + e[x]
  <2>1. \A y \in t : e[y] \in Int
    BY <1>2
  <2> QED BY <1>2, <1>4, <2>1, SumWithout
<1>8. r \in SUBSET S /\ Cardinality(r) < Cardinality(t)
  BY <1>2, <1>5
<1>9. Sum(e, r) = Sum(c, r) + Sum(d, r)
  BY <1>1, <1>8
<1>10. e[x] = c[x] + d[x]
  BY <1>2, <1>4
<1> HIDE DEF r, F
<1> QED BY <1>2, <1>5, <1>6, <1>7, <1>9, <1>10

\* What tells its elements apart may name them in a sum.
LEMMA SumOfImage ==
  ASSUME NEW c, NEW g, NEW S, IsFiniteSet(S),
         \A x \in S : c[g[x]] \in Int, \A x, y \in S : g[x] = g[y] => x = y
  PROVE  /\ IsFiniteSet({g[x] : x \in S})
         /\ Sum(c, {g[x] : x \in S}) = Sum([x \in S |-> c[g[x]]], S)
<1> DEFINE e == [x \in S |-> c[g[x]]]
           Image(t) == {g[x] : x \in t}
           F == {t \in SUBSET S : Sum(c, Image(t)) # Sum(e, t)}
<1>1. \A t \in SUBSET S : IsFiniteSet(Image(t))
  <2> SUFFICES ASSUME NEW t \in SUBSET S PROVE IsFiniteSet(Image(t))
    OBVIOUS
  <2> DEFINE h == [x \in t |-> g[x]]
  <2>1. h \in Surjection(t, Image(t)) /\ IsFiniteSet(t)
    BY FS_Subset DEF Surjection
  <2> HIDE DEF h, Image
  <2> QED BY <2>1, FS_Surjection
<1> SUFFICES ASSUME F # {} PROVE FALSE
  BY <1>1
<1>2. PICK t \in F : \A r \in SUBSET S : Cardinality(r) < Cardinality(t) => r \notin F
  <2>1. F \subseteq SUBSET S
    OBVIOUS
  <2> HIDE DEF F
  <2> QED BY <2>1, SmallestSet
<1>3. t \subseteq S /\ Sum(c, Image(t)) # Sum(e, t) /\ IsFiniteSet(t)
  BY FS_Subset
<1>4. t # {}
  <2>1. t = {} => Image(t) = {}
    OBVIOUS
  <2> HIDE DEF Image, e
  <2> QED BY <1>3, <2>1, SumOfNone
<1>5. PICK x : x \in t
  BY <1>4
<1> DEFINE r == t \ {x}
<1>6. x \in S /\ e[x] = c[g[x]] /\ \A y \in t : e[y] \in Int
  BY <1>3, <1>5
<1>7. /\ Cardinality(t) \in Nat /\ Cardinality(r) = Cardinality(t) - 1
      /\ Sum(e, t) = Sum(e, r) + e[x]
  <2> HIDE DEF e
  <2> QED BY <1>3, <1>5, <1>6, SumWithout
<1>8. Image(t) \ {g[x]} = Image(r)
  BY <1>3, <1>5
<1>9. Sum(c, Image(t)) = Sum(c, Image(r)) + c[g[x]]
  <2>1. IsFiniteSet(Image(t)) /\ g[x] \in Image(t) /\ \A y \in Image(t) : c[y] \in Int
    BY <1>1, <1>3, <1>5
  <2> HIDE DEF Image, r
  <2> QED BY <1>8, <2>1, SumWithout
<1>10. r \in SUBSET S /\ Cardinality(r) < Cardinality(t)
  BY <1>3, <1>7
<1>11. Sum(c, Image(r)) = Sum(e, r)
  BY <1>2, <1>10
<1> HIDE DEF r, F, Image, e
<1> QED BY <1>3, <1>6, <1>7, <1>9, <1>11

\* Equal numbers are multiplied.
LEMMA SumOfEquals ==
  ASSUME NEW c, NEW k \in Int, NEW S, IsFiniteSet(S), \A x \in S : c[x] = k
  PROVE  Sum(c, S) = k * Cardinality(S)
<1> DEFINE F == {t \in SUBSET S : Sum(c, t) # k * Cardinality(t)}
<1> SUFFICES ASSUME F # {} PROVE FALSE
  OBVIOUS
<1>1. PICK t \in F : \A r \in SUBSET S : Cardinality(r) < Cardinality(t) => r \notin F
  <2>1. F \subseteq SUBSET S
    OBVIOUS
  <2> HIDE DEF F
  <2> QED BY <2>1, SmallestSet
<1>2. t \subseteq S /\ Sum(c, t) # k * Cardinality(t) /\ IsFiniteSet(t)
  BY FS_Subset
<1>3. t # {}
  <2>1. Cardinality({}) = 0
    BY FS_EmptySet
  <2>2. k * 0 = 0
    OBVIOUS
  <2> QED BY <1>2, <2>1, <2>2, SumOfNone
<1>4. PICK x : x \in t
  BY <1>3
<1> DEFINE r == t \ {x}
<1>5. /\ Cardinality(t) \in Nat /\ Cardinality(r) = Cardinality(t) - 1
      /\ Sum(c, t) = Sum(c, r) + c[x]
  BY <1>2, <1>4, SumWithout
<1>6. r \in SUBSET S /\ Cardinality(r) < Cardinality(t)
  BY <1>2, <1>5
<1>7. Sum(c, r) = k * Cardinality(r)
  BY <1>1, <1>6
<1>8. c[x] = k
  BY <1>2, <1>4
<1>9. \A n \in Nat : k * (n - 1) + k = k * n
  OBVIOUS
<1> HIDE DEF r, F
<1> QED BY <1>2, <1>5, <1>7, <1>8, <1>9

\* Natural numbers add up to one.
LEMMA SumIsNat ==
  ASSUME NEW c, NEW S, IsFiniteSet(S), \A x \in S : c[x] \in Nat
  PROVE  Sum(c, S) \in Nat
<1> DEFINE zero == [x \in S |-> 0]
<1>1. Sum(zero, S) = 0 * Cardinality(S)
  BY SumOfEquals
<1>2. Cardinality(S) \in Nat
  BY FS_CardinalityType
<1>3. Sum(zero, S) <= Sum(c, S)
  BY SumIsMonotone
<1>4. Sum(c, S) \in Int
  BY SumIsInt
<1> HIDE DEF zero
<1> QED BY <1>1, <1>2, <1>3, <1>4

-----------------------------------------------------------------------------
(* The light bars: the dynamic program, and what it matches.  The costs are *)
(* behind operators of their own, so that a proof sees them as plain terms. *)

\* The costs of the pairs of a row and a bar.
CostOf(lights) == [p \in (DOMAIN lights) \X Bar |-> lights[p[1]].cost[p[2]]]

\* What the lights of a frame are: a sequence of bars' costs.
AreLights(lights) ==
  /\ Len(lights) \in Nat /\ DOMAIN lights = 1 .. Len(lights)
  /\ \A i \in DOMAIN lights :
       /\ DOMAIN lights[i].cost \subseteq Bar
       /\ \A b \in DOMAIN lights[i].cost : lights[i].cost[b] \in Nat

Pairs(lights, rows, bars) ==
  {p \in rows \X bars : p[1] \in DOMAIN lights /\ p[2] \in DOMAIN lights[p[1]].cost}

BarsOf(m) == {p[2] : p \in m}

\* The bars a light matches, and at which cost.
BarsAt(lights, n) == DOMAIN lights[n].cost
Price(lights, n, b) == lights[n].cost[b]

\* A matching with one more pair, and with one less.
With(m, n, b) == m \cup {<<n, b>>}
Less(m, p) == m \ {p}

\* A vehicle has finitely many bars.
LEMMA BarsAreFew == IsFiniteSet(Bar)
<1>1. IsFiniteSet(Slots)
  <2>1. 0 \in Int /\ 3 \in Int
    OBVIOUS
  <2> QED BY <2>1, FS_Interval DEF Slots
<1>2. IsFiniteSet(Sides)
  <2>1. IsFiniteSet({"LEFT"}) /\ IsFiniteSet({"RIGHT"})
    BY FS_Singleton
  <2>2. Sides = {"LEFT"} \cup {"RIGHT"}
    BY DEF Sides
  <2> QED BY <2>1, <2>2, FS_Union
<1> QED BY <1>1, <1>2, FS_Product DEF Bar

\* A cost of pairs is their sum.
LEMMA CostIsSum ==
  ASSUME NEW lights, NEW c, NEW m, IsFiniteSet(m),
         \A p \in m : c[p] = lights[p[1]].cost[p[2]]
  PROVE  Cost(lights, m) = Sum(c, m)
<1> DEFINE Of(s) == CHOOSE x \in s : TRUE
           IsIt(f) == f = [s \in SUBSET m |->
                             IF s = {} THEN 0
                             ELSE lights[Of(s)[1]].cost[Of(s)[2]] + f[s \ {Of(s)}]]
           f == CHOOSE f : IsIt(f)
<1>1. Cost(lights, m) = f[m]
  BY DEF Cost, MapThenSumSet, MapThenFoldSet
<1>2. PICK g : IsSum(g, c, SUBSET m) /\ Sum(c, m) = g[m]
  BY SumIsSum
<1>3. \A s \in SUBSET m : s # {} => Of(s) \in m /\ c[Of(s)] = lights[Of(s)[1]].cost[Of(s)[2]]
  OBVIOUS
<1>4. \A h : IsIt(h) <=> IsSum(h, c, SUBSET m)
  <2> SUFFICES ASSUME NEW h PROVE IsIt(h) <=> IsSum(h, c, SUBSET m)
    OBVIOUS
  <2> DEFINE A == [s \in SUBSET m |-> IF s = {} THEN 0
                                      ELSE lights[Of(s)[1]].cost[Of(s)[2]] + h[s \ {Of(s)}]]
             B == [s \in SUBSET m |-> IF s = {} THEN 0 ELSE c[Of(s)] + h[s \ {Of(s)}]]
  <2>1. A = B
    <3> HIDE DEF Of
    <3> QED BY <1>3
  <2>2. IsSum(h, c, SUBSET m) <=> h = B
    BY DEF IsSum, Any
  <2>3. IsIt(h) <=> h = A
    OBVIOUS
  <2> HIDE DEF A, B, IsIt
  <2> QED BY <2>1, <2>2, <2>3
<1>5. IsIt(f)
  <2> HIDE DEF IsIt
  <2>1. IsIt(g)
    BY <1>2, <1>4
  <2> QED BY <2>1
<1> HIDE DEF IsIt, f
<1>6. IsSum(f, c, SUBSET m)
  BY <1>4, <1>5
<1> QED BY <1>1, <1>2, <1>6, SumsAgree

\* A matching is finite and has a number as its cost; a pair more adds its own.
LEMMA MatchingFacts ==
  ASSUME NEW lights, AreLights(lights),
         NEW m, m \subseteq Pairs(lights, DOMAIN lights, Bar)
  PROVE  /\ IsFiniteSet(m) /\ Cost(lights, m) \in Nat
         /\ \A p \in m : Price(lights, p[1], p[2]) \in Nat
         /\ \A p \in m : /\ Cost(lights, m \ {p}) \in Nat
                         /\ Cost(lights, m) = Cost(lights, m \ {p}) + Price(lights, p[1], p[2])
<1> DEFINE c == CostOf(lights)
<1>1. IsFiniteSet(m)
  <2>1. IsFiniteSet(DOMAIN lights)
    BY FS_Interval DEF AreLights
  <2>2. IsFiniteSet((DOMAIN lights) \X Bar)
    BY <2>1, BarsAreFew, FS_Product
  <2>3. m \subseteq (DOMAIN lights) \X Bar
    BY DEF Pairs
  <2> QED BY <2>2, <2>3, FS_Subset
<1>2. \A p \in m : /\ Price(lights, p[1], p[2]) \in Nat
                   /\ c[p] = Price(lights, p[1], p[2])
  BY DEF Pairs, AreLights, CostOf, Price
<1>3. \A n \in SUBSET m : IsFiniteSet(n) /\ Cost(lights, n) = Sum(c, n)
  <2> SUFFICES ASSUME NEW n \in SUBSET m PROVE IsFiniteSet(n) /\ Cost(lights, n) = Sum(c, n)
    OBVIOUS
  <2>1. IsFiniteSet(n)
    BY <1>1, FS_Subset
  <2>2. \A p \in n : c[p] = lights[p[1]].cost[p[2]]
    BY <1>2 DEF Price
  <2> HIDE DEF c
  <2> QED BY <2>1, <2>2, CostIsSum
<1> HIDE DEF c
<1>4. \A n \in SUBSET m : Cost(lights, n) \in Nat
  BY <1>2, <1>3, SumIsNat
<1>5. \A p \in m : Sum(c, m) = Sum(c, m \ {p}) + c[p]
  BY <1>1, <1>2, SumWithout
<1> QED BY <1>1, <1>2, <1>3, <1>4, <1>5

\* The matchings of the rows to n that are not duplicates.
MatchingsTo(lights, bars, duplicates, n) ==
  {m \in SUBSET Pairs(lights, (1 .. n) \ duplicates, bars) : Injective(m)}

\* A row of the dynamic program: for each set of bars that some matching uses, the
\* cheapest of those that use it.
IsTable(table, lights, matchings) ==
  /\ \A m \in matchings : BarsOf(m) \in DOMAIN table
  /\ \A used \in DOMAIN table :
       /\ table[used] \in matchings /\ BarsOf(table[used]) = used
       /\ \A m \in matchings : BarsOf(m) = used => Cost(lights, table[used]) <= Cost(lights, m)

\* What a matching of the dynamic program consists of.
LEMMA MatchingsAreOfPairs ==
  ASSUME NEW lights, AreLights(lights), NEW bars, bars \subseteq Bar, NEW duplicates,
         NEW n \in 0 .. Len(lights), NEW m \in MatchingsTo(lights, bars, duplicates, n)
  PROVE  /\ m \subseteq Pairs(lights, DOMAIN lights, Bar)
         /\ m \subseteq Pairs(lights, (1 .. n) \ duplicates, bars) /\ Injective(m)
         /\ Cost(lights, m) \in Nat
<1>1. /\ m \subseteq Pairs(lights, (1 .. n) \ duplicates, bars) /\ Injective(m)
  BY DEF MatchingsTo
<1>2. m \subseteq Pairs(lights, DOMAIN lights, Bar)
  BY <1>1 DEF Pairs, AreLights
<1> QED BY <1>1, <1>2, MatchingFacts

\* A matching with the row n is one without it and a pair more.
LEMMA WithoutRow ==
  ASSUME NEW lights, AreLights(lights), NEW bars, bars \subseteq Bar, NEW duplicates,
         NEW n \in DOMAIN lights, n \notin duplicates,
         NEW m \in MatchingsTo(lights, bars, duplicates, n), NEW p \in m, p[1] = n,
         NEW rest, rest = Less(m, p)
  PROVE  /\ rest \in MatchingsTo(lights, bars, duplicates, n - 1)
         /\ p = <<n, p[2]>> /\ p[2] \in BarsAt(lights, n) \cap bars
         /\ p[2] \notin BarsOf(rest) /\ BarsOf(m) = BarsOf(rest) \cup {p[2]}
         /\ Cost(lights, rest) \in Nat
         /\ Cost(lights, m) = Cost(lights, rest) + Price(lights, n, p[2])
<1>1. n \in Nat /\ n > 0 /\ n \in 0 .. Len(lights)
  BY DEF AreLights
<1>2. /\ m \subseteq Pairs(lights, DOMAIN lights, Bar)
      /\ m \subseteq Pairs(lights, (1 .. n) \ duplicates, bars) /\ Injective(m)
  BY <1>1, MatchingsAreOfPairs
<1>3. p = <<n, p[2]>> /\ p[2] \in BarsAt(lights, n) \cap bars
  BY <1>2 DEF Pairs, BarsAt
<1>12. rest = m \ {p}
  BY DEF Less
<1>4. \A q \in rest : q[1] # n /\ q[2] # p[2]
  BY <1>2, <1>12 DEF Injective
<1>5. rest \subseteq Pairs(lights, (1 .. n - 1) \ duplicates, bars)
  <2> SUFFICES ASSUME NEW q \in rest PROVE q \in Pairs(lights, (1 .. n - 1) \ duplicates, bars)
    BY <1>12
  <2>1. q \in Pairs(lights, (1 .. n) \ duplicates, bars) /\ q[1] # n
    BY <1>2, <1>4, <1>12
  <2>2. q[1] \in 1 .. n - 1
    BY <1>1, <2>1 DEF Pairs
  <2> QED BY <2>1, <2>2 DEF Pairs
<1>6. rest \in MatchingsTo(lights, bars, duplicates, n - 1)
  BY <1>2, <1>5, <1>12 DEF MatchingsTo, Injective
<1>7. p[2] \notin BarsOf(rest) /\ BarsOf(m) = BarsOf(rest) \cup {p[2]}
  BY <1>4, <1>12 DEF BarsOf
<1>8. Cost(lights, rest) \in Nat /\ Cost(lights, m) = Cost(lights, rest) + Price(lights, n, p[2])
  BY <1>2, <1>12, MatchingFacts
<1> QED BY <1>3, <1>6, <1>7, <1>8

\* The other way round: a free bar may be given to the row n.
LEMMA WithRow ==
  ASSUME NEW lights, AreLights(lights), NEW bars, bars \subseteq Bar, NEW duplicates,
         NEW n \in DOMAIN lights, n \notin duplicates,
         NEW m \in MatchingsTo(lights, bars, duplicates, n - 1),
         NEW b \in BarsAt(lights, n) \cap bars, b \notin BarsOf(m)
  PROVE  /\ With(m, n, b) \in MatchingsTo(lights, bars, duplicates, n)
         /\ BarsOf(With(m, n, b)) = BarsOf(m) \cup {b}
         /\ Cost(lights, m) \in Nat
         /\ Cost(lights, With(m, n, b)) = Cost(lights, m) + Price(lights, n, b)
<1> DEFINE p == <<n, b>>
           more == With(m, n, b)
<1>1. n \in Nat /\ n > 0 /\ n \in 0 .. Len(lights) /\ n - 1 \in 0 .. Len(lights)
  BY DEF AreLights
<1>2. m \subseteq Pairs(lights, (1 .. n - 1) \ duplicates, bars) /\ Injective(m)
  BY <1>1, MatchingsAreOfPairs
<1>3. \A q \in m : q[1] # n /\ q[2] # b
  BY <1>1, <1>2 DEF Pairs, BarsOf
<1>4. p[1] = n /\ p[2] = b /\ p \in Pairs(lights, (1 .. n) \ duplicates, bars)
  BY <1>1 DEF Pairs, BarsAt
<1>5. m \subseteq Pairs(lights, (1 .. n) \ duplicates, bars)
  <2> SUFFICES ASSUME NEW q \in m PROVE q \in Pairs(lights, (1 .. n) \ duplicates, bars)
    OBVIOUS
  <2>1. q \in Pairs(lights, (1 .. n - 1) \ duplicates, bars)
    BY <1>2
  <2>2. q[1] \in 1 .. n
    BY <1>1, <2>1 DEF Pairs
  <2> QED BY <2>1, <2>2 DEF Pairs
<1>12. more = m \cup {p}
  BY DEF With
<1> HIDE DEF p, more
<1>6. Injective(more)
  BY <1>2, <1>3, <1>4, <1>12 DEF Injective
<1>7. more \in MatchingsTo(lights, bars, duplicates, n)
  BY <1>4, <1>5, <1>6, <1>12 DEF MatchingsTo
<1>8. BarsOf(more) = BarsOf(m) \cup {b}
  BY <1>4, <1>12 DEF BarsOf
<1>9. more \subseteq Pairs(lights, DOMAIN lights, Bar)
  BY <1>1, <1>7, MatchingsAreOfPairs
<1>10. p \in more /\ more \ {p} = m
  BY <1>3, <1>4, <1>12
<1>11. Cost(lights, m) \in Nat /\ Cost(lights, more) = Cost(lights, m) + Price(lights, n, b)
  BY <1>4, <1>9, <1>10, MatchingFacts
<1> QED BY <1>7, <1>8, <1>11 DEF more

\* One more row: its table is right if the one before was.
LEMMA RelaxKeepsTables ==
  ASSUME NEW lights, AreLights(lights), NEW bars, bars \subseteq Bar, NEW duplicates,
         NEW n \in DOMAIN lights, n \notin duplicates, NEW table,
         IsTable(table, lights, MatchingsTo(lights, bars, duplicates, n - 1))
  PROVE  IsTable(Relax(lights, bars, n, table), lights, MatchingsTo(lights, bars, duplicates, n))
<1> DEFINE Before == MatchingsTo(lights, bars, duplicates, n - 1)
           After == MatchingsTo(lights, bars, duplicates, n)
           D == BarsAt(lights, n) \cap bars
           W(used) == Ways(lights, bars, n, table, used)
           R == Reached(lights, bars, n, table)
           next == Relax(lights, bars, n, table)
<1>1. n \in Nat /\ n > 0 /\ n \in 0 .. Len(lights) /\ n - 1 \in 0 .. Len(lights)
  BY DEF AreLights
<1>2. Before \subseteq After
  <2> SUFFICES ASSUME NEW m \in Before PROVE m \in After
    OBVIOUS
  <2>1. m \subseteq Pairs(lights, (1 .. n - 1) \ duplicates, bars) /\ Injective(m)
    BY <1>1, MatchingsAreOfPairs
  <2>2. (1 .. n - 1) \ duplicates \subseteq (1 .. n) \ duplicates
    BY <1>1
  <2> QED BY <2>1, <2>2 DEF MatchingsTo, Pairs
<1>3. \A m \in After : (\A p \in m : p[1] # n) => m \in Before
  <2> SUFFICES ASSUME NEW m \in After, \A p \in m : p[1] # n PROVE m \in Before
    OBVIOUS
  <2>1. m \subseteq Pairs(lights, (1 .. n) \ duplicates, bars) /\ Injective(m)
    BY <1>1, MatchingsAreOfPairs
  <2>2. m \subseteq Pairs(lights, (1 .. n - 1) \ duplicates, bars)
    <3> SUFFICES ASSUME NEW q \in m PROVE q \in Pairs(lights, (1 .. n - 1) \ duplicates, bars)
      OBVIOUS
    <3>1. q \in Pairs(lights, (1 .. n) \ duplicates, bars) /\ q[1] # n
      BY <2>1
    <3>2. q[1] \in 1 .. n - 1
      BY <1>1, <3>1 DEF Pairs
    <3> QED BY <3>1, <3>2 DEF Pairs
  <2> QED BY <2>1, <2>2 DEF MatchingsTo
<1>4. \A used \in DOMAIN table :
        /\ table[used] \in Before /\ BarsOf(table[used]) = used
        /\ \A m \in Before : BarsOf(m) = used => Cost(lights, table[used]) <= Cost(lights, m)
  BY DEF IsTable
<1>5. \A m \in Before : BarsOf(m) \in DOMAIN table
  BY DEF IsTable
<1>6. \A m \in After : Cost(lights, m) \in Nat
  BY <1>1, MatchingsAreOfPairs
<1>15. \A m \in Before, b \in D : b \notin BarsOf(m) =>
         /\ m \cup {<<n, b>>} \in After /\ BarsOf(m \cup {<<n, b>>}) = BarsOf(m) \cup {b}
         /\ Cost(lights, m) \in Nat
         /\ Cost(lights, m \cup {<<n, b>>}) = Cost(lights, m) + Price(lights, n, b)
  <2> SUFFICES ASSUME NEW m \in Before, NEW b \in D, b \notin BarsOf(m)
               PROVE  /\ m \cup {<<n, b>>} \in After
                      /\ BarsOf(m \cup {<<n, b>>}) = BarsOf(m) \cup {b}
                      /\ Cost(lights, m) \in Nat
                      /\ Cost(lights, m \cup {<<n, b>>}) = Cost(lights, m) + Price(lights, n, b)
    OBVIOUS
  <2>1. m \in MatchingsTo(lights, bars, duplicates, n - 1) /\ b \in BarsAt(lights, n) \cap bars
    OBVIOUS
  <2>2. /\ With(m, n, b) \in MatchingsTo(lights, bars, duplicates, n)
        /\ BarsOf(With(m, n, b)) = BarsOf(m) \cup {b}
        /\ Cost(lights, m) \in Nat
        /\ Cost(lights, With(m, n, b)) = Cost(lights, m) + Price(lights, n, b)
    <3> HIDE DEF Before, After, D, W, R, next
    <3> QED BY <2>1, WithRow
  <2> QED BY <2>2 DEF With
<1>16. \A m \in After : \A p \in m : p[1] = n =>
         /\ m \ {p} \in Before /\ p[2] \in D
         /\ p[2] \notin BarsOf(m \ {p}) /\ BarsOf(m) = BarsOf(m \ {p}) \cup {p[2]}
         /\ Cost(lights, m \ {p}) \in Nat
         /\ Cost(lights, m) = Cost(lights, m \ {p}) + Price(lights, n, p[2])
  <2> SUFFICES ASSUME NEW m \in After, NEW p \in m, p[1] = n
               PROVE  /\ m \ {p} \in Before /\ p[2] \in D
                      /\ p[2] \notin BarsOf(m \ {p}) /\ BarsOf(m) = BarsOf(m \ {p}) \cup {p[2]}
                      /\ Cost(lights, m \ {p}) \in Nat
                      /\ Cost(lights, m) = Cost(lights, m \ {p}) + Price(lights, n, p[2])
    OBVIOUS
  <2>1. m \in MatchingsTo(lights, bars, duplicates, n)
    OBVIOUS
  <2>3. PICK rest : rest = Less(m, p)
    OBVIOUS
  <2>2. /\ rest \in MatchingsTo(lights, bars, duplicates, n - 1)
        /\ p[2] \in BarsAt(lights, n) \cap bars
        /\ p[2] \notin BarsOf(rest) /\ BarsOf(m) = BarsOf(rest) \cup {p[2]}
        /\ Cost(lights, rest) \in Nat
        /\ Cost(lights, m) = Cost(lights, rest) + Price(lights, n, p[2])
    <3> HIDE DEF Before, After, D, W, R, next
    <3> QED BY <2>1, <2>3, WithoutRow
  <2> QED BY <2>2, <2>3 DEF Less
<1> HIDE DEF Before, After
<1>7. \A used, w : w \in W(used) <=>
        \/ used \in DOMAIN table /\ w = table[used]
        \/ \E b \in D \cap used : used \ {b} \in DOMAIN table /\ w = table[used \ {b}] \cup {<<n, b>>}
  BY DEF Ways, BarsAt
<1>8. \A used : \A w \in W(used) : w \in After /\ BarsOf(w) = used
  <2> SUFFICES ASSUME NEW used, NEW w \in W(used) PROVE w \in After /\ BarsOf(w) = used
    OBVIOUS
  <2>1. CASE used \in DOMAIN table /\ w = table[used]
    BY <1>2, <1>4, <2>1
  <2>2. ASSUME NEW b \in D \cap used, used \ {b} \in DOMAIN table,
               w = table[used \ {b}] \cup {<<n, b>>}
        PROVE  w \in After /\ BarsOf(w) = used
    <3>1. table[used \ {b}] \in Before /\ BarsOf(table[used \ {b}]) = used \ {b}
      BY <1>4, <2>2
    <3>2. w \in After /\ BarsOf(w) = (used \ {b}) \cup {b}
      BY <1>15, <2>2, <3>1
    <3> QED BY <3>2
  <2> HIDE DEF W, D
  <2> QED BY <1>7, <2>1, <2>2
<1>9. \A m \in After : BarsOf(m) \in R /\ \E w \in W(BarsOf(m)) : Cost(lights, w) <= Cost(lights, m)
  <2> SUFFICES ASSUME NEW m \in After
               PROVE  /\ BarsOf(m) \in R
                      /\ \E w \in W(BarsOf(m)) : Cost(lights, w) <= Cost(lights, m)
    OBVIOUS
  <2>1. CASE \A p \in m : p[1] # n
    <3>1. m \in Before /\ BarsOf(m) \in DOMAIN table
      BY <1>3, <1>5, <2>1
    <3>2. BarsOf(m) \in R
      BY <3>1 DEF Reached, BarsAt
    <3>3. table[BarsOf(m)] \in W(BarsOf(m))
      BY <3>1 DEF Ways
    <3>4. Cost(lights, table[BarsOf(m)]) <= Cost(lights, m)
      BY <1>4, <3>1
    <3> QED BY <3>2, <3>3, <3>4
  <2>2. ASSUME NEW p \in m, p[1] = n
        PROVE  /\ BarsOf(m) \in R
               /\ \E w \in W(BarsOf(m)) : Cost(lights, w) <= Cost(lights, m)
    <3> DEFINE rest == m \ {p}
               b == p[2]
    <3>1. /\ rest \in Before /\ b \in D
          /\ b \notin BarsOf(rest) /\ BarsOf(m) = BarsOf(rest) \cup {b}
          /\ Cost(lights, rest) \in Nat
          /\ Cost(lights, m) = Cost(lights, rest) + Price(lights, n, b)
      BY <1>16, <2>2
    <3> HIDE DEF rest, b
    <3>2. BarsOf(rest) \in DOMAIN table /\ BarsOf(m) \ {b} = BarsOf(rest) /\ b \in D \cap BarsOf(m)
      BY <1>5, <3>1
    <3>3. BarsOf(m) \in R
      BY <3>1, <3>2 DEF Reached, BarsAt
    <3> DEFINE old == table[BarsOf(rest)]
               w == old \cup {<<n, b>>}
    <3>4. w \in W(BarsOf(m))
      <4> DEFINE used == BarsOf(m)
      <4>1. b \in D \cap used /\ used \ {b} \in DOMAIN table /\ w = table[used \ {b}] \cup {<<n, b>>}
        BY <3>2
      <4> HIDE DEF W, D, w, used
      <4>2. w \in W(used)
        BY <1>7, <4>1
      <4> QED BY <4>2 DEF used
    <3>5. old \in Before /\ BarsOf(old) = BarsOf(rest) /\ Cost(lights, old) <= Cost(lights, rest)
      BY <1>4, <3>1, <3>2
    <3> HIDE DEF old
    <3>6. Cost(lights, old) \in Nat /\ Cost(lights, w) = Cost(lights, old) + Price(lights, n, b)
      BY <1>15, <3>1, <3>5
    <3>7. Price(lights, n, b) \in Nat
      BY <3>1 DEF AreLights, BarsAt, Price
    <3>8. Cost(lights, w) <= Cost(lights, m)
      <4> HIDE DEF w
      <4> QED BY <3>1, <3>5, <3>6, <3>7
    <3> QED BY <3>3, <3>4, <3>8
  <2> QED BY <2>1, <2>2
<1>10. \A used \in R : W(used) # {}
  <2> SUFFICES ASSUME NEW used \in R PROVE W(used) # {}
    OBVIOUS
  <2>1. CASE used \in DOMAIN table
    BY <2>1 DEF Ways
  <2>2. ASSUME NEW u \in DOMAIN table, NEW b \in D, used = u \cup {b}, used \notin DOMAIN table
        PROVE  W(used) # {}
    <3>1. b \notin u
      <4>1. b \in u => used = u
        BY <2>2
      <4> QED BY <2>2, <4>1
    <3>2. used \ {b} = u /\ b \in D \cap used
      BY <2>2, <3>1
    <3> HIDE DEF W, D
    <3> QED BY <1>7, <3>2
  <2> QED BY <2>1, <2>2 DEF Reached, BarsAt
<1> HIDE DEF D, W, R, next
<1>11. /\ DOMAIN next = R
       /\ \A used \in R : next[used] = CHOOSE m \in W(used) : \A v \in W(used) :
                                         Cost(lights, m) <= Cost(lights, v)
  BY DEF next, W, R, Relax
<1>12. \A used \in R : /\ next[used] \in W(used)
                       /\ \A v \in W(used) : Cost(lights, next[used]) <= Cost(lights, v)
  <2> SUFFICES ASSUME NEW used \in R
               PROVE  \E m \in W(used) : \A v \in W(used) : Cost(lights, m) <= Cost(lights, v)
    BY <1>11
  <2> DEFINE C == {Cost(lights, v) : v \in W(used)}
  <2>1. C \subseteq Nat /\ C # {}
    BY <1>6, <1>8, <1>10
  <2>2. PICK k \in C : \A j \in C : k <= j
    <3> HIDE DEF C
    <3> QED BY <2>1, FirstPlace
  <2> QED BY <2>2
<1>13. ASSUME NEW used \in R, NEW m \in After, BarsOf(m) = used
       PROVE  Cost(lights, next[used]) <= Cost(lights, m)
  <2>1. PICK w \in W(used) : Cost(lights, w) <= Cost(lights, m)
    BY <1>9, <1>13
  <2>2. Cost(lights, next[used]) <= Cost(lights, w) /\ next[used] \in After /\ w \in After
    BY <1>8, <1>12
  <2> QED BY <1>6, <2>1, <2>2
<1>14. IsTable(next, lights, After)
  BY <1>8, <1>9, <1>11, <1>12, <1>13 DEF IsTable
<1> QED BY <1>14 DEF next, After

\* The dynamic program to row n.
IsRun(run, lights, bars, duplicates, n) ==
  run = [k \in 0 .. n |-> IF k = 0 THEN [used \in {{}} |-> {}]
                          ELSE IF k \in duplicates THEN run[k - 1]
                          ELSE Relax(lights, bars, k, run[k - 1])]

\* The dynamic program is defined, one row after the other.
LEMMA RunExists ==
  ASSUME NEW lights, NEW bars, NEW duplicates, NEW n \in Nat
  PROVE  \E run : IsRun(run, lights, bars, duplicates, n)
<1> DEFINE Fails == {m \in Nat : ~ \E run : IsRun(run, lights, bars, duplicates, m)}
<1> SUFFICES ASSUME Fails # {} PROVE FALSE
  OBVIOUS
<1>1. PICK m \in Fails : \A j \in Fails : m <= j
  <2>1. Fails \subseteq Nat
    OBVIOUS
  <2> HIDE DEF Fails
  <2> QED BY <2>1, FirstPlace
<1>2. m \in Nat /\ ~ \E run : IsRun(run, lights, bars, duplicates, m)
  OBVIOUS
<1>3. CASE m = 0
  <2> DEFINE f == [k \in 0 .. 0 |-> [used \in {{}} |-> {}]]
  <2>1. IsRun(f, lights, bars, duplicates, 0)
    BY DEF IsRun
  <2> QED BY <1>2, <1>3, <2>1
<1>4. CASE m > 0
  <2>1. m - 1 \in Nat /\ m - 1 \notin Fails
    BY <1>1, <1>2, <1>4
  <2>2. PICK g : IsRun(g, lights, bars, duplicates, m - 1)
    BY <2>1
  <2> DEFINE f == [k \in 0 .. m |->
                     IF k = 0 THEN [used \in {{}} |-> {}]
                     ELSE IF k \in duplicates THEN g[k - 1] ELSE Relax(lights, bars, k, g[k - 1])]
  <2>3. \A k \in 0 .. m - 1 : k \in 0 .. m /\ f[k] = g[k]
    <3> SUFFICES ASSUME NEW k \in 0 .. m - 1 PROVE k \in 0 .. m /\ f[k] = g[k]
      OBVIOUS
    <3>1. k \in 0 .. m
      BY <1>2
    <3>2. g[k] = IF k = 0 THEN [used \in {{}} |-> {}]
                 ELSE IF k \in duplicates THEN g[k - 1] ELSE Relax(lights, bars, k, g[k - 1])
      BY <2>2 DEF IsRun
    <3> QED BY <3>1, <3>2
  <2>4. \A k \in 0 .. m : k # 0 => k - 1 \in 0 .. m - 1
    BY <1>2
  <2>5. \A k \in 0 .. m : f[k] = IF k = 0 THEN [used \in {{}} |-> {}]
                                 ELSE IF k \in duplicates THEN f[k - 1]
                                 ELSE Relax(lights, bars, k, f[k - 1])
    <3> SUFFICES ASSUME NEW k \in 0 .. m
                 PROVE  f[k] = IF k = 0 THEN [used \in {{}} |-> {}]
                               ELSE IF k \in duplicates THEN f[k - 1]
                               ELSE Relax(lights, bars, k, f[k - 1])
      OBVIOUS
    <3>1. f[k] = IF k = 0 THEN [used \in {{}} |-> {}]
                 ELSE IF k \in duplicates THEN g[k - 1] ELSE Relax(lights, bars, k, g[k - 1])
      OBVIOUS
    <3>2. k # 0 => f[k - 1] = g[k - 1]
      BY <2>3, <2>4
    <3> HIDE DEF f
    <3> QED BY <3>1, <3>2
  <2>6. f = [k \in 0 .. m |-> f[k]]
    OBVIOUS
  <2> HIDE DEF f
  <2>7. IsRun(f, lights, bars, duplicates, m)
    BY <2>5, <2>6 DEF IsRun
  <2> QED BY <1>2, <2>7
<1> QED BY <1>2, <1>3, <1>4

\* After the last row the table is the one of all matchings.
LEMMA RunIsOfTables ==
  ASSUME NEW lights, AreLights(lights), NEW bars, bars \subseteq Bar, NEW duplicates,
         NEW run, IsRun(run, lights, bars, duplicates, Len(lights))
  PROVE  IsTable(run[Len(lights)], lights, MatchingsTo(lights, bars, duplicates, Len(lights)))
<1> DEFINE n == Len(lights)
           M(k) == MatchingsTo(lights, bars, duplicates, k)
           Fails == {k \in 0 .. n : ~IsTable(run[k], lights, M(k))}
<1>1. n \in Nat /\ DOMAIN lights = 1 .. n
  BY DEF AreLights
<1>2. \A k \in 0 .. n :
        run[k] = IF k = 0 THEN [used \in {{}} |-> {}]
                 ELSE IF k \in duplicates THEN run[k - 1] ELSE Relax(lights, bars, k, run[k - 1])
  BY DEF IsRun
<1> HIDE DEF n
<1> SUFFICES ASSUME Fails # {} PROVE FALSE
  BY <1>1 DEF n
<1>3. PICK k \in Fails : \A j \in Fails : k <= j
  <2>1. Fails \subseteq Nat
    BY <1>1
  <2> HIDE DEF Fails
  <2> QED BY <2>1, FirstPlace
<1>4. k \in 0 .. n /\ ~IsTable(run[k], lights, M(k))
  OBVIOUS
<1>5. CASE k = 0
  <2>1. run[k] = [used \in {{}} |-> {}]
    BY <1>2, <1>4, <1>5
  <2>2. \A m : m \in M(0) <=> m = {}
    <3>1. (1 .. 0) \ duplicates = {}
      OBVIOUS
    <3>2. Pairs(lights, {}, bars) = {}
      BY DEF Pairs
    <3>3. Injective({})
      BY DEF Injective
    <3> QED BY <3>1, <3>2, <3>3 DEF MatchingsTo
  <2>3. BarsOf({}) = {}
    BY DEF BarsOf
  <2>4. Cost(lights, {}) \in Nat
    <3>1. {} \subseteq Pairs(lights, DOMAIN lights, Bar)
      OBVIOUS
    <3> QED BY <3>1, MatchingFacts
  <2> HIDE DEF M
  <2>6. (\A used : used \in DOMAIN run[k] <=> used = {}) /\ run[k][{}] = {}
    BY <2>1
  <2>7. Cost(lights, {}) <= Cost(lights, {})
    BY <2>4
  <2>5. IsTable(run[k], lights, M(0))
    <3>1. \A m \in M(0) : BarsOf(m) \in DOMAIN run[k]
      BY <2>2, <2>3, <2>6
    <3>2. ASSUME NEW used \in DOMAIN run[k]
          PROVE  /\ run[k][used] \in M(0) /\ BarsOf(run[k][used]) = used
                 /\ \A m \in M(0) : BarsOf(m) = used => Cost(lights, run[k][used]) <= Cost(lights, m)
      <4>1. used = {} /\ run[k][used] = {} /\ {} \in M(0)
        BY <2>2, <2>6
      <4>2. \A m \in M(0) : m = {}
        BY <2>2
      <4> QED BY <2>3, <2>7, <4>1, <4>2
    <3> QED BY <3>1, <3>2 DEF IsTable
  <2> QED BY <1>4, <1>5, <2>5
<1>6. CASE k # 0
  <2>1. k - 1 \in 0 .. n /\ k \in 1 .. n /\ k - 1 < k
    BY <1>1, <1>4, <1>6
  <2>2. k - 1 \notin Fails
    BY <1>3, <1>4, <2>1
  <2>3. IsTable(run[k - 1], lights, M(k - 1))
    BY <2>1, <2>2
  <2>4. CASE k \in duplicates
    <3>1. (1 .. k) \ duplicates = (1 .. k - 1) \ duplicates
      BY <2>1, <2>4
    <3>2. M(k) = M(k - 1)
      BY <3>1 DEF MatchingsTo
    <3>3. run[k] = run[k - 1]
      BY <1>2, <1>4, <1>6, <2>4
    <3> HIDE DEF M
    <3> QED BY <1>4, <2>3, <3>2, <3>3
  <2>5. CASE k \notin duplicates
    <3>1. run[k] = Relax(lights, bars, k, run[k - 1])
      BY <1>2, <1>4, <1>6, <2>5
    <3>2. k \in DOMAIN lights
      BY <1>1, <2>1
    <3>3. IsTable(Relax(lights, bars, k, run[k - 1]), lights, M(k))
      BY <2>3, <2>5, <3>2, RelaxKeepsTables
    <3> HIDE DEF M
    <3> QED BY <1>4, <3>1, <3>3
  <2> QED BY <2>4, <2>5
<1> QED BY <1>5, <1>6

\* Bars are told apart by the pairs of a matching.
LEMMA AsManyBars ==
  ASSUME NEW m, IsFiniteSet(m), Injective(m)
  PROVE  Cardinality(BarsOf(m)) = Cardinality(m)
<1> DEFINE f == [p \in m |-> p[2]]
<1>1. f \in Bijection(m, BarsOf(m))
  <2>1. f \in [m -> BarsOf(m)] /\ \A b \in BarsOf(m) : \E p \in m : f[p] = b
    BY DEF BarsOf
  <2>2. \A p, q \in m : f[p] = f[q] => p = q
    BY DEF Injective
  <2> HIDE DEF f
  <2> QED BY <2>1, <2>2 DEF Bijection, Injection, Surjection, IsInjective
<1>2. ExistsBijection(m, BarsOf(m))
  BY <1>1 DEF ExistsBijection
<1> QED BY <1>2, FS_Bijection

\* armor_predictor.cpp, AssociateLightbars: as many light bars as possible are matched, and
\* at the least cost, whatever the costs are.
LEMMA LightMatchIsBest ==
  ASSUME NEW lights, AreLights(lights), NEW bars, bars \subseteq Bar, NEW duplicates
  PROVE  LightMatch(lights, bars, duplicates)
           \in Best(lights, {m \in SUBSET Pairs(lights, (DOMAIN lights) \ duplicates, bars) :
                               Injective(m)})
<1> DEFINE n == Len(lights)
           IsIt(run) == run = [k \in 0 .. n |-> IF k = 0 THEN [used \in {{}} |-> {}]
                                  ELSE IF k \in duplicates THEN run[k - 1]
                                  ELSE Relax(lights, bars, k, run[k - 1])]
           run == CHOOSE run : IsIt(run)
           final == run[n]
           best == CHOOSE used \in DOMAIN final :
                     \A other \in DOMAIN final : ~Better(lights, final[other], final[used])
           M == MatchingsTo(lights, bars, duplicates, n)
<1>1. LightMatch(lights, bars, duplicates) = final[best]
  BY DEF LightMatch
<1>2. n \in Nat /\ DOMAIN lights = 1 .. n /\ n \in 0 .. Len(lights)
  BY DEF AreLights
<1>3. IsRun(run, lights, bars, duplicates, n)
  <2>1. \E r : IsIt(r)
    <3>1. \E r : IsRun(r, lights, bars, duplicates, n)
      BY <1>2, RunExists
    <3> QED BY <3>1 DEF IsRun
  <2>2. IsIt(run)
    <3> HIDE DEF IsIt
    <3> QED BY <2>1
  <2> HIDE DEF run
  <2> QED BY <2>2 DEF IsRun
<1> HIDE DEF run
<1>4. IsTable(final, lights, M)
  BY <1>3, RunIsOfTables
<1>5. \A m \in M : /\ Cost(lights, m) \in Nat /\ Cardinality(m) \in Nat
                   /\ Cardinality(BarsOf(m)) = Cardinality(m)
                   /\ Cardinality(m) <= Cardinality(Bar) /\ Cardinality(Bar) \in Nat
  <2> SUFFICES ASSUME NEW m \in M
               PROVE  /\ Cost(lights, m) \in Nat /\ Cardinality(m) \in Nat
                      /\ Cardinality(BarsOf(m)) = Cardinality(m)
                      /\ Cardinality(m) <= Cardinality(Bar) /\ Cardinality(Bar) \in Nat
    OBVIOUS
  <2>1. /\ m \subseteq Pairs(lights, DOMAIN lights, Bar)
        /\ Injective(m) /\ Cost(lights, m) \in Nat
    BY <1>2, MatchingsAreOfPairs
  <2>2. IsFiniteSet(m)
    BY <2>1, MatchingFacts
  <2>3. BarsOf(m) \subseteq Bar
    BY <2>1 DEF Pairs, BarsOf
  <2>4. Cardinality(BarsOf(m)) <= Cardinality(Bar)
    BY <2>3, BarsAreFew, FS_Subset
  <2> QED BY <2>1, <2>2, <2>4, AsManyBars, BarsAreFew, FS_CardinalityType
<1>6. M = {m \in SUBSET Pairs(lights, (DOMAIN lights) \ duplicates, bars) : Injective(m)}
  BY <1>2 DEF MatchingsTo
<1> HIDE DEF M, final, n
<1>7. \A used \in DOMAIN final : final[used] \in M /\ BarsOf(final[used]) = used
  BY <1>4 DEF IsTable
<1>8. \A m \in M : /\ BarsOf(m) \in DOMAIN final
                   /\ Cardinality(final[BarsOf(m)]) = Cardinality(m)
                   /\ Cost(lights, final[BarsOf(m)]) <= Cost(lights, m)
  <2> SUFFICES ASSUME NEW m \in M
               PROVE  /\ BarsOf(m) \in DOMAIN final
                      /\ Cardinality(final[BarsOf(m)]) = Cardinality(m)
                      /\ Cost(lights, final[BarsOf(m)]) <= Cost(lights, m)
    OBVIOUS
  <2>1. BarsOf(m) \in DOMAIN final /\ Cost(lights, final[BarsOf(m)]) <= Cost(lights, m)
    BY <1>4 DEF IsTable
  <2>2. final[BarsOf(m)] \in M /\ BarsOf(final[BarsOf(m)]) = BarsOf(m)
    BY <1>7, <2>1
  <2> QED BY <1>5, <2>1, <2>2
<1>9. M # {}
  <2>1. {} \in M
    BY DEF M, MatchingsTo, Injective
  <2> QED BY <2>1
<1>10. PICK m0 \in M : \A m \in M : Cardinality(m) <= Cardinality(m0)
  <2> DEFINE K == {Cardinality(Bar) - Cardinality(m) : m \in M}
  <2>1. K \subseteq Nat /\ K # {}
    BY <1>5, <1>9
  <2>2. PICK k \in K : \A j \in K : k <= j
    <3> HIDE DEF K
    <3> QED BY <2>1, FirstPlace
  <2>3. PICK m0 \in M : k = Cardinality(Bar) - Cardinality(m0)
    OBVIOUS
  <2>4. \A m \in M : k <= Cardinality(Bar) - Cardinality(m)
    BY <2>2
  <2>5. \A m \in M : Cardinality(m) <= Cardinality(m0)
    <3> HIDE DEF K
    <3> QED BY <1>5, <2>3, <2>4
  <2> QED BY <2>5
<1>11. PICK m1 \in M : /\ Cardinality(m1) = Cardinality(m0)
                       /\ \A m \in M : Cardinality(m) = Cardinality(m0) =>
                                         Cost(lights, m1) <= Cost(lights, m)
  <2> DEFINE C == {Cost(lights, m) : m \in {x \in M : Cardinality(x) = Cardinality(m0)}}
  <2>1. C \subseteq Nat /\ C # {}
    BY <1>5
  <2>2. PICK k \in C : \A j \in C : k <= j
    <3> HIDE DEF C
    <3> QED BY <2>1, FirstPlace
  <2> QED BY <2>2
<1>12. \A m \in M : ~Better(lights, m, m1)
  BY <1>5, <1>10, <1>11 DEF Better
<1>13. \E used \in DOMAIN final :
         \A other \in DOMAIN final : ~Better(lights, final[other], final[used])
  <2> DEFINE used == BarsOf(m1)
  <2>1. /\ used \in DOMAIN final /\ final[used] \in M
        /\ Cardinality(final[used]) = Cardinality(m1)
        /\ Cost(lights, final[used]) <= Cost(lights, m1)
    BY <1>7, <1>8
  <2> HIDE DEF used
  <2>2. \A m \in M : ~Better(lights, m, final[used])
    BY <1>5, <1>12, <2>1 DEF Better
  <2> QED BY <1>7, <2>1, <2>2
<1>14. /\ best \in DOMAIN final
       /\ \A other \in DOMAIN final : ~Better(lights, final[other], final[best])
  BY <1>13
<1> HIDE DEF best
<1>15. \A m \in M : ~Better(lights, m, final[best])
  <2> SUFFICES ASSUME NEW m \in M, Better(lights, m, final[best]) PROVE FALSE
    OBVIOUS
  <2> DEFINE o == final[BarsOf(m)]
  <2>1. /\ BarsOf(m) \in DOMAIN final /\ o \in M /\ Cardinality(o) = Cardinality(m)
        /\ Cost(lights, o) <= Cost(lights, m)
    BY <1>7, <1>8
  <2>2. ~Better(lights, o, final[best]) /\ final[best] \in M
    BY <1>7, <1>14, <2>1
  <2> HIDE DEF o
  <2> QED BY <1>5, <2>1, <2>2 DEF Better
<1> QED BY <1>1, <1>6, <1>7, <1>14, <1>15 DEF Best

-----------------------------------------------------------------------------
(* The light bars of a track. *)

\* What was associated last is what the frame offered, for the armours it was matched.
LastInv ==
  \A l \in last : l.in \in Inputs /\ l.match = Measured(l.in, l.match.armors)

LEMMA InputsHaveLights ==
  ASSUME NEW in \in Inputs
  PROVE  AreLights(in.lights)
<1>1. IsInput(in)
  BY TrackerAssumption
<1>2. in.lights \in Seq({in.lights[i] : i \in DOMAIN in.lights})
  BY <1>1 DEF IsInput
<1>3. Len(in.lights) \in Nat /\ DOMAIN in.lights = 1 .. Len(in.lights)
  BY <1>2
<1>4. \A i \in DOMAIN in.lights : IsLight(in.lights[i], in.armors)
  BY <1>1 DEF IsInput
<1> QED BY <1>3, <1>4 DEF AreLights, IsLight

\* What the last frame matched was measured from it.
LEMMA LastIsMeasured == Spec => []LastInv
<1>1. Init => LastInv
  BY DEF Init, NoMatch, LastInv
<1>2. LastInv /\ [Next]_vars => LastInv'
  <2>1. CASE UNCHANGED vars
    BY <2>1 DEF vars, LastInv
  <2>2. ASSUME NEW in \in Inputs, ProcessFrame(in)
        PROVE  LastInv'
    <3>1. CASE Reject(in) \/ Diverge(in) \/ Search(in) \/ Acquire(in)
      <4>1. last' = {}
        BY <3>1 DEF Reject, Diverge, Search, Acquire, NoMatch
      <4> QED BY <4>1 DEF LastInv
    <3>2. CASE Follow(in)
      <4>1. PICK armors, found :
              last' = {[in |-> in, match |-> Measured(in, armors), found |-> found]}
        BY <3>2 DEF Follow
      <4> DEFINE m == Measured(in, armors)
      <4>2. m.armors = armors
        BY DEF Measured
      <4> HIDE DEF m
      <4>3. last' = {[in |-> in, match |-> m, found |-> found]}
        BY <4>1 DEF m
      <4>4. ASSUME NEW l \in last' PROVE l.in = in /\ l.match = m
        BY <4>3
      <4>5. m = Measured(in, m.armors)
        BY <4>2 DEF m
      <4> QED BY <4>4, <4>5 DEF LastInv
    <3> QED BY <2>2, <3>1, <3>2 DEF ProcessFrame
  <2> QED BY <2>1, <2>2 DEF Next
<1> QED BY <1>1, <1>2, PTL DEF Spec

\* armor_predictor.cpp, AssociateLightbars: no bar of the vehicle is used twice in a frame,
\* and the light bars are matched to as many bars as possible at the least cost.
THEOREM LightsAreMatchedBest == Spec => []LightsAreMatched
<1>1. LastInv => LightsAreMatched
  <2> SUFFICES ASSUME LastInv PROVE BarsAreMeasuredOnce /\ LightMatchIsOptimal
    BY DEF LightsAreMatched
  <2>1. ASSUME NEW l \in last
        PROVE  LET in == l.in
                   bars == FreeBars(in.visible, l.match.armors)
                   rows == DOMAIN in.lights \ Duplicates(in.lights, l.match.armors)
                   pairs == {p \in rows \X bars : p[2] \in DOMAIN in.lights[p[1]].cost}
               IN /\ l.match.lights \in Best(in.lights, {m \in SUBSET pairs : Injective(m)})
                  /\ l.match.used \subseteq l.match.lights
    <3> DEFINE in == l.in
               armors == l.match.armors
               bars == FreeBars(in.visible, armors)
               rows == DOMAIN in.lights \ Duplicates(in.lights, armors)
               pairs == {p \in rows \X bars : p[2] \in DOMAIN in.lights[p[1]].cost}
    <3>1. in \in Inputs /\ l.match = Measured(in, armors)
      BY DEF LastInv
    <3>2. AreLights(in.lights)
      BY <3>1, InputsHaveLights
    <3>3. in.visible \subseteq Slots
      BY <3>1, TrackerAssumption DEF IsInput
    <3>4. bars \subseteq Bar
      BY <3>3 DEF FreeBars, Bar
    <3>5. l.match.lights = LightMatch(in.lights, bars, Duplicates(in.lights, armors))
      BY <3>1 DEF Measured, AssociateLightbars
    <3>6. l.match.used \subseteq l.match.lights
      <4> DEFINE lights == AssociateLightbars(in.lights, in.visible, armors)
      <4>1. l.match.lights = lights
        BY <3>1 DEF Measured
      <4>2. l.match.used = lights \/ l.match.used = SelectLightOnlyPairs(lights)
        BY <3>1 DEF Measured
      <4>3. SelectLightOnlyPairs(lights) \subseteq lights
        BY DEF SelectLightOnlyPairs
      <4> HIDE DEF lights
      <4> QED BY <4>1, <4>2, <4>3
    <3>7. Pairs(in.lights, rows, bars) = pairs
      BY DEF Pairs
    <3> HIDE DEF bars, in, armors
    <3>8. l.match.lights \in Best(in.lights, {m \in SUBSET Pairs(in.lights, rows, bars) : Injective(m)})
      BY <3>2, <3>4, <3>5, LightMatchIsBest
    <3> QED BY <3>6, <3>7, <3>8 DEF bars, in, armors
  <2>2. LightMatchIsOptimal
    BY <2>1 DEF LightMatchIsOptimal
  <2>3. BarsAreMeasuredOnce
    <3> SUFFICES ASSUME NEW l \in last, NEW p \in l.match.used
                 PROVE  /\ p[2] \notin Occupied(l.match.armors)
                        /\ \A q \in l.match.used : p # q => p[2] # q[2]
      BY DEF BarsAreMeasuredOnce
    <3> DEFINE bars == FreeBars(l.in.visible, l.match.armors)
    <3>1. /\ l.match.used \subseteq l.match.lights /\ Injective(l.match.lights)
          /\ \A q \in l.match.lights : q[2] \in bars
      BY <2>1 DEF Best
    <3>2. bars \cap Occupied(l.match.armors) = {}
      BY DEF FreeBars
    <3> HIDE DEF bars
    <3> QED BY <3>1, <3>2 DEF Injective
  <2> QED BY <2>2, <2>3
<1> QED BY <1>1, LastIsMeasured, PTL

-----------------------------------------------------------------------------
(* The assignment of detections to true armours: the inductive invariant. *)

CONSTANTS
  \* TruthMatching's
  MaxRows, MaxTruths, Prices

VARIABLES problem, duals, rowOf, way, search

Truth == INSTANCE TruthMatching WITH p <- rowOf

\* What is left of the cost of a pair above the potentials of its row and column.
Reduced(r, c) == Truth!CostOf(r, c) - duals.u[r] - duals.v[c]

\* The problem, the potentials, the places of rows and the search are well typed.
TruthTypeInv ==
  /\ problem \in Truth!Problems
  /\ duals \in [u : [Truth!Rows -> Int], v : [Truth!Reached -> Int]]
  /\ rowOf \in [Truth!Reached -> 0 .. problem.rows] /\ way \in [Truth!Reached -> Truth!Reached]
  /\ search \in [pc : {"ROW", "DONE"}, row : Nat] \cup
                [pc : {"ROW", "GROW", "FLIP", "DONE"}, row : Nat, column : Truth!Reached,
                 used : SUBSET Truth!Reached, min : [Truth!Columns -> Int]]

\* The columns of S hold the first k rows, each once, where nothing is left of their cost.
Placed(S, k) ==
  /\ \A c, d \in S : rowOf[c] = rowOf[d] /\ rowOf[c] # 0 => c = d
  /\ \A c \in S : rowOf[c] <= k
  /\ \A r \in 1 .. k : \E c \in S : rowOf[c] = r
  /\ \A c \in S \ {0} : rowOf[c] # 0 => Reduced(rowOf[c], c) = 0

\* No pair costs less than its potentials, rows that were not looked at and
\* free columns have none.
PotentialsInv ==
  /\ \A r \in Truth!Rows, c \in Truth!Columns : Reduced(r, c) >= 0
  /\ \A r \in Truth!Rows : duals.u[r] >= 0 /\ (r > search.row => duals.u[r] = 0)
  /\ \A c \in Truth!Columns : duals.v[c] <= 0 /\ (rowOf[c] = 0 => duals.v[c] = 0)

\* Between two rows all those before are placed.
RowInv ==
  search.pc \in {"ROW", "DONE"} =>
    /\ search.row \in 1 .. problem.rows + 1
    /\ Placed(Truth!Columns, search.row - 1)
    /\ search.row \in Truth!Rows => duals.u[search.row] = 0
    /\ search.pc = "DONE" => search.row = problem.rows + 1

\* The columns of the tree and the one that is next.
Tree == search.used \cup {search.column}

\* The columns lead back to column 0 by ways on which nothing is left of the cost, where
\* the column is as near to it as `limit` says.
Leads(rank, limit) ==
  \A c \in Tree \ {0} :
    /\ way[c] \in search.used /\ rank[way[c]] < rank[c]
    /\ rank[c] <= limit => Reduced(rowOf[way[c]], c) = 0

\* An open column has the least that is left for a row of the tree, if it heard of one.
MinInv ==
  \A c \in Truth!Columns \ Tree :
    /\ \A d \in search.used : search.min[c] <= Reduced(rowOf[d], c)
    /\ \/ way[c] \in search.used /\ search.min[c] = Reduced(rowOf[way[c]], c)
       \/ search.min[c] = Truth!Infinity - duals.u[search.row]

\* While the tree grows all its columns are taken, and the rows before this one are placed.
GrowInv ==
  search.pc = "GROW" =>
    /\ search.row \in Truth!Rows /\ rowOf[0] = search.row /\ Placed(Truth!Columns, search.row - 1)
    /\ \A c \in Tree : rowOf[c] # 0
    /\ 0 \in Tree /\ search.column \notin search.used
    /\ \E rank \in [Truth!Reached -> Nat] : \A limit \in Nat : Leads(rank, limit)
    /\ MinInv

\* While the path is walked back only its first column lacks a row of its own: to give it the
\* row of the column before costs nothing that is left.
FlipInv ==
  search.pc = "FLIP" =>
    /\ search.row \in Truth!Rows /\ search.column \in Truth!Columns /\ 0 \in search.used
    /\ \A c \in search.used : rowOf[c] # 0
    /\ Placed(Truth!Reached \ {search.column}, search.row)
    /\ \E rank \in [Truth!Reached -> Nat] : Leads(rank, rank[search.column])

\* The inductive invariant.
TruthInv == TruthTypeInv /\ PotentialsInv /\ RowInv /\ GrowInv /\ FlipInv

\* The costs of the problem are natural numbers.
TruthBounds == MaxRows \in Nat /\ MaxTruths \in Nat /\ Prices \subseteq Nat

-----------------------------------------------------------------------------
(* Costs, and what is left of them. *)

\* Rows and columns are finitely many.
LEMMA IndicesAreCounted ==
  ASSUME NEW n \in Nat
  PROVE  IsFiniteSet(1 .. n) /\ Cardinality(1 .. n) = n
<1>1. 1 \in Int /\ n \in Int
  OBVIOUS
<1>2. IsFiniteSet(1 .. n) /\ Cardinality(1 .. n) = IF 1 > n THEN 0 ELSE n - 1 + 1
  BY <1>1, FS_Interval, SMTT(60)
<1> QED BY <1>2

LEMMA ProblemFacts ==
  ASSUME TruthBounds, problem \in Truth!Problems
  PROVE  /\ problem.rows \in Nat /\ problem.rows > 0
         /\ problem.truths \in Nat /\ problem.truths > 0
         /\ problem.cost \in [Truth!Rows \X (1 .. problem.truths) -> Nat]
<1> DEFINE Of(r, t) == [rows : {r}, truths : {t},
                        cost : [(1 .. r) \X (1 .. t) -> Prices \cup {Truth!Forbidden}]]
<1>1. PICK r \in 1 .. MaxRows, t \in 1 .. MaxTruths : problem \in Of(r, t)
  <2>1. Truth!Problems = UNION {Of(r, t) : r \in 1 .. MaxRows, t \in 1 .. MaxTruths}
    BY DEF Truth!Problems
  <2> HIDE DEF Of
  <2> QED BY <2>1
<1>2. problem.rows = r /\ problem.truths = t
  BY <1>1
<1>3. problem.cost \in [(1 .. r) \X (1 .. t) -> Prices \cup {Truth!Forbidden}]
  BY <1>1
<1>4. Prices \cup {Truth!Forbidden} \subseteq Nat
  BY DEF TruthBounds, Truth!Forbidden
<1>5. problem.cost \in [(1 .. r) \X (1 .. t) -> Nat]
  BY <1>3, <1>4
<1>6. r \in Nat /\ r > 0 /\ t \in Nat /\ t > 0
  BY DEF TruthBounds
<1> QED BY <1>2, <1>5, <1>6 DEF Truth!Rows

LEMMA ColumnFacts ==
  ASSUME TruthBounds, problem \in Truth!Problems
  PROVE  /\ IsFiniteSet(Truth!Rows) /\ Cardinality(Truth!Rows) = problem.rows
         /\ IsFiniteSet(Truth!Columns) /\ IsFiniteSet(Truth!Reached)
         /\ Truth!Columns \subseteq Nat /\ 0 \notin Truth!Columns
         /\ Truth!Reached = Truth!Columns \cup {0}
         /\ Truth!Rows \subseteq Nat /\ 0 \notin Truth!Rows
         /\ \A r \in Truth!Rows : problem.truths + r \in Truth!Columns
<1>1. /\ problem.rows \in Nat /\ problem.truths \in Nat
      /\ problem.truths + problem.rows \in Nat
  BY ProblemFacts
<1>2. IsFiniteSet(Truth!Rows) /\ Cardinality(Truth!Rows) = problem.rows
  BY <1>1, IndicesAreCounted DEF Truth!Rows
<1>3. IsFiniteSet(Truth!Columns)
  BY <1>1, IndicesAreCounted DEF Truth!Columns
<1>4. IsFiniteSet(Truth!Reached)
  <2>1. Truth!Reached = Truth!Columns \cup {0}
    BY DEF Truth!Reached
  <2> QED BY <1>3, <2>1, FS_AddElement
<1>5. /\ Truth!Columns \subseteq Nat /\ 0 \notin Truth!Columns /\ Truth!Reached = Truth!Columns \cup {0}
      /\ Truth!Rows \subseteq Nat /\ 0 \notin Truth!Rows
      /\ \A r \in Truth!Rows : problem.truths + r \in Truth!Columns
  BY <1>1 DEF Truth!Columns, Truth!Reached, Truth!Rows
<1> QED BY <1>2, <1>3, <1>4, <1>5

\* Every pair of a row and a column has a cost.
LEMMA CostIsNat ==
  ASSUME TruthBounds, problem \in Truth!Problems, NEW r \in Truth!Rows, NEW c \in Truth!Columns
  PROVE  /\ Truth!CostOf(r, c) \in Nat
         /\ c > problem.truths => Truth!CostOf(r, c) = 10
         /\ c <= problem.truths => Truth!CostOf(r, c) = problem.cost[<<r, c>>]
<1>1. /\ problem.truths \in Nat /\ problem.rows \in Nat
      /\ problem.cost \in [Truth!Rows \X (1 .. problem.truths) -> Nat]
  BY ProblemFacts
<1>2. c \in Nat /\ c >= 1
  BY <1>1 DEF Truth!Columns
<1>3. CASE c <= problem.truths
  <2>1. Truth!CostOf(r, c) = problem.cost[<<r, c>>]
    BY <1>3 DEF Truth!CostOf
  <2>2. <<r, c>> \in Truth!Rows \X (1 .. problem.truths)
    BY <1>1, <1>2, <1>3
  <2>3. problem.cost[<<r, c>>] \in Nat
    BY <1>1, <2>2
  <2> QED BY <1>1, <1>2, <1>3, <2>1, <2>3
<1>4. CASE ~(c <= problem.truths)
  BY <1>1, <1>2, <1>4 DEF Truth!CostOf, Truth!Unmatched
<1> QED BY <1>3, <1>4

LEMMA ReducedIsInt ==
  ASSUME TruthBounds, TruthTypeInv, NEW r \in Truth!Rows, NEW c \in Truth!Columns
  PROVE  /\ Reduced(r, c) \in Int /\ duals.u[r] \in Int /\ duals.v[c] \in Int
         /\ Truth!CostOf(r, c) \in Nat
         /\ Reduced(r, c) = Truth!CostOf(r, c) - duals.u[r] - duals.v[c]
<1>1. Truth!CostOf(r, c) \in Nat
  BY CostIsNat DEF TruthTypeInv
<1>2. duals \in [u : [Truth!Rows -> Int], v : [Truth!Reached -> Int]] /\ c \in Truth!Reached
  BY DEF TruthTypeInv, Truth!Reached
<1>3. duals.u[r] \in Int /\ duals.v[c] \in Int
  BY <1>2
<1> QED BY <1>1, <1>3 DEF Reduced

-----------------------------------------------------------------------------
(* The first state. *)

LEMMA MatchingInit ==
  ASSUME TruthBounds
  PROVE  Truth!Init => TruthInv
<1> SUFFICES ASSUME Truth!Init PROVE TruthInv
  OBVIOUS
<1>1. /\ problem.rows \in Nat /\ problem.rows > 0
      /\ Truth!Columns \subseteq Nat /\ 0 \notin Truth!Columns /\ Truth!Reached = Truth!Columns \cup {0}
      /\ Truth!Rows = 1 .. problem.rows
  BY ProblemFacts, ColumnFacts DEF Truth!Init, Truth!Rows
<1>2. /\ problem \in Truth!Problems
      /\ duals = [u |-> [r \in Truth!Rows |-> 0], v |-> [c \in Truth!Reached |-> 0]]
      /\ rowOf = [c \in Truth!Reached |-> 0] /\ way = [c \in Truth!Reached |-> 0]
      /\ search = [pc |-> "ROW", row |-> 1]
  BY DEF Truth!Init
<1>3. TruthTypeInv
  <2>1. /\ duals \in [u : [Truth!Rows -> Int], v : [Truth!Reached -> Int]]
        /\ rowOf \in [Truth!Reached -> 0 .. problem.rows] /\ way \in [Truth!Reached -> Truth!Reached]
    BY <1>1, <1>2
  <2>2. search \in [pc : {"ROW", "DONE"}, row : Nat]
    BY <1>2
  <2> QED BY <1>2, <2>1, <2>2 DEF TruthTypeInv
<1>4. PotentialsInv
  <2>1. ASSUME NEW r \in Truth!Rows, NEW c \in Truth!Columns PROVE Reduced(r, c) >= 0
    <3>1. duals.u[r] = 0 /\ duals.v[c] = 0
      BY <1>1, <1>2
    <3>2. Truth!CostOf(r, c) \in Nat
      BY <1>2, CostIsNat
    <3> QED BY <3>1, <3>2 DEF Reduced
  <2>2. /\ \A r \in Truth!Rows : duals.u[r] = 0
        /\ \A c \in Truth!Columns : duals.v[c] = 0
    BY <1>1, <1>2
  <2> QED BY <2>1, <2>2 DEF PotentialsInv
<1>5. RowInv
  <2>1. \A c \in Truth!Columns : rowOf[c] = 0
    BY <1>1, <1>2
  <2>2. search.row = 1 /\ search.pc = "ROW"
    BY <1>2
  <2>3. Placed(Truth!Columns, search.row - 1)
    BY <1>1, <2>1, <2>2 DEF Placed
  <2>4. search.row \in Truth!Rows => duals.u[search.row] = 0
    BY <1>2
  <2> QED BY <1>1, <2>2, <2>3, <2>4 DEF RowInv
<1>6. GrowInv /\ FlipInv
  BY <1>2 DEF GrowInv, FlipInv
<1> QED BY <1>3, <1>4, <1>5, <1>6 DEF TruthInv

\* Only the search for a place, or its row, changes.
LEMMA StartRowKeepsInv ==
  ASSUME TruthBounds, TruthInv, Truth!StartRow
  PROVE  TruthInv'
<1>1. /\ search.pc = "ROW" /\ UNCHANGED <<problem, duals, way>>
      /\ IF search.row > problem.rows
         THEN search' = [search EXCEPT !.pc = "DONE"] /\ UNCHANGED rowOf
         ELSE search' = Truth!Begin(search.row) /\ rowOf' = [rowOf EXCEPT ![0] = search.row]
  BY DEF Truth!StartRow
<1>2. /\ problem.rows \in Nat /\ problem.rows > 0
      /\ Truth!Columns \subseteq Nat /\ 0 \notin Truth!Columns /\ Truth!Reached = Truth!Columns \cup {0}
      /\ Truth!Rows = 1 .. problem.rows
  BY ProblemFacts, ColumnFacts DEF TruthInv, TruthTypeInv, Truth!Rows
<1>3. /\ search.row \in 1 .. problem.rows + 1
      /\ Placed(Truth!Columns, search.row - 1)
      /\ search.row \in Truth!Rows => duals.u[search.row] = 0
  BY <1>1 DEF TruthInv, RowInv
<1>4. Truth!Rows' = Truth!Rows /\ Truth!Columns' = Truth!Columns /\ Truth!Reached' = Truth!Reached
  BY <1>1 DEF Truth!Rows, Truth!Columns, Truth!Reached
<1>5. \A r, c : Reduced(r, c)' = Reduced(r, c)
  BY <1>1 DEF Reduced, Truth!CostOf
<1>6. CASE search.row > problem.rows
  <2>1. search' = [search EXCEPT !.pc = "DONE"] /\ UNCHANGED rowOf
    BY <1>1, <1>6
  <2>2. /\ TruthTypeInv' /\ search'.pc = "DONE" /\ search'.row = search.row
    <3>1. /\ search \in [pc : {"ROW", "DONE"}, row : Nat] \cup
                [pc : {"ROW", "GROW", "FLIP", "DONE"}, row : Nat, column : Truth!Reached,
                 used : SUBSET Truth!Reached, min : [Truth!Columns -> Int]]
      BY DEF TruthInv, TruthTypeInv
    <3>2. CASE search \in [pc : {"ROW", "DONE"}, row : Nat]
      <4>1. /\ search' \in [pc : {"ROW", "DONE"}, row : Nat]
            /\ search'.pc = "DONE" /\ search'.row = search.row
        BY <2>1, <3>2
      <4> QED BY <1>1, <1>4, <2>1, <4>1 DEF TruthInv, TruthTypeInv
    <3>3. CASE search \in
                [pc : {"ROW", "GROW", "FLIP", "DONE"}, row : Nat, column : Truth!Reached,
                 used : SUBSET Truth!Reached, min : [Truth!Columns -> Int]]
      <4>1. /\ search' \in
                [pc : {"ROW", "GROW", "FLIP", "DONE"}, row : Nat, column : Truth!Reached,
                 used : SUBSET Truth!Reached, min : [Truth!Columns -> Int]]
            /\ search'.pc = "DONE" /\ search'.row = search.row
        BY <2>1, <3>3
      <4> QED BY <1>1, <1>4, <2>1, <4>1 DEF TruthInv, TruthTypeInv
    <3> QED BY <3>1, <3>2, <3>3
  <2>3. PotentialsInv'
    BY <1>1, <1>4, <1>5, <2>1, <2>2 DEF TruthInv, PotentialsInv
  <2>4. Placed(Truth!Columns, search.row - 1)'
    BY <1>3, <1>4, <1>5, <2>1, <2>2 DEF Placed
  <2>5. search.row = problem.rows + 1
    BY <1>2, <1>3, <1>6
  <2>6. RowInv'
    BY <1>1, <1>2, <1>3, <1>4, <2>2, <2>4, <2>5 DEF RowInv
  <2>7. GrowInv' /\ FlipInv'
    BY <2>2 DEF GrowInv, FlipInv
  <2> QED BY <2>2, <2>3, <2>6, <2>7 DEF TruthInv
<1>7. CASE ~(search.row > problem.rows)
  <2>1. search' = Truth!Begin(search.row) /\ rowOf' = [rowOf EXCEPT ![0] = search.row]
    BY <1>1, <1>7
  <2>2. search.row \in Truth!Rows
    BY <1>2, <1>3, <1>7
  <2>3. /\ search' = [pc |-> "GROW", row |-> search.row, column |-> 0, used |-> {},
                      min |-> [c \in Truth!Columns |-> Truth!Infinity]]
    BY <2>1 DEF Truth!Begin
  <2>4. /\ search'.pc = "GROW" /\ search'.row = search.row /\ search'.column = 0
        /\ search'.used = {} /\ \A c \in Truth!Columns : search'.min[c] = Truth!Infinity
    BY <2>3
  <2>5. rowOf \in [Truth!Reached -> 0 .. problem.rows]
    BY DEF TruthInv, TruthTypeInv
  <2>6. /\ rowOf'[0] = search.row /\ \A c \in Truth!Columns : rowOf'[c] = rowOf[c]
        /\ rowOf' \in [Truth!Reached -> 0 .. problem.rows]
    BY <1>2, <2>1, <2>2, <2>5
  <2>7. TruthTypeInv'
    <3>1. search' \in
            [pc : {"ROW", "GROW", "FLIP", "DONE"}, row : Nat, column : Truth!Reached,
             used : SUBSET Truth!Reached, min : [Truth!Columns -> Int]]
      BY <1>2, <2>2, <2>3 DEF Truth!Infinity
    <3> QED BY <1>1, <1>4, <2>6, <3>1 DEF TruthInv, TruthTypeInv
  <2>8. PotentialsInv'
    BY <1>1, <1>4, <1>5, <2>4, <2>6 DEF TruthInv, PotentialsInv
  <2>9. Placed(Truth!Columns, search.row - 1)'
    <3> USE DEF Placed
    <3>1. Placed(Truth!Columns, search.row - 1)
      BY <1>3
    <3>2. Truth!Columns \ {0} = Truth!Columns
      BY <1>2
    <3> QED BY <1>4, <1>5, <2>4, <2>6, <3>1, <3>2
  <2>10. GrowInv'
    <3>1. Tree' = {0}
      BY <2>4 DEF Tree
    <3>2. \A c \in Tree' : rowOf'[c] # 0
      BY <1>2, <2>2, <2>6, <3>1
    <3>3. \E rank \in [Truth!Reached' -> Nat] : (\A limit \in Nat : Leads(rank, limit))'
      <4> DEFINE zero == [c \in Truth!Reached |-> 0]
      <4>1. zero \in [Truth!Reached' -> Nat]
        BY <1>4
      <4>2. (\A limit \in Nat : Leads(zero, limit))'
        BY <3>1 DEF Leads
      <4> QED BY <4>1, <4>2
    <3>4. MinInv'
      <4>1. duals'.u[search'.row] = 0
        BY <1>1, <1>3, <2>2, <2>4
      <4>2. \A c \in Truth!Columns : search'.min[c] = Truth!Infinity - duals'.u[search'.row]
        BY <2>4, <4>1 DEF Truth!Infinity
      <4> QED BY <1>4, <2>4, <4>2 DEF MinInv
    <3> QED BY <1>4, <2>2, <2>4, <2>6, <2>9, <3>1, <3>2, <3>3, <3>4 DEF GrowInv
  <2>11. RowInv' /\ FlipInv'
    BY <2>4 DEF RowInv, FlipInv
  <2> QED BY <2>7, <2>8, <2>10, <2>11 DEF TruthInv
<1> QED BY <1>6, <1>7

-----------------------------------------------------------------------------
(* One turn of the inner loop. *)

Open == Truth!Columns \ Tree
Current(c) == Reduced(rowOf[search.column], c)
Closer == {c \in Open : Current(c) < search.min[c]}
Heard == [c \in Truth!Columns |-> IF c \in Closer THEN Current(c) ELSE search.min[c]]
From(c) == IF c \in Closer THEN search.column ELSE way[c]
Near == Truth!Nearest(Heard, Open)

\* The turn in these terms.
LEMMA GrowIs ==
  ASSUME Truth!Grow
  PROVE  /\ search.pc = "GROW" /\ UNCHANGED <<problem, rowOf>>
         /\ way' = [c \in Truth!Reached |-> From(c)]
         /\ duals' = Truth!Lowered(Tree, Heard[Near])
         /\ search' = [search EXCEPT
              !.pc = IF rowOf[Near] = 0 THEN "FLIP" ELSE "GROW",
              !.used = Tree, !.column = Near,
              !.min = [c \in Truth!Columns |-> IF c \in Open THEN Heard[c] - Heard[Near] ELSE Heard[c]]]
<1> DEFINE row == rowOf[search.column]
           current == [c \in Open |-> Truth!CostOf(row, c) - duals.u[row] - duals.v[c]]
           closer == {c \in Open : current[c] < search.min[c]}
           min == [c \in Truth!Columns |-> IF c \in closer THEN current[c] ELSE search.min[c]]
           next == Truth!Nearest(min, Open)
<1>1. /\ search.pc = "GROW" /\ UNCHANGED <<problem, rowOf>>
      /\ way' = [c \in Truth!Reached |-> IF c \in closer THEN search.column ELSE way[c]]
      /\ duals' = Truth!Lowered(Tree, min[next])
      /\ search' = [search EXCEPT
              !.pc = IF rowOf[next] = 0 THEN "FLIP" ELSE "GROW",
              !.used = Tree, !.column = next,
              !.min = [c \in Truth!Columns |-> IF c \in Open THEN min[c] - min[next] ELSE min[c]]]
  BY DEF Truth!Grow, Tree, Open
<1>2. \A c \in Open : current[c] = Current(c)
  BY DEF Current, Reduced
<1> HIDE DEF current
<1>3. closer = Closer
  BY <1>2 DEF Closer
<1> HIDE DEF closer
<1>4. \A c \in closer : c \in Open
  BY <1>3 DEF Closer
<1>5. min = Heard
  BY <1>2, <1>3, <1>4 DEF Heard
<1> HIDE DEF min
<1> USE <1>5
<1>6. next = Near
  BY DEF Near
<1> HIDE DEF next
<1>7. way' = [c \in Truth!Reached |-> From(c)]
  BY <1>1, <1>3 DEF From
<1> QED BY <1>1, <1>5, <1>6, <1>7

\* Rows of the tree are rows, and its columns were reached.
LEMMA TreeFacts ==
  ASSUME TruthBounds, TruthInv, search.pc = "GROW"
  PROVE  /\ search \in [pc : {"ROW", "GROW", "FLIP", "DONE"}, row : Nat, column : Truth!Reached,
                        used : SUBSET Truth!Reached, min : [Truth!Columns -> Int]]
         /\ Tree \subseteq Truth!Reached /\ 0 \in Tree /\ search.column \in Tree
         /\ search.used \subseteq Tree
         /\ Open \subseteq Truth!Columns
         /\ \A c \in Tree : rowOf[c] \in Truth!Rows
         /\ \A c \in Truth!Columns : search.min[c] \in Int
         /\ search.row \in Truth!Rows /\ rowOf[0] = search.row
<1>1. /\ search \in [pc : {"ROW", "DONE"}, row : Nat] \cup
                [pc : {"ROW", "GROW", "FLIP", "DONE"}, row : Nat, column : Truth!Reached,
                 used : SUBSET Truth!Reached, min : [Truth!Columns -> Int]]
      /\ rowOf \in [Truth!Reached -> 0 .. problem.rows]
  BY DEF TruthInv, TruthTypeInv
<1>2. search \notin [pc : {"ROW", "DONE"}, row : Nat]
  <2> SUFFICES ASSUME search \in [pc : {"ROW", "DONE"}, row : Nat] PROVE FALSE
    OBVIOUS
  <2>1. search.pc \in {"ROW", "DONE"}
    OBVIOUS
  <2> QED BY <2>1
<1>3. search \in [pc : {"ROW", "GROW", "FLIP", "DONE"}, row : Nat, column : Truth!Reached,
                 used : SUBSET Truth!Reached, min : [Truth!Columns -> Int]]
  BY <1>1, <1>2
<1>4. /\ search.column \in Truth!Reached /\ search.used \subseteq Truth!Reached
      /\ search.min \in [Truth!Columns -> Int]
  BY <1>3
<1>5. Tree \subseteq Truth!Reached /\ search.column \in Tree /\ search.used \subseteq Tree
  BY <1>4 DEF Tree
<1>6. /\ \A c \in Tree : rowOf[c] # 0
      /\ 0 \in Tree /\ search.row \in Truth!Rows /\ rowOf[0] = search.row
  BY DEF TruthInv, GrowInv
<1>7. \A c \in Tree : rowOf[c] \in Truth!Rows
  <2> SUFFICES ASSUME NEW c \in Tree PROVE rowOf[c] \in Truth!Rows
    OBVIOUS
  <2>1. rowOf[c] \in 0 .. problem.rows /\ rowOf[c] # 0
    BY <1>1, <1>5, <1>6
  <2>2. problem.rows \in Nat
    BY ProblemFacts DEF TruthInv, TruthTypeInv
  <2> QED BY <2>1, <2>2 DEF Truth!Rows
<1>8. Open \subseteq Truth!Columns
  BY DEF Open
<1>9. \A c \in Truth!Columns : search.min[c] \in Int
  BY <1>4
<1> QED BY <1>3, <1>5, <1>6, <1>7, <1>8, <1>9

\* More columns are its rows' own than rows are placed: one of them is open.
LEMMA OneIsFree ==
  ASSUME TruthBounds, TruthInv, search.pc = "GROW"
  PROVE  \E c \in Open : rowOf[c] = 0 /\ \A r \in Truth!Rows : Truth!CostOf(r, c) = 10
<1>1. /\ problem \in Truth!Problems /\ problem.rows \in Nat /\ problem.truths \in Nat
      /\ Truth!Rows = 1 .. problem.rows /\ problem.truths > 0
  BY ProblemFacts DEF TruthInv, TruthTypeInv, Truth!Rows
<1>2. /\ IsFiniteSet(Truth!Rows) /\ Cardinality(Truth!Rows) = problem.rows
      /\ \A r \in Truth!Rows : problem.truths + r \in Truth!Columns
      /\ Truth!Columns \subseteq Nat
  BY <1>1, ColumnFacts
<1>3. /\ search.row \in Truth!Rows /\ Placed(Truth!Columns, search.row - 1)
      /\ \A c \in Tree : rowOf[c] # 0
  BY DEF TruthInv, GrowInv
<1>4. PICK r \in Truth!Rows : rowOf[problem.truths + r] = 0
  <2> SUFFICES ASSUME \A r \in Truth!Rows : rowOf[problem.truths + r] # 0 PROVE FALSE
    OBVIOUS
  <2> DEFINE f == [r \in Truth!Rows |-> rowOf[problem.truths + r]]
             T == 1 .. search.row - 1
  <2>1. search.row - 1 \in Nat /\ search.row - 1 < problem.rows
    BY <1>1, <1>3
  <2>2. IsFiniteSet(T) /\ Cardinality(T) = search.row - 1
    BY <2>1, IndicesAreCounted
  <2>3. f \in [Truth!Rows -> T]
    <3> SUFFICES ASSUME NEW r \in Truth!Rows PROVE rowOf[problem.truths + r] \in T
      OBVIOUS
    <3>1. problem.truths + r \in Truth!Columns /\ problem.truths + r \in Truth!Reached
      BY <1>2 DEF Truth!Reached
    <3>2. rowOf[problem.truths + r] \in 0 .. problem.rows
      BY <3>1 DEF TruthInv, TruthTypeInv
    <3>3. rowOf[problem.truths + r] <= search.row - 1
      BY <1>3, <3>1 DEF Placed
    <3>4. rowOf[problem.truths + r] # 0
      OBVIOUS
    <3> HIDE DEF f
    <3> QED BY <1>1, <2>1, <3>2, <3>3, <3>4
  <2> HIDE DEF f, T
  <2>4. PICK x, y \in Truth!Rows : x # y /\ f[x] = f[y]
    BY <1>2, <2>1, <2>2, <2>3, FS_PigeonHole
  <2>5. rowOf[problem.truths + x] = rowOf[problem.truths + y] /\ rowOf[problem.truths + x] # 0
    BY <2>4 DEF f
  <2>6. problem.truths + x = problem.truths + y
    BY <1>2, <1>3, <2>5 DEF Placed
  <2> QED BY <1>1, <2>4, <2>6
<1> DEFINE c == problem.truths + r
<1>5. c \in Truth!Columns /\ c > problem.truths
  BY <1>1, <1>2
<1>6. c \in Open
  BY <1>3, <1>4, <1>5 DEF Open
<1>7. \A k \in Truth!Rows : Truth!CostOf(k, c) = 10
  BY <1>1, <1>5, CostIsNat
<1> QED BY <1>4, <1>6, <1>7

\* What the open columns heard, with the row of the column that is next.
LEMMA HeardFacts ==
  ASSUME TruthBounds, TruthInv, search.pc = "GROW", NEW c \in Open
  PROVE  /\ c \in Truth!Columns /\ Heard[c] \in Nat
         /\ \A d \in Tree : Heard[c] <= Reduced(rowOf[d], c)
         /\ \/ From(c) \in Tree /\ Heard[c] = Reduced(rowOf[From(c)], c)
            \/ Heard[c] = Truth!Infinity - duals.u[search.row]
<1>1. /\ c \in Truth!Columns /\ c \in Truth!Columns \ Tree /\ search.min[c] \in Int
      /\ \A d \in Tree : rowOf[d] \in Truth!Rows
      /\ search.column \in Tree /\ search.used \subseteq Tree /\ search.row \in Truth!Rows /\ 0 \in Tree
      /\ Tree = search.used \cup {search.column} /\ rowOf[0] = search.row
  BY TreeFacts DEF Open, Tree
<1>2. \A d \in Tree : Reduced(rowOf[d], c) \in Nat
  <2> SUFFICES ASSUME NEW d \in Tree PROVE Reduced(rowOf[d], c) \in Nat
    OBVIOUS
  <2>1. rowOf[d] \in Truth!Rows
    BY <1>1
  <2>2. Reduced(rowOf[d], c) \in Int
    BY <1>1, <2>1, ReducedIsInt DEF TruthInv
  <2>3. Reduced(rowOf[d], c) >= 0
    BY <1>1, <2>1 DEF TruthInv, PotentialsInv
  <2> QED BY <2>2, <2>3
<1>3. /\ \A d \in search.used : search.min[c] <= Reduced(rowOf[d], c)
      /\ \/ way[c] \in search.used /\ search.min[c] = Reduced(rowOf[way[c]], c)
         \/ search.min[c] = Truth!Infinity - duals.u[search.row]
  BY <1>1 DEF TruthInv, GrowInv, MinInv
<1>4. Current(c) = Reduced(rowOf[search.column], c) /\ Current(c) \in Nat
  BY <1>1, <1>2 DEF Current
<1>5. Truth!Infinity - duals.u[search.row] \in Nat
  <2>1. PICK e \in Open : rowOf[e] = 0 /\ \A r \in Truth!Rows : Truth!CostOf(r, e) = 10
    BY OneIsFree
  <2>2. e \in Truth!Columns
    BY <2>1 DEF Open
  <2>3. duals.v[e] = 0 /\ Reduced(search.row, e) >= 0
    BY <1>1, <2>1, <2>2 DEF TruthInv, PotentialsInv
  <2>4. /\ duals.u[search.row] \in Int
        /\ Reduced(search.row, e) = Truth!CostOf(search.row, e) - duals.u[search.row] - duals.v[e]
    BY <1>1, <2>2, ReducedIsInt DEF TruthInv
  <2>5. Truth!CostOf(search.row, e) = 10
    BY <1>1, <2>1
  <2> QED BY <2>3, <2>4, <2>5 DEF Truth!Infinity
<1>6. CASE c \in Closer
  <2>1. Heard[c] = Current(c) /\ From(c) = search.column /\ Current(c) < search.min[c]
    BY <1>1, <1>6 DEF Heard, From, Closer
  <2>2. \A d \in Tree : Heard[c] <= Reduced(rowOf[d], c)
    <3> SUFFICES ASSUME NEW d \in Tree PROVE Heard[c] <= Reduced(rowOf[d], c)
      OBVIOUS
    <3>1. Reduced(rowOf[d], c) \in Nat
      BY <1>2
    <3>2. CASE d = search.column
      BY <1>4, <2>1, <3>1, <3>2
    <3>3. CASE d \in search.used
      <4>1. search.min[c] <= Reduced(rowOf[d], c)
        BY <1>3, <3>3
      <4> QED BY <1>1, <1>4, <2>1, <3>1, <4>1
    <3> QED BY <1>1, <3>2, <3>3
  <2> QED BY <1>1, <1>4, <2>1, <2>2
<1>7. CASE c \notin Closer
  <2>1. Heard[c] = search.min[c] /\ From(c) = way[c] /\ ~(Current(c) < search.min[c])
    BY <1>1, <1>7 DEF Heard, From, Closer
  <2>2. \A d \in Tree : Heard[c] <= Reduced(rowOf[d], c)
    <3> SUFFICES ASSUME NEW d \in Tree PROVE Heard[c] <= Reduced(rowOf[d], c)
      OBVIOUS
    <3>1. CASE d = search.column
      BY <1>1, <1>4, <2>1, <3>1
    <3>2. CASE d \in search.used
      BY <1>3, <2>1, <3>2
    <3> QED BY <1>1, <3>1, <3>2
  <2>3. Heard[c] \in Nat
    <3>1. CASE way[c] \in search.used /\ search.min[c] = Reduced(rowOf[way[c]], c)
      <4>1. Reduced(rowOf[way[c]], c) \in Nat
        BY <1>1, <1>2, <3>1
      <4> QED BY <2>1, <3>1, <4>1
    <3>2. CASE search.min[c] = Truth!Infinity - duals.u[search.row]
      BY <1>5, <2>1, <3>2
    <3> QED BY <1>3, <3>1, <3>2
  <2> QED BY <1>1, <1>3, <2>1, <2>2, <2>3
<1> QED BY <1>6, <1>7

\* The nearest column is open, no other is nearer, and it is as near as the tree's way to it.
LEMMA NearFacts ==
  ASSUME TruthBounds, TruthInv, search.pc = "GROW"
  PROVE  /\ Near \in Open /\ Near \in Truth!Columns /\ Heard[Near] \in Nat
         /\ \A c \in Open : Heard[Near] <= Heard[c]
         /\ From(Near) \in Tree /\ Heard[Near] = Reduced(rowOf[From(Near)], Near)
<1>1. PICK e \in Open : rowOf[e] = 0 /\ \A r \in Truth!Rows : Truth!CostOf(r, e) = 10
  BY OneIsFree
<1>2. /\ \A c \in Open : Heard[c] \in Nat /\ c \in Truth!Columns
      /\ Truth!Columns \subseteq Nat
  BY HeardFacts, ColumnFacts DEF TruthInv, TruthTypeInv
<1>3. PICK m \in Open : \A d \in Open : Heard[m] < Heard[d] \/ (Heard[m] = Heard[d] /\ m <= d)
  <2> DEFINE S == {Heard[c] : c \in Open}
  <2>1. S \subseteq Nat /\ S # {}
    BY <1>1, <1>2
  <2>2. PICK least \in S : \A j \in S : least <= j
    <3> HIDE DEF S
    <3> QED BY <2>1, FirstPlace
  <2> DEFINE L == {c \in Open : Heard[c] = least}
  <2>3. L \subseteq Nat /\ L # {}
    BY <1>2, <2>2
  <2>4. PICK m \in L : \A j \in L : m <= j
    <3> HIDE DEF L
    <3> QED BY <2>3, FirstPlace
  <2>5. m \in Open /\ Heard[m] = least
    BY <2>4
  <2>6. ASSUME NEW d \in Open
        PROVE  Heard[m] < Heard[d] \/ (Heard[m] = Heard[d] /\ m <= d)
    <3>1. Heard[d] \in S /\ Heard[d] \in Nat /\ Heard[m] \in Nat
      BY <1>2, <2>5
    <3>2. Heard[m] <= Heard[d]
      BY <2>2, <2>5, <3>1
    <3>3. CASE Heard[d] = least
      BY <2>4, <2>5, <3>3
    <3>4. CASE Heard[d] # least
      BY <2>5, <3>1, <3>2, <3>4
    <3> QED BY <3>3, <3>4
  <2> QED BY <2>5, <2>6
<1>4. /\ Near \in Open
      /\ \A d \in Open : Heard[Near] < Heard[d] \/ (Heard[Near] = Heard[d] /\ Near <= d)
  BY <1>3 DEF Near, Truth!Nearest
<1>5. \A c \in Open : Heard[Near] <= Heard[c]
  <2> SUFFICES ASSUME NEW c \in Open PROVE Heard[Near] <= Heard[c]
    OBVIOUS
  <2>1. Heard[c] \in Nat /\ Heard[Near] \in Nat
    BY <1>2, <1>4
  <2>2. Heard[Near] < Heard[c] \/ Heard[Near] = Heard[c]
    BY <1>4
  <2> QED BY <2>1, <2>2
<1>6. /\ \/ From(Near) \in Tree /\ Heard[Near] = Reduced(rowOf[From(Near)], Near)
         \/ Heard[Near] = Truth!Infinity - duals.u[search.row]
  BY <1>4, HeardFacts
<1>7. Heard[Near] # Truth!Infinity - duals.u[search.row]
  <2>1. search.row \in Truth!Rows /\ 0 \in Tree /\ rowOf[0] = search.row
    BY TreeFacts
  <2>2. Heard[e] <= Reduced(search.row, e) /\ Heard[Near] <= Heard[e]
    BY <1>1, <1>5, <2>1, HeardFacts
  <2>3. duals.v[e] = 0
    BY <1>1, <1>2 DEF TruthInv, PotentialsInv
  <2>4. /\ duals.u[search.row] \in Int
        /\ Reduced(search.row, e) = Truth!CostOf(search.row, e) - duals.u[search.row] - duals.v[e]
    BY <1>1, <1>2, <2>1, ReducedIsInt DEF TruthInv
  <2>5. Truth!CostOf(search.row, e) = 10
    BY <1>1, <2>1
  <2>6. Heard[Near] \in Nat /\ Heard[e] \in Nat
    BY <1>1, <1>2, <1>4
  <2> QED BY <2>2, <2>3, <2>4, <2>5, <2>6 DEF Truth!Infinity
<1> QED BY <1>2, <1>4, <1>5, <1>6, <1>7

\* What is left of a cost after the turn: the tree came nearer to the open columns.
LEMMA LoweredFacts ==
  ASSUME TruthBounds, TruthInv, Truth!Grow
  PROVE  /\ duals' \in [u : [Truth!Rows -> Int], v : [Truth!Reached -> Int]]
         /\ \A r \in Truth!Rows : /\ r \in {rowOf[d] : d \in Tree} => duals'.u[r] = duals.u[r] + Heard[Near]
                                  /\ r \notin {rowOf[d] : d \in Tree} => duals'.u[r] = duals.u[r]
         /\ \A c \in Truth!Columns : /\ c \in Tree => duals'.v[c] = duals.v[c] - Heard[Near]
                                     /\ c \notin Tree => duals'.v[c] = duals.v[c]
<1>1. /\ duals' = Truth!Lowered(Tree, Heard[Near]) /\ search.pc = "GROW"
  BY GrowIs
<1>2. duals \in [u : [Truth!Rows -> Int], v : [Truth!Reached -> Int]]
  BY DEF TruthInv, TruthTypeInv
<1>3. Heard[Near] \in Int
  BY <1>1, NearFacts
<1>4. /\ duals' = [u |-> [r \in Truth!Rows |-> IF r \in {rowOf[c] : c \in Tree}
                                         THEN duals.u[r] + Heard[Near] ELSE duals.u[r]],
                   v |-> [c \in Truth!Reached |-> IF c \in Tree THEN duals.v[c] - Heard[Near]
                                            ELSE duals.v[c]]]
  BY <1>1 DEF Truth!Lowered
<1> DEFINE rows == {rowOf[c] : c \in Tree}
           delta == Heard[Near]
<1>5. /\ duals' = [u |-> [r \in Truth!Rows |-> IF r \in rows THEN duals.u[r] + delta ELSE duals.u[r]],
                   v |-> [c \in Truth!Reached |-> IF c \in Tree THEN duals.v[c] - delta
                                            ELSE duals.v[c]]]
      /\ delta \in Int
  BY <1>3, <1>4
<1> HIDE DEF rows, delta
<1>6. Truth!Columns \subseteq Truth!Reached
  BY DEF Truth!Reached
<1>7. /\ duals' \in [u : [Truth!Rows -> Int], v : [Truth!Reached -> Int]]
      /\ \A r \in Truth!Rows : /\ r \in rows => duals'.u[r] = duals.u[r] + delta
                               /\ r \notin rows => duals'.u[r] = duals.u[r]
      /\ \A c \in Truth!Columns : /\ c \in Tree => duals'.v[c] = duals.v[c] - delta
                                  /\ c \notin Tree => duals'.v[c] = duals.v[c]
  BY <1>2, <1>5, <1>6
<1> QED BY <1>7 DEF rows, delta

LEMMA ReducedAfter ==
  ASSUME TruthBounds, TruthInv, Truth!Grow, NEW r \in Truth!Rows, NEW c \in Truth!Columns
  PROVE  /\ Reduced(r, c)' \in Int
         /\ r \in {rowOf[d] : d \in Tree} /\ c \in Tree => Reduced(r, c)' = Reduced(r, c)
         /\ r \in {rowOf[d] : d \in Tree} /\ c \notin Tree
              => Reduced(r, c)' = Reduced(r, c) - Heard[Near]
         /\ r \notin {rowOf[d] : d \in Tree} /\ c \in Tree
              => Reduced(r, c)' = Reduced(r, c) + Heard[Near]
         /\ r \notin {rowOf[d] : d \in Tree} /\ c \notin Tree => Reduced(r, c)' = Reduced(r, c)
<1> DEFINE rows == {rowOf[d] : d \in Tree}
<1>1. /\ r \in rows => duals'.u[r] = duals.u[r] + Heard[Near]
      /\ r \notin rows => duals'.u[r] = duals.u[r]
      /\ c \in Tree => duals'.v[c] = duals.v[c] - Heard[Near]
      /\ c \notin Tree => duals'.v[c] = duals.v[c]
  BY LoweredFacts
<1> HIDE DEF rows
<1>2. /\ Reduced(r, c) \in Int /\ duals.u[r] \in Int /\ duals.v[c] \in Int
      /\ Truth!CostOf(r, c) \in Nat
      /\ Reduced(r, c) = Truth!CostOf(r, c) - duals.u[r] - duals.v[c]
  BY ReducedIsInt DEF TruthInv
<1>3. Reduced(r, c)' = Truth!CostOf(r, c) - duals'.u[r] - duals'.v[c]
  BY GrowIs DEF Reduced, Truth!CostOf
<1>4. Heard[Near] \in Int
  BY GrowIs, NearFacts
<1>5. /\ Reduced(r, c)' \in Int
      /\ r \in rows /\ c \in Tree => Reduced(r, c)' = Reduced(r, c)
      /\ r \in rows /\ c \notin Tree => Reduced(r, c)' = Reduced(r, c) - Heard[Near]
      /\ r \notin rows /\ c \in Tree => Reduced(r, c)' = Reduced(r, c) + Heard[Near]
      /\ r \notin rows /\ c \notin Tree => Reduced(r, c)' = Reduced(r, c)
  BY <1>1, <1>2, <1>3, <1>4
<1> QED BY <1>5 DEF rows

\* A placed column is of the tree when its row is.
LEMMA TreeRows ==
  ASSUME TruthBounds, TruthInv, search.pc = "GROW", NEW c \in Truth!Columns, rowOf[c] # 0
  PROVE  rowOf[c] \in {rowOf[d] : d \in Tree} <=> c \in Tree
<1>1. /\ Placed(Truth!Columns, search.row - 1) /\ rowOf[0] = search.row
      /\ search.row \in Truth!Rows /\ Tree \subseteq Truth!Reached
  BY TreeFacts DEF TruthInv, GrowInv
<1>2. Truth!Rows \subseteq Nat /\ Truth!Reached = Truth!Columns \cup {0}
  BY ColumnFacts DEF TruthInv, TruthTypeInv
<1>3. ASSUME NEW d \in Tree, rowOf[c] = rowOf[d] PROVE c = d
  <2>1. CASE d = 0
    <3>1. rowOf[c] <= search.row - 1 /\ rowOf[c] = search.row
      BY <1>1, <1>3, <2>1 DEF Placed
    <3>2. search.row \in Nat
      BY <1>1, <1>2
    <3> QED BY <3>1, <3>2
  <2>2. CASE d \in Truth!Columns
    BY <1>1, <1>3, <2>2 DEF Placed
  <2> QED BY <1>1, <1>2, <2>1, <2>2
<1> QED BY <1>3

\* The way to the nearest column is one more of the tree's.
LEMMA TreeGrows ==
  ASSUME TruthBounds, TruthInv, Truth!Grow
  PROVE  /\ search'.pc = (IF rowOf[Near] = 0 THEN "FLIP" ELSE "GROW") /\ search'.row = search.row
         /\ search'.used = Tree /\ search'.column = Near
         /\ \A c \in Open : search'.min[c] = Heard[c] - Heard[Near]
         /\ Tree' = Tree \cup {Near} /\ Near \notin Tree /\ Near # 0
         /\ TruthTypeInv'
         /\ \E rank \in [Truth!Reached -> Nat] : \A limit : Leads(rank, limit)'
<1>1. /\ search.pc = "GROW" /\ UNCHANGED <<problem, rowOf>>
      /\ way' = [c \in Truth!Reached |-> From(c)]
      /\ search' = [search EXCEPT
           !.pc = IF rowOf[Near] = 0 THEN "FLIP" ELSE "GROW",
           !.used = Tree, !.column = Near,
           !.min = [c \in Truth!Columns |-> IF c \in Open THEN Heard[c] - Heard[Near] ELSE Heard[c]]]
  BY GrowIs
<1>2. /\ search \in [pc : {"ROW", "GROW", "FLIP", "DONE"}, row : Nat, column : Truth!Reached,
                     used : SUBSET Truth!Reached, min : [Truth!Columns -> Int]]
      /\ Tree \subseteq Truth!Reached /\ Open \subseteq Truth!Columns /\ 0 \in Tree
      /\ search.used \subseteq Tree /\ search.column \in Tree
      /\ \A c \in Tree : rowOf[c] \in Truth!Rows
  BY <1>1, TreeFacts
<1>3. /\ Near \in Open /\ Near \in Truth!Columns /\ Heard[Near] \in Nat
      /\ From(Near) \in Tree /\ Heard[Near] = Reduced(rowOf[From(Near)], Near)
  BY <1>1, NearFacts
<1>4. Near \notin Tree /\ Near # 0 /\ Near \in Truth!Reached
  BY <1>2, <1>3 DEF Open, Truth!Reached
<1>5. Truth!Rows' = Truth!Rows /\ Truth!Columns' = Truth!Columns /\ Truth!Reached' = Truth!Reached
  BY <1>1 DEF Truth!Rows, Truth!Columns, Truth!Reached
<1>6. /\ search'.pc = (IF rowOf[Near] = 0 THEN "FLIP" ELSE "GROW") /\ search'.row = search.row
      /\ search'.used = Tree /\ search'.column = Near
      /\ search'.min = [c \in Truth!Columns |-> IF c \in Open THEN Heard[c] - Heard[Near] ELSE Heard[c]]
  BY <1>1, <1>2
<1>7. \A c \in Open : search'.min[c] = Heard[c] - Heard[Near]
  BY <1>2, <1>6
<1>8. Tree' = Tree \cup {Near}
  BY <1>6 DEF Tree
<1>9. TruthTypeInv'
  <2>1. \A c \in Truth!Columns : Heard[c] \in Int
    <3> SUFFICES ASSUME NEW c \in Truth!Columns PROVE Heard[c] \in Int
      OBVIOUS
    <3>1. CASE c \in Open
      BY <1>1, <3>1, HeardFacts
    <3>2. CASE c \notin Open
      <4>1. Heard[c] = search.min[c]
        BY <3>2 DEF Heard, Closer
      <4> QED BY <1>2, <4>1
    <3> QED BY <3>1, <3>2
  <2>2. search'.min \in [Truth!Columns -> Int]
    BY <1>3, <1>6, <2>1
  <2>3. search' \in [pc : {"ROW", "GROW", "FLIP", "DONE"}, row : Nat, column : Truth!Reached,
                     used : SUBSET Truth!Reached, min : [Truth!Columns -> Int]]
    <3> DEFINE m == [c \in Truth!Columns |-> IF c \in Open THEN Heard[c] - Heard[Near] ELSE Heard[c]]
               n == IF rowOf[Near] = 0 THEN "FLIP" ELSE "GROW"
    <3>1. m \in [Truth!Columns -> Int] /\ n \in {"ROW", "GROW", "FLIP", "DONE"}
      BY <1>6, <2>2
    <3>2. search' = [search EXCEPT !.pc = n, !.used = Tree, !.column = Near, !.min = m]
      BY <1>1
    <3> HIDE DEF m, n
    <3> QED BY <1>2, <1>4, <3>1, <3>2
  <2>4. duals' \in [u : [Truth!Rows -> Int], v : [Truth!Reached -> Int]]
    BY LoweredFacts
  <2>5. way \in [Truth!Reached -> Truth!Reached]
    BY DEF TruthInv, TruthTypeInv
  <2>6. \A c \in Truth!Reached : From(c) \in Truth!Reached
    BY <1>2, <2>5 DEF From
  <2>7. way' \in [Truth!Reached -> Truth!Reached]
    BY <1>1, <2>6
  <2> QED BY <1>1, <1>5, <2>3, <2>4, <2>7 DEF TruthInv, TruthTypeInv
<1>10. \E rank \in [Truth!Reached -> Nat] : \A limit : Leads(rank, limit)'
  <2>1. PICK rank \in [Truth!Reached -> Nat] : \A limit \in Nat : Leads(rank, limit)
    BY <1>1 DEF TruthInv, GrowInv
  <2>2. PICK new \in [Truth!Reached -> Nat] :
          /\ new[Near] = rank[From(Near)] + 1
          /\ \A c \in Tree : new[c] = rank[c] /\ rank[c] \in Nat
    <3> DEFINE f == [rank EXCEPT ![Near] = rank[From(Near)] + 1]
    <3>1. /\ f \in [Truth!Reached -> Nat] /\ f[Near] = rank[From(Near)] + 1
          /\ \A c \in Tree : f[c] = rank[c] /\ rank[c] \in Nat
      BY <1>2, <1>3, <1>4
    <3> HIDE DEF f
    <3> QED BY <3>1
  <2>3. ASSUME NEW c \in (Tree \cup {Near}) \ {0}
        PROVE  way'[c] \in Tree /\ new[way'[c]] < new[c] /\ Reduced(rowOf[way[c]], c)' = 0
    <3>1. CASE c \in Tree
      <4>1. c \in Truth!Columns /\ c \notin Open /\ c \in Truth!Reached
        BY <1>2, <2>3, <3>1 DEF Open, Truth!Reached
      <4>2. way'[c] = way[c]
        BY <1>1, <4>1 DEF From, Closer
      <4>3. way[c] \in search.used /\ rank[way[c]] < rank[c]
        BY <2>1, <2>3, <3>1 DEF Leads
      <4>4. Reduced(rowOf[way[c]], c) = 0
        BY <2>1, <2>2, <2>3, <3>1 DEF Leads
      <4>5. way[c] \in Tree
        BY <1>2, <4>3
      <4>6. PICK r \in Truth!Rows : r = rowOf[way[c]] /\ r \in {rowOf[d] : d \in Tree}
        BY <1>2, <4>5
      <4>7. Reduced(r, c) = 0
        BY <4>4, <4>6
      <4>8. Reduced(r, c)' = 0
        BY <3>1, <4>1, <4>6, <4>7, ReducedAfter
      <4>9. rowOf'[way'[c]] = r
        BY <1>1, <4>2, <4>6
      <4>10. Reduced(rowOf[way[c]], c)' = 0
        BY <4>8, <4>9 DEF Reduced, Truth!CostOf
      <4> QED BY <2>2, <3>1, <4>2, <4>3, <4>5, <4>10
    <3>2. CASE c = Near
      <4>1. way'[Near] = From(Near)
        BY <1>1, <1>4
      <4>2. PICK r \in Truth!Rows : r = rowOf[From(Near)] /\ r \in {rowOf[d] : d \in Tree}
        BY <1>2, <1>3
      <4>3. Reduced(r, c) = Heard[Near]
        BY <1>3, <3>2, <4>2
      <4>4. Reduced(r, c)' = Reduced(r, c) - Heard[Near]
        BY <1>3, <1>4, <3>2, <4>2, ReducedAfter
      <4>5. Reduced(r, c)' = 0
        BY <1>3, <4>3, <4>4
      <4>6. rowOf'[way'[c]] = r
        BY <1>1, <3>2, <4>1, <4>2
      <4>7. Reduced(rowOf[way[c]], c)' = 0
        BY <4>5, <4>6 DEF Reduced, Truth!CostOf
      <4>8. new[way'[c]] < new[c]
        BY <1>3, <2>2, <3>2, <4>1
      <4> QED BY <1>3, <3>2, <4>1, <4>7, <4>8
    <3> QED BY <2>3, <3>1, <3>2
  <2>4. \A limit : Leads(new, limit)'
    <3> SUFFICES ASSUME NEW limit, NEW c \in Tree' \ {0}
                 PROVE  /\ way'[c] \in search'.used /\ new[way'[c]] < new[c]
                        /\ Reduced(rowOf[way[c]], c)' = 0
      BY DEF Leads
    <3> QED BY <1>6, <1>8, <2>3
  <2> QED BY <2>2, <2>4
<1> QED BY <1>4, <1>6, <1>7, <1>8, <1>9, <1>10

\* No cost comes below its potentials: those that lose are open, and not nearer than the nearest.
LEMMA GrowKeepsPotentials ==
  ASSUME TruthBounds, TruthInv, Truth!Grow
  PROVE  PotentialsInv'
<1>1. /\ search.pc = "GROW" /\ UNCHANGED <<problem, rowOf>> /\ search'.row = search.row
      /\ Truth!Rows' = Truth!Rows /\ Truth!Columns' = Truth!Columns
  BY GrowIs, TreeGrows DEF Truth!Rows, Truth!Columns
<1>2. /\ Heard[Near] \in Nat
      /\ \A c \in Open : Heard[Near] <= Heard[c]
  BY <1>1, NearFacts
<1>3. ASSUME NEW r \in Truth!Rows, NEW c \in Truth!Columns PROVE Reduced(r, c)' >= 0
  <2>1. Reduced(r, c) \in Int /\ Reduced(r, c) >= 0
    BY ReducedIsInt DEF TruthInv, PotentialsInv
  <2>2. CASE r \in {rowOf[d] : d \in Tree} /\ c \notin Tree
    <3>1. PICK d \in Tree : r = rowOf[d]
      BY <2>2
    <3>2. c \in Open
      BY <2>2 DEF Open
    <3>3. Heard[c] \in Nat /\ Heard[c] <= Reduced(r, c) /\ Heard[Near] <= Heard[c]
      BY <1>1, <1>2, <3>1, <3>2, HeardFacts
    <3>4. Reduced(r, c)' = Reduced(r, c) - Heard[Near]
      BY <2>2, ReducedAfter
    <3> QED BY <1>2, <2>1, <3>3, <3>4
  <2>3. CASE ~(r \in {rowOf[d] : d \in Tree} /\ c \notin Tree)
    <3>1. Reduced(r, c)' = Reduced(r, c) \/ Reduced(r, c)' = Reduced(r, c) + Heard[Near]
      BY <2>3, ReducedAfter
    <3> QED BY <1>2, <2>1, <3>1
  <2> QED BY <2>2, <2>3
<1>4. ASSUME NEW r \in Truth!Rows
      PROVE  duals'.u[r] >= 0 /\ (r > search.row => duals'.u[r] = 0)
  <2>1. /\ duals.u[r] >= 0 /\ (r > search.row => duals.u[r] = 0)
        /\ duals \in [u : [Truth!Rows -> Int], v : [Truth!Reached -> Int]]
    BY DEF TruthInv, PotentialsInv, TruthTypeInv
  <2>2. duals.u[r] \in Int
    BY <2>1
  <2>3. CASE r \in {rowOf[d] : d \in Tree}
    <3>1. PICK d \in Tree : r = rowOf[d]
      BY <2>3
    <3>2. r <= search.row
      <4>1. /\ Placed(Truth!Columns, search.row - 1) /\ rowOf[0] = search.row
            /\ search.row \in Truth!Rows
            /\ Tree \subseteq Truth!Reached
        BY <1>1, TreeFacts DEF TruthInv, GrowInv
      <4>2. Truth!Rows \subseteq Nat /\ Truth!Reached = Truth!Columns \cup {0}
        BY ColumnFacts DEF TruthInv, TruthTypeInv
      <4>3. search.row \in Nat /\ r \in Nat
        BY <4>1, <4>2
      <4>4. CASE d = 0
        BY <3>1, <4>1, <4>3, <4>4
      <4>5. CASE d \in Truth!Columns
        <5>1. rowOf[d] <= search.row - 1
          BY <4>1, <4>5 DEF Placed
        <5> QED BY <3>1, <4>3, <5>1
      <4> QED BY <4>1, <4>2, <4>4, <4>5
    <3>3. duals'.u[r] = duals.u[r] + Heard[Near]
      BY <2>3, LoweredFacts
    <3>4. r \in Nat /\ search.row \in Nat
      BY <1>1, TreeFacts, ColumnFacts DEF TruthInv, TruthTypeInv
    <3> QED BY <1>2, <2>1, <2>2, <3>2, <3>3, <3>4
  <2>4. CASE r \notin {rowOf[d] : d \in Tree}
    <3>1. duals'.u[r] = duals.u[r]
      BY <2>4, LoweredFacts
    <3> QED BY <2>1, <3>1
  <2> QED BY <2>3, <2>4
<1>5. ASSUME NEW c \in Truth!Columns
      PROVE  duals'.v[c] <= 0 /\ (rowOf[c] = 0 => duals'.v[c] = 0)
  <2>1. /\ duals.v[c] <= 0 /\ (rowOf[c] = 0 => duals.v[c] = 0)
        /\ duals \in [u : [Truth!Rows -> Int], v : [Truth!Reached -> Int]] /\ c \in Truth!Reached
    BY DEF TruthInv, PotentialsInv, TruthTypeInv, Truth!Reached
  <2>2. duals.v[c] \in Int
    BY <2>1
  <2>3. CASE c \in Tree
    <3>1. rowOf[c] # 0
      BY <1>1, <2>3 DEF TruthInv, GrowInv
    <3>2. duals'.v[c] = duals.v[c] - Heard[Near]
      BY <2>3, LoweredFacts
    <3> QED BY <1>2, <2>1, <2>2, <3>1, <3>2
  <2>4. CASE c \notin Tree
    <3>1. duals'.v[c] = duals.v[c]
      BY <2>4, LoweredFacts
    <3> QED BY <2>1, <3>1
  <2> QED BY <2>3, <2>4
<1>6. \A r \in Truth!Rows, c \in Truth!Columns : Reduced(r, c)' >= 0
  BY <1>3
<1>7. \A r \in Truth!Rows : duals'.u[r] >= 0 /\ (r > search'.row => duals'.u[r] = 0)
  BY <1>1, <1>4
<1>8. \A c \in Truth!Columns : duals'.v[c] <= 0 /\ (rowOf'[c] = 0 => duals'.v[c] = 0)
  BY <1>1, <1>5
<1> QED BY <1>1, <1>6, <1>7, <1>8 DEF PotentialsInv

\* Placed columns and their rows are in the tree together or not.
LEMMA GrowKeepsPlaces ==
  ASSUME TruthBounds, TruthInv, Truth!Grow
  PROVE  Placed(Truth!Columns, search.row - 1)'
<1>1. /\ search.pc = "GROW" /\ UNCHANGED <<problem, rowOf>> /\ search'.row = search.row
      /\ Truth!Columns' = Truth!Columns
  BY GrowIs, TreeGrows DEF Truth!Columns
<1>2. /\ Placed(Truth!Columns, search.row - 1)
      /\ rowOf \in [Truth!Reached -> 0 .. problem.rows] /\ problem.rows \in Nat
      /\ Truth!Reached = Truth!Columns \cup {0}
  BY <1>1, ProblemFacts, ColumnFacts DEF TruthInv, GrowInv, TruthTypeInv
<1>3. ASSUME NEW c \in Truth!Columns \ {0}, rowOf[c] # 0
      PROVE  Reduced(rowOf[c], c)' = 0
  <2>1. Reduced(rowOf[c], c) = 0
    BY <1>2, <1>3 DEF Placed
  <2>2. rowOf[c] \in Truth!Rows /\ c \in Truth!Columns
    BY <1>2, <1>3 DEF Truth!Rows
  <2>3. PICK r \in Truth!Rows : r = rowOf[c]
    BY <2>2
  <2>4. r \in {rowOf[d] : d \in Tree} <=> c \in Tree
    <3>1. rowOf[c] \in {rowOf[d] : d \in Tree} <=> c \in Tree
      BY <1>1, <1>3, <2>2, TreeRows
    <3> QED BY <2>3, <3>1
  <2>5. Reduced(r, c)' = Reduced(r, c)
    BY <2>2, <2>4, ReducedAfter
  <2>6. Reduced(r, c)' = 0
    BY <2>1, <2>3, <2>5
  <2>7. rowOf'[c] = r
    BY <1>1, <2>3
  <2> QED BY <2>6, <2>7 DEF Reduced, Truth!CostOf
<1>4. /\ \A c, d \in Truth!Columns : rowOf'[c] = rowOf'[d] /\ rowOf'[c] # 0 => c = d
      /\ \A c \in Truth!Columns : rowOf'[c] <= search'.row - 1
      /\ \A r \in 1 .. search'.row - 1 : \E c \in Truth!Columns : rowOf'[c] = r
  BY <1>1, <1>2 DEF Placed
<1>5. \A c \in Truth!Columns \ {0} : rowOf'[c] # 0 => Reduced(rowOf[c], c)' = 0
  BY <1>1, <1>3
<1> QED BY <1>1, <1>4, <1>5 DEF Placed

\* What is open after the turn was open before it, and is as near as it was less the turn's step.
LEMMA GrowKeepsMin ==
  ASSUME TruthBounds, TruthInv, Truth!Grow
  PROVE  MinInv'
<1>1. /\ search.pc = "GROW" /\ UNCHANGED <<problem, rowOf>> /\ search'.row = search.row
      /\ Truth!Columns' = Truth!Columns /\ way' = [c \in Truth!Reached |-> From(c)]
      /\ search'.used = Tree /\ Tree' = Tree \cup {Near}
      /\ \A c \in Open : search'.min[c] = Heard[c] - Heard[Near]
  BY GrowIs, TreeGrows DEF Truth!Columns
<1>2. /\ \A c \in Tree : rowOf[c] \in Truth!Rows
      /\ search.row \in Truth!Rows /\ rowOf[0] = search.row /\ 0 \in Tree
      /\ Heard[Near] \in Nat
  BY <1>1, TreeFacts, NearFacts
<1>3. ASSUME NEW c \in Truth!Columns \ (Tree \cup {Near})
      PROVE  /\ \A d \in Tree : search'.min[c] <= Reduced(rowOf[d], c)'
             /\ \/ way'[c] \in Tree /\ search'.min[c] = Reduced(rowOf[way[c]], c)'
                \/ search'.min[c] = Truth!Infinity - duals'.u[search'.row]
  <2>1. c \in Open /\ c \in Truth!Columns /\ c \notin Tree /\ c \in Truth!Reached
    BY <1>3 DEF Open, Truth!Reached
  <2>2. /\ Heard[c] \in Nat
        /\ \A d \in Tree : Heard[c] <= Reduced(rowOf[d], c)
        /\ \/ From(c) \in Tree /\ Heard[c] = Reduced(rowOf[From(c)], c)
           \/ Heard[c] = Truth!Infinity - duals.u[search.row]
    BY <1>1, <2>1, HeardFacts
  <2>3. search'.min[c] = Heard[c] - Heard[Near] /\ way'[c] = From(c)
    BY <1>1, <2>1
  <2>4. ASSUME NEW d \in Tree, NEW r \in Truth!Rows, r = rowOf[d]
        PROVE  /\ Reduced(rowOf[d], c)' = Reduced(r, c) - Heard[Near]
               /\ Reduced(r, c) \in Int
               /\ Reduced(rowOf[d], c)' = Reduced(r, c)'
    <3>1. r \in {rowOf[e] : e \in Tree}
      BY <2>4
    <3>2. Reduced(r, c)' = Reduced(r, c) - Heard[Near]
      BY <2>1, <3>1, ReducedAfter
    <3>3. rowOf'[d] = r
      BY <1>1, <2>4
    <3>4. Reduced(rowOf[d], c)' = Reduced(r, c)'
      BY <3>3 DEF Reduced, Truth!CostOf
    <3>5. Reduced(r, c) \in Int
      BY <2>1, ReducedIsInt DEF TruthInv
    <3> QED BY <3>2, <3>4, <3>5
  <2>5. ASSUME NEW d \in Tree PROVE search'.min[c] <= Reduced(rowOf[d], c)'
    <3>1. PICK r \in Truth!Rows : r = rowOf[d]
      BY <1>2
    <3>2. Reduced(rowOf[d], c)' = Reduced(r, c) - Heard[Near] /\ Reduced(r, c) \in Int
      BY <2>4, <3>1
    <3>3. Heard[c] <= Reduced(r, c)
      BY <2>2, <3>1
    <3> QED BY <1>2, <2>2, <2>3, <3>2, <3>3
  <2>6. CASE From(c) \in Tree /\ Heard[c] = Reduced(rowOf[From(c)], c)
    <3>1. PICK d \in Tree : d = From(c)
      BY <2>6
    <3>2. PICK r \in Truth!Rows : r = rowOf[d]
      BY <1>2
    <3>3. Reduced(rowOf[d], c)' = Reduced(r, c) - Heard[Near] /\ Heard[c] = Reduced(r, c)
      BY <2>4, <2>6, <3>1, <3>2
    <3>4. Reduced(rowOf[way[c]], c)' = Reduced(rowOf[d], c)'
      BY <2>3, <3>1 DEF Reduced, Truth!CostOf
    <3> QED BY <2>3, <2>5, <2>6, <3>3, <3>4
  <2>7. CASE Heard[c] = Truth!Infinity - duals.u[search.row]
    <3>1. search.row \in {rowOf[d] : d \in Tree}
      BY <1>2
    <3>2. duals'.u[search.row] = duals.u[search.row] + Heard[Near]
      BY <1>2, <3>1, LoweredFacts
    <3>3. duals.u[search.row] \in Int
      BY <1>2 DEF TruthInv, TruthTypeInv
    <3>4. search'.min[c] = Truth!Infinity - duals'.u[search'.row]
      BY <1>1, <1>2, <2>3, <2>7, <3>2, <3>3 DEF Truth!Infinity
    <3> QED BY <2>5, <3>4
  <2> QED BY <2>2, <2>6, <2>7
<1> QED BY <1>1, <1>3 DEF MinInv

\* A turn of the inner loop keeps the invariant.
LEMMA GrowKeepsInv ==
  ASSUME TruthBounds, TruthInv, Truth!Grow
  PROVE  TruthInv'
<1>1. /\ search.pc = "GROW" /\ UNCHANGED <<problem, rowOf>>
      /\ Truth!Rows' = Truth!Rows /\ Truth!Columns' = Truth!Columns /\ Truth!Reached' = Truth!Reached
  BY GrowIs DEF Truth!Rows, Truth!Columns, Truth!Reached
<1>2. /\ search'.pc = (IF rowOf[Near] = 0 THEN "FLIP" ELSE "GROW") /\ search'.row = search.row
      /\ search'.used = Tree /\ search'.column = Near
      /\ Tree' = Tree \cup {Near} /\ Near \notin Tree /\ Near # 0
      /\ TruthTypeInv'
  BY TreeGrows
<1>3. PICK rank \in [Truth!Reached -> Nat] : \A limit : Leads(rank, limit)'
  BY TreeGrows
<1>4. PotentialsInv' /\ Placed(Truth!Columns, search.row - 1)' /\ MinInv'
  BY GrowKeepsPotentials, GrowKeepsPlaces, GrowKeepsMin
<1>5. /\ search.row \in Truth!Rows /\ rowOf[0] = search.row /\ 0 \in Tree
      /\ \A c \in Tree : rowOf[c] \in Truth!Rows
      /\ Truth!Rows \subseteq Nat /\ 0 \notin Truth!Rows /\ Truth!Reached = Truth!Columns \cup {0}
      /\ Truth!Columns \subseteq Nat /\ 0 \notin Truth!Columns
  BY <1>1, TreeFacts, ColumnFacts DEF TruthInv, TruthTypeInv
<1>6. \A c \in Tree : rowOf'[c] # 0
  BY <1>1, <1>5
<1>7. RowInv'
  BY <1>2 DEF RowInv
<1>8. CASE rowOf[Near] # 0
  <2>1. search'.pc = "GROW"
    BY <1>2, <1>8
  <2>2. \E f \in [Truth!Reached' -> Nat] : (\A limit \in Nat : Leads(f, limit))'
    BY <1>1, <1>3
  <2>3. \A c \in Tree' : rowOf'[c] # 0
    BY <1>1, <1>2, <1>6, <1>8
  <2>4. GrowInv'
    BY <1>1, <1>2, <1>4, <1>5, <2>2, <2>3 DEF GrowInv
  <2>5. FlipInv'
    BY <2>1 DEF FlipInv
  <2> QED BY <1>2, <1>4, <1>7, <2>4, <2>5 DEF TruthInv
<1>9. CASE rowOf[Near] = 0
  <2>1. search'.pc = "FLIP"
    BY <1>2, <1>9
  <2>2. Near \in Truth!Columns
    BY <1>1, NearFacts
  <2>3. \E f \in [Truth!Reached' -> Nat] : Leads(f, f[search.column])'
    BY <1>1, <1>3
  <2>4. Placed(Truth!Reached \ {search.column}, search.row)'
    <3> DEFINE S == Truth!Reached \ {Near}
    <3>1. /\ \A c, d \in Truth!Columns : rowOf'[c] = rowOf'[d] /\ rowOf'[c] # 0 => c = d
          /\ \A c \in Truth!Columns : rowOf'[c] <= search.row - 1
          /\ \A r \in 1 .. search.row - 1 : \E c \in Truth!Columns : rowOf'[c] = r
          /\ \A c \in Truth!Columns : rowOf'[c] # 0 => Reduced(rowOf[c], c)' = 0
      BY <1>1, <1>2, <1>4, <1>5 DEF Placed
    <3>2. rowOf'[0] = search.row /\ search.row \in Nat /\ search.row > 0 /\ rowOf'[Near] = 0
      <4>1. search.row \in Nat /\ search.row # 0
        BY <1>5
      <4>2. rowOf'[0] = search.row /\ rowOf'[Near] = 0
        BY <1>1, <1>5, <1>9
      <4> QED BY <4>1, <4>2
    <3>3. \A c, d \in S : rowOf'[c] = rowOf'[d] /\ rowOf'[c] # 0 => c = d
      <4> SUFFICES ASSUME NEW c \in S, NEW d \in S, rowOf'[c] = rowOf'[d], rowOf'[c] # 0 PROVE c = d
        OBVIOUS
      <4>1. CASE c = 0 /\ d \in Truth!Columns
        <5>1. rowOf'[d] <= search.row - 1 /\ rowOf'[d] = search.row
          BY <3>1, <3>2, <4>1
        <5> QED BY <3>2, <5>1
      <4>2. CASE d = 0 /\ c \in Truth!Columns
        <5>1. rowOf'[c] <= search.row - 1 /\ rowOf'[c] = search.row
          BY <3>1, <3>2, <4>2
        <5> QED BY <3>2, <5>1
      <4>3. CASE c \in Truth!Columns /\ d \in Truth!Columns
        BY <3>1, <4>3
      <4> QED BY <1>5, <4>1, <4>2, <4>3
    <3>4. \A c \in S : rowOf'[c] <= search.row
      <4> SUFFICES ASSUME NEW c \in S PROVE rowOf'[c] <= search.row
        OBVIOUS
      <4>1. CASE c = 0
        BY <3>2, <4>1
      <4>2. CASE c \in Truth!Columns
        <5>1. rowOf'[c] <= search.row - 1
          BY <3>1, <4>2
        <5>2. rowOf'[c] \in Int
          <6>1. rowOf \in [Truth!Reached -> 0 .. problem.rows] /\ problem.rows \in Nat
            BY ProblemFacts DEF TruthInv, TruthTypeInv
          <6> QED BY <1>1, <1>5, <4>2, <6>1
        <5> QED BY <3>2, <5>1, <5>2
      <4> QED BY <1>5, <4>1, <4>2
    <3>5. \A r \in 1 .. search.row : \E c \in S : rowOf'[c] = r
      <4> SUFFICES ASSUME NEW r \in 1 .. search.row PROVE \E c \in S : rowOf'[c] = r
        OBVIOUS
      <4>1. r \in Nat /\ r > 0
        BY <3>2
      <4>2. CASE r = search.row
        BY <1>2, <1>5, <3>2, <4>2
      <4>3. CASE r # search.row
        <5>1. r \in 1 .. search.row - 1
          BY <3>2, <4>3
        <5>2. PICK c \in Truth!Columns : rowOf'[c] = r
          BY <3>1, <5>1
        <5> QED BY <1>5, <3>2, <4>1, <5>2
      <4> QED BY <4>2, <4>3
    <3>6. \A c \in S \ {0} : rowOf'[c] # 0 => Reduced(rowOf[c], c)' = 0
      BY <1>5, <3>1
    <3>7. Truth!Reached' \ {search'.column} = S /\ search'.row = search.row
      BY <1>1, <1>2
    <3> HIDE DEF S
    <3> QED BY <3>3, <3>4, <3>5, <3>6, <3>7 DEF Placed
  <2>5. FlipInv'
    BY <1>1, <1>2, <1>5, <1>6, <2>2, <2>3, <2>4 DEF FlipInv
  <2>6. GrowInv'
    BY <2>1 DEF GrowInv
  <2> QED BY <1>2, <1>4, <1>7, <2>5, <2>6 DEF TruthInv
<1> QED BY <1>8, <1>9

-----------------------------------------------------------------------------
(* Back along the path. *)

\* The column gets the row of the one before it on the path, which is another.
LEMMA FlipFacts ==
  ASSUME TruthBounds, TruthInv, Truth!Flip
  PROVE  /\ search \in [pc : {"ROW", "GROW", "FLIP", "DONE"}, row : Nat, column : Truth!Reached,
                        used : SUBSET Truth!Reached, min : [Truth!Columns -> Int]]
         /\ UNCHANGED <<problem, duals, way>>
         /\ way[search.column] \in search.used /\ way[search.column] # search.column
         /\ rowOf[way[search.column]] \in Truth!Rows
         /\ rowOf'[search.column] = rowOf[way[search.column]]
         /\ \A c \in Truth!Reached : c # search.column => rowOf'[c] = rowOf[c]
         /\ rowOf' \in [Truth!Reached -> 0 .. problem.rows]
         /\ Reduced(rowOf[way[search.column]], search.column) = 0
<1>1. /\ search.pc = "FLIP" /\ UNCHANGED <<problem, duals, way>>
      /\ rowOf' = [rowOf EXCEPT ![search.column] = rowOf[way[search.column]]]
  BY DEF Truth!Flip
<1>2. /\ search \in [pc : {"ROW", "DONE"}, row : Nat] \cup
                [pc : {"ROW", "GROW", "FLIP", "DONE"}, row : Nat, column : Truth!Reached,
                 used : SUBSET Truth!Reached, min : [Truth!Columns -> Int]]
      /\ rowOf \in [Truth!Reached -> 0 .. problem.rows]
      /\ problem.rows \in Nat
  BY ProblemFacts DEF TruthInv, TruthTypeInv
<1>3. search \notin [pc : {"ROW", "DONE"}, row : Nat]
  <2> SUFFICES ASSUME search \in [pc : {"ROW", "DONE"}, row : Nat] PROVE FALSE
    OBVIOUS
  <2>1. search.pc \in {"ROW", "DONE"}
    OBVIOUS
  <2> QED BY <1>1, <2>1
<1>4. search \in [pc : {"ROW", "GROW", "FLIP", "DONE"}, row : Nat, column : Truth!Reached,
                 used : SUBSET Truth!Reached, min : [Truth!Columns -> Int]]
  BY <1>2, <1>3
<1>5. search.column \in Truth!Reached /\ search.used \subseteq Truth!Reached
  BY <1>4
<1>6. /\ search.column \in Truth!Columns /\ \A c \in search.used : rowOf[c] # 0
  BY <1>1 DEF TruthInv, FlipInv
<1>7. PICK rank \in [Truth!Reached -> Nat] : Leads(rank, rank[search.column])
  BY <1>1 DEF TruthInv, FlipInv
<1>8. search.column \in Tree \ {0}
  BY <1>6, ColumnFacts DEF Tree, TruthInv, TruthTypeInv
<1>9. /\ way[search.column] \in search.used
      /\ rank[way[search.column]] < rank[search.column]
      /\ rank[search.column] <= rank[search.column]
           => Reduced(rowOf[way[search.column]], search.column) = 0
  BY <1>7, <1>8 DEF Leads
<1>10. rank[search.column] \in Nat
  BY <1>5
<1>11. Reduced(rowOf[way[search.column]], search.column) = 0 /\ way[search.column] # search.column
  BY <1>9, <1>10
<1>12. rowOf[way[search.column]] \in Truth!Rows
  <2>1. rowOf[way[search.column]] \in 0 .. problem.rows /\ rowOf[way[search.column]] # 0
    BY <1>2, <1>5, <1>6, <1>9
  <2> QED BY <1>2, <2>1 DEF Truth!Rows
<1>13. /\ rowOf'[search.column] = rowOf[way[search.column]]
       /\ \A c \in Truth!Reached : c # search.column => rowOf'[c] = rowOf[c]
       /\ rowOf' \in [Truth!Reached -> 0 .. problem.rows]
  <2>1. rowOf[way[search.column]] \in 0 .. problem.rows
    BY <1>2, <1>5, <1>9
  <2> QED BY <1>1, <1>2, <1>5, <2>1
<1> QED BY <1>1, <1>4, <1>9, <1>11, <1>12, <1>13

\* Its row is placed; the column before it is without one.
LEMMA FlipMovesTheHole ==
  ASSUME TruthBounds, TruthInv, Truth!Flip, NEW k, k = search.row, NEW b, b = way[search.column]
  PROVE  /\ \A c, d \in Truth!Reached \ {b} : rowOf'[c] = rowOf'[d] /\ rowOf'[c] # 0 => c = d
         /\ \A c \in Truth!Reached \ {b} : rowOf'[c] <= k
         /\ \A r \in 1 .. k : \E c \in Truth!Reached \ {b} : rowOf'[c] = r
         /\ \A c \in (Truth!Reached \ {b}) \ {0} : rowOf'[c] # 0 => Reduced(rowOf[c], c)' = 0
<1> DEFINE e == search.column
<1>1. /\ search \in [pc : {"ROW", "GROW", "FLIP", "DONE"}, row : Nat, column : Truth!Reached,
                        used : SUBSET Truth!Reached, min : [Truth!Columns -> Int]]
      /\ UNCHANGED <<problem, duals, way>>
      /\ b \in search.used /\ b # e /\ rowOf[b] \in Truth!Rows /\ rowOf'[e] = rowOf[b]
      /\ \A c \in Truth!Reached : c # e => rowOf'[c] = rowOf[c]
      /\ Reduced(rowOf[b], e) = 0
  BY FlipFacts
<1>2. /\ Placed(Truth!Reached \ {e}, k) /\ e \in Truth!Columns
  BY DEF TruthInv, FlipInv, Truth!Flip
<1>3. e \in Truth!Reached /\ b \in Truth!Reached /\ b # e
  BY <1>1
<1>4. 0 \notin Truth!Rows
  BY ColumnFacts DEF TruthInv, TruthTypeInv
<1>5. PICK column : column = e
  OBVIOUS
<1>6. /\ rowOf'[column] = rowOf[b] /\ rowOf[b] # 0
      /\ column \in Truth!Reached /\ b \in Truth!Reached \ {column}
      /\ \A c \in Truth!Reached : c # column => rowOf'[c] = rowOf[c]
  BY <1>1, <1>3, <1>4, <1>5
<1>7. /\ \A c, d \in Truth!Reached \ {column} : rowOf[c] = rowOf[d] /\ rowOf[c] # 0 => c = d
      /\ \A c \in Truth!Reached \ {column} : rowOf[c] <= k
      /\ \A r \in 1 .. k : \E c \in Truth!Reached \ {column} : rowOf[c] = r
      /\ \A c \in (Truth!Reached \ {column}) \ {0} : rowOf[c] # 0 => Reduced(rowOf[c], c) = 0
  BY <1>2, <1>5 DEF Placed
<1>8. \A r, c : Reduced(r, c)' = Reduced(r, c)
  BY <1>1 DEF Reduced, Truth!CostOf
<1>9. \A c, d \in Truth!Reached \ {b} : rowOf'[c] = rowOf'[d] /\ rowOf'[c] # 0 => c = d
  <2> SUFFICES ASSUME NEW c \in Truth!Reached \ {b}, NEW d \in Truth!Reached \ {b},
                      rowOf'[c] = rowOf'[d], rowOf'[c] # 0
               PROVE c = d
    OBVIOUS
  <2>1. CASE c = column /\ d # column
    <3>1. rowOf[b] = rowOf[d]
      BY <1>6, <2>1
    <3>2. b = d
      BY <1>6, <1>7, <2>1, <3>1
    <3> QED BY <3>2
  <2>2. CASE c # column /\ d = column
    <3>1. rowOf[c] = rowOf[b]
      BY <1>6, <2>2
    <3>2. c = b
      BY <1>6, <1>7, <2>2, <3>1
    <3> QED BY <3>2
  <2>3. CASE c # column /\ d # column
    BY <1>6, <1>7, <2>3
  <2> QED BY <2>1, <2>2, <2>3
<1>10. \A c \in Truth!Reached \ {b} : rowOf'[c] <= k
  BY <1>6, <1>7
<1>11. \A r \in 1 .. k : \E c \in Truth!Reached \ {b} : rowOf'[c] = r
  <2> SUFFICES ASSUME NEW r \in 1 .. k PROVE \E c \in Truth!Reached \ {b} : rowOf'[c] = r
    OBVIOUS
  <2>1. PICK c \in Truth!Reached \ {column} : rowOf[c] = r
    BY <1>7
  <2>2. CASE c = b
    BY <1>6, <2>1, <2>2
  <2>3. CASE c # b
    BY <1>6, <2>1, <2>3
  <2> QED BY <2>2, <2>3
<1>12. ASSUME NEW c \in (Truth!Reached \ {b}) \ {0}, rowOf'[c] # 0
       PROVE  Reduced(rowOf[c], c)' = 0
  <2>1. PICK r : r = rowOf'[c]
    OBVIOUS
  <2>2. Reduced(r, c) = 0
    <3>1. CASE c = column
      BY <1>1, <1>5, <1>6, <2>1, <3>1
    <3>2. CASE c # column
      BY <1>6, <1>7, <1>12, <2>1, <3>2
    <3> QED BY <3>1, <3>2
  <2>3. Reduced(r, c)' = 0
    BY <1>8, <2>2
  <2> QED BY <2>1, <2>3 DEF Reduced, Truth!CostOf
<1> QED BY <1>9, <1>10, <1>11, <1>12

\* So does a step back along the path.
LEMMA FlipKeepsInv ==
  ASSUME TruthBounds, TruthInv, Truth!Flip
  PROVE  TruthInv'
<1>1. PICK k : k = search.row
  OBVIOUS
<1>2. PICK b : b = way[search.column]
  OBVIOUS
<1>3. /\ search \in [pc : {"ROW", "GROW", "FLIP", "DONE"}, row : Nat, column : Truth!Reached,
                     used : SUBSET Truth!Reached, min : [Truth!Columns -> Int]]
      /\ UNCHANGED <<problem, duals, way>>
      /\ b \in search.used /\ b # search.column /\ rowOf[b] \in Truth!Rows
      /\ rowOf'[search.column] = rowOf[b]
      /\ \A c \in Truth!Reached : c # search.column => rowOf'[c] = rowOf[c]
      /\ rowOf' \in [Truth!Reached -> 0 .. problem.rows]
  BY <1>2, FlipFacts
<1>4. /\ \A c, d \in Truth!Reached \ {b} : rowOf'[c] = rowOf'[d] /\ rowOf'[c] # 0 => c = d
      /\ \A c \in Truth!Reached \ {b} : rowOf'[c] <= k
      /\ \A r \in 1 .. k : \E c \in Truth!Reached \ {b} : rowOf'[c] = r
      /\ \A c \in (Truth!Reached \ {b}) \ {0} : rowOf'[c] # 0 => Reduced(rowOf[c], c)' = 0
  BY <1>1, <1>2, FlipMovesTheHole
<1>5. Truth!Rows' = Truth!Rows /\ Truth!Columns' = Truth!Columns /\ Truth!Reached' = Truth!Reached
  BY <1>3 DEF Truth!Rows, Truth!Columns, Truth!Reached
<1>6. \A r, c : Reduced(r, c)' = Reduced(r, c)
  BY <1>3 DEF Reduced, Truth!CostOf
<1>7. /\ search.pc = "FLIP"
      /\ search' = IF b # 0 THEN [search EXCEPT !.column = b]
                   ELSE [search EXCEPT !.pc = "ROW", !.row = @ + 1]
  BY <1>2 DEF Truth!Flip
<1>8. /\ search.row \in Truth!Rows /\ search.column \in Truth!Columns /\ 0 \in search.used
      /\ \A c \in search.used : rowOf[c] # 0
  BY <1>7 DEF TruthInv, FlipInv
<1>9. /\ Truth!Rows \subseteq Nat /\ 0 \notin Truth!Rows
      /\ Truth!Columns \subseteq Nat /\ 0 \notin Truth!Columns
      /\ Truth!Reached = Truth!Columns \cup {0}
      /\ problem.rows \in Nat /\ Truth!Rows = 1 .. problem.rows
      /\ b \in Truth!Reached /\ search.used \subseteq Truth!Reached
  BY <1>3, ColumnFacts, ProblemFacts DEF TruthInv, TruthTypeInv, Truth!Rows
<1>10. search'.row \in Nat /\ search'.row >= search.row
  <2>1. search.row \in Nat
    BY <1>3
  <2>2. search'.row = search.row \/ search'.row = search.row + 1
    BY <1>3, <1>7
  <2> QED BY <2>1, <2>2
<1>11. PotentialsInv'
  <2>1. \A r \in Truth!Rows, c \in Truth!Columns : Reduced(r, c)' >= 0
    BY <1>6 DEF TruthInv, PotentialsInv
  <2>2. ASSUME NEW r \in Truth!Rows PROVE duals'.u[r] >= 0 /\ (r > search'.row => duals'.u[r] = 0)
    <3>1. r \in Nat /\ search.row \in Nat
      BY <1>8, <1>9
    <3>2. r > search'.row => r > search.row
      BY <1>10, <3>1
    <3> QED BY <1>3, <3>2 DEF TruthInv, PotentialsInv
  <2>3. ASSUME NEW c \in Truth!Columns PROVE duals'.v[c] <= 0 /\ (rowOf'[c] = 0 => duals'.v[c] = 0)
    <3>1. rowOf'[c] = 0 => rowOf[c] = 0
      BY <1>3, <1>9
    <3> QED BY <1>3, <3>1 DEF TruthInv, PotentialsInv
  <2> QED BY <1>5, <2>1, <2>2, <2>3 DEF PotentialsInv
<1>12. TruthTypeInv'
  <2>1. search' \in [pc : {"ROW", "GROW", "FLIP", "DONE"}, row : Nat, column : Truth!Reached,
                     used : SUBSET Truth!Reached, min : [Truth!Columns -> Int]]
    <3>1. CASE b # 0
      BY <1>3, <1>7, <1>9, <3>1
    <3>2. CASE b = 0
      <4>1. search' = [search EXCEPT !.pc = "ROW", !.row = search.row + 1]
        BY <1>7, <3>2
      <4>2. search.row + 1 \in Nat
        BY <1>3
      <4> QED BY <1>3, <4>1, <4>2
    <3> QED BY <3>1, <3>2
  <2> QED BY <1>3, <1>5, <2>1 DEF TruthInv, TruthTypeInv
<1>13. GrowInv'
  <2>1. search'.pc = "FLIP" \/ search'.pc = "ROW"
    BY <1>3, <1>7
  <2> QED BY <2>1 DEF GrowInv
<1>14. CASE b # 0
  <2>1. /\ search'.pc = "FLIP" /\ search'.row = search.row /\ search'.column = b
        /\ search'.used = search.used
    BY <1>3, <1>7, <1>14
  <2>2. RowInv'
    BY <2>1 DEF RowInv
  <2>3. Placed(Truth!Reached \ {search.column}, search.row)'
    BY <1>1, <1>4, <1>5, <2>1 DEF Placed
  <2>4. \A c \in search'.used : rowOf'[c] # 0
    BY <1>3, <1>8, <1>9, <2>1
  <2>5. \E rank \in [Truth!Reached -> Nat] : Leads(rank, rank[search.column])'
    <3>1. PICK rank \in [Truth!Reached -> Nat] : Leads(rank, rank[search.column])
      BY <1>7 DEF TruthInv, FlipInv
    <3>2. /\ \A c \in Truth!Reached : rank[c] \in Nat
          /\ search.column \in Truth!Reached /\ search.column # 0
      BY <1>8, <1>9
    <3>3. rank[b] < rank[search.column]
      <4>1. search.column \in Tree \ {0}
        BY <3>2 DEF Tree
      <4> QED BY <1>2, <3>1, <4>1 DEF Leads
    <3>4. Tree' = search.used
      BY <1>3, <2>1 DEF Tree
    <3>5. ASSUME NEW c \in search.used \ {0}
          PROVE  /\ way'[c] \in search'.used /\ rank[way'[c]] < rank[c]
                 /\ rank[c] <= rank[b] => Reduced(rowOf[way[c]], c)' = 0
      <4>1. c \in Tree \ {0} /\ c \in Truth!Reached
        BY <1>9, <3>5 DEF Tree
      <4>2. /\ way[c] \in search.used /\ rank[way[c]] < rank[c]
            /\ rank[c] <= rank[search.column] => Reduced(rowOf[way[c]], c) = 0
        BY <3>1, <4>1 DEF Leads
      <4>3. ASSUME rank[c] <= rank[b] PROVE Reduced(rowOf[way[c]], c)' = 0
        <5>1. /\ rank[c] \in Nat /\ rank[b] \in Nat /\ rank[search.column] \in Nat
              /\ way[c] \in Truth!Reached
              /\ rank[way[c]] \in Nat
          BY <1>9, <3>2, <4>1, <4>2
        <5>2. rank[c] <= rank[search.column] /\ way[c] # search.column
          BY <3>3, <4>2, <4>3, <5>1
        <5>3. PICK r : r = rowOf[way[c]]
          OBVIOUS
        <5>4. Reduced(r, c) = 0
          BY <4>2, <5>2, <5>3
        <5>5. Reduced(r, c)' = 0
          BY <1>6, <5>4
        <5>6. rowOf'[way'[c]] = r
          BY <1>3, <5>1, <5>2, <5>3
        <5> QED BY <5>5, <5>6 DEF Reduced, Truth!CostOf
      <4> QED BY <1>3, <2>1, <4>2, <4>3
    <3>6. Leads(rank, rank[search.column])'
      BY <2>1, <3>4, <3>5 DEF Leads
    <3> QED BY <3>6
  <2>6. FlipInv'
    BY <1>5, <1>8, <1>9, <1>14, <2>1, <2>3, <2>4, <2>5 DEF FlipInv
  <2> QED BY <1>11, <1>12, <1>13, <2>2, <2>6 DEF TruthInv
<1>15. CASE b = 0
  <2>1. search'.pc = "ROW" /\ search'.row = search.row + 1
    BY <1>3, <1>7, <1>15
  <2>2. k \in Nat /\ k = search.row /\ k \in Truth!Rows /\ search'.row - 1 = k
    BY <1>1, <1>8, <1>9, <2>1
  <2>3. Truth!Reached \ {b} = Truth!Columns /\ (Truth!Reached \ {b}) \ {0} = Truth!Columns \ {0}
    BY <1>9, <1>15
  <2>4. Placed(Truth!Columns, search.row - 1)'
    BY <1>4, <1>5, <2>2, <2>3 DEF Placed
  <2>5. search'.row \in 1 .. problem.rows + 1
    BY <1>9, <2>1, <2>2
  <2>6. search'.row \in Truth!Rows => duals'.u[search'.row] = 0
    <3>1. search'.row > search.row
      BY <2>1, <2>2
    <3> QED BY <1>3, <3>1 DEF TruthInv, PotentialsInv
  <2>7. RowInv'
    BY <1>3, <1>5, <2>1, <2>4, <2>5, <2>6 DEF RowInv
  <2>8. FlipInv'
    BY <2>1 DEF FlipInv
  <2> QED BY <1>11, <1>12, <1>13, <2>7, <2>8 DEF TruthInv
<1> QED BY <1>14, <1>15

\* Whatever was matched, the invariant is kept.
LEMMA MatchingStep ==
  ASSUME TruthBounds
  PROVE  TruthInv /\ [Truth!Next]_Truth!vars => TruthInv'
<1> SUFFICES ASSUME TruthInv, [Truth!Next]_Truth!vars PROVE TruthInv'
  OBVIOUS
<1>1. CASE Truth!StartRow
  BY <1>1, StartRowKeepsInv
<1>2. CASE Truth!Grow
  BY <1>2, GrowKeepsInv
<1>3. CASE Truth!Flip
  BY <1>3, FlipKeepsInv
<1>4. CASE UNCHANGED Truth!vars
  <2>1. UNCHANGED <<problem, duals, rowOf, way, search>>
    BY <1>4 DEF Truth!vars
  <2>2. Truth!Rows' = Truth!Rows /\ Truth!Columns' = Truth!Columns /\ Truth!Reached' = Truth!Reached
    BY <2>1 DEF Truth!Rows, Truth!Columns, Truth!Reached
  <2> QED BY <2>1, <2>2
       DEF TruthInv, TruthTypeInv, PotentialsInv, RowInv, GrowInv, FlipInv, MinInv, Placed, Leads, Tree,
           Reduced, Truth!CostOf
<1> QED BY <1>1, <1>2, <1>3, <1>4 DEF Truth!Next

-----------------------------------------------------------------------------
(* The potentials bound the cost of every matching. *)

\* What an assignment of columns to rows costs, and what the potentials say it must.
CostsOf(f) == [r \in Truth!Rows |-> Truth!CostOf(r, f[r])]
RowPotentials == [r \in Truth!Rows |-> duals.u[r]]
ColumnPotentials == [c \in Truth!Columns |-> duals.v[c]]
Assignments == {f \in [Truth!Rows -> Truth!Columns] : \A q, r \in Truth!Rows : f[q] = f[r] => q = r}

\* Potentials of the columns an assignment uses, and of the others.
LEMMA PotentialsSplit ==
  ASSUME TruthBounds, TruthTypeInv, NEW f \in Assignments
  PROVE  /\ {f[r] : r \in Truth!Rows} \subseteq Truth!Columns
         /\ Sum(ColumnPotentials, Truth!Columns)
              = Sum([r \in Truth!Rows |-> duals.v[f[r]]], Truth!Rows)
                + Sum(ColumnPotentials, Truth!Columns \ {f[r] : r \in Truth!Rows})
         /\ Sum([r \in Truth!Rows |-> duals.u[r] + duals.v[f[r]]], Truth!Rows)
              = Sum(RowPotentials, Truth!Rows) + Sum([r \in Truth!Rows |-> duals.v[f[r]]], Truth!Rows)
         /\ Sum(RowPotentials, Truth!Rows) \in Int
         /\ Sum([r \in Truth!Rows |-> duals.v[f[r]]], Truth!Rows) \in Int
         /\ Sum(ColumnPotentials, Truth!Columns \ {f[r] : r \in Truth!Rows}) \in Int
<1>1. /\ f \in [Truth!Rows -> Truth!Columns] /\ \A q, r \in Truth!Rows : f[q] = f[r] => q = r
      /\ IsFiniteSet(Truth!Rows) /\ IsFiniteSet(Truth!Columns) /\ problem \in Truth!Problems
  BY ColumnFacts DEF Assignments, TruthTypeInv
<1>2. /\ \A r \in Truth!Rows : duals.u[r] \in Int
      /\ \A c \in Truth!Columns : duals.v[c] \in Int
  BY DEF TruthTypeInv, Truth!Reached
<1> DEFINE image == {f[r] : r \in Truth!Rows}
           mine == [r \in Truth!Rows |-> duals.v[f[r]]]
           both == [r \in Truth!Rows |-> duals.u[r] + duals.v[f[r]]]
           V == ColumnPotentials
           U == RowPotentials
<1>3. /\ \A c \in Truth!Columns : V[c] = duals.v[c] /\ V[c] \in Int
      /\ \A r \in Truth!Rows : U[r] = duals.u[r] /\ U[r] \in Int
      /\ \A r \in Truth!Rows : f[r] \in Truth!Columns
      /\ \A r \in Truth!Rows : mine[r] \in Int /\ mine[r] = V[f[r]]
      /\ \A r \in Truth!Rows : both[r] = U[r] + mine[r]
  BY <1>1, <1>2 DEF ColumnPotentials, RowPotentials
<1>4. mine = [r \in Truth!Rows |-> V[f[r]]]
  BY <1>3
<1>5. image \subseteq Truth!Columns
  BY <1>3
<1> HIDE DEF mine, both, V, U
<1>6. IsFiniteSet(image) /\ Sum(V, image) = Sum(mine, Truth!Rows)
  <2>1. \A r \in Truth!Rows : V[f[r]] \in Int
    BY <1>3
  <2>2. /\ IsFiniteSet({f[r] : r \in Truth!Rows})
        /\ Sum(V, {f[r] : r \in Truth!Rows}) = Sum([r \in Truth!Rows |-> V[f[r]]], Truth!Rows)
    <3>1. IsFiniteSet(Truth!Rows) /\ \A q, r \in Truth!Rows : f[q] = f[r] => q = r
      BY <1>1
    <3> QED BY <2>1, <3>1, SumOfImage
  <2> QED BY <1>4, <2>2
<1> HIDE DEF image
<1>7. IsFiniteSet(Truth!Columns \ image) /\ Truth!Columns = image \cup (Truth!Columns \ image)
  BY <1>1, <1>5, FS_Subset
<1>8. Sum(V, image \cup (Truth!Columns \ image)) = Sum(V, image) + Sum(V, Truth!Columns \ image)
  BY <1>3, <1>5, <1>6, <1>7, SumOfUnion
<1>9. Sum(both, Truth!Rows) = Sum(U, Truth!Rows) + Sum(mine, Truth!Rows)
  BY <1>1, <1>3, SumOfSums
<1>10. /\ Sum(U, Truth!Rows) \in Int /\ Sum(mine, Truth!Rows) \in Int
       /\ Sum(V, Truth!Columns \ image) \in Int
  BY <1>1, <1>3, <1>7, SumIsInt
<1>11. Sum(V, Truth!Columns) = Sum(mine, Truth!Rows) + Sum(V, Truth!Columns \ image)
  BY <1>6, <1>7, <1>8
<1> QED BY <1>5, <1>9, <1>10, <1>11 DEF image, mine, both, V, U

\* Who gives every row a column of its own pays the potentials at least.
LEMMA AssignmentsCostMore ==
  ASSUME TruthBounds, TruthInv, NEW f \in Assignments
  PROVE  Sum(RowPotentials, Truth!Rows) + Sum(ColumnPotentials, Truth!Columns)
           <= Sum(CostsOf(f), Truth!Rows)
<1>1. f \in [Truth!Rows -> Truth!Columns] /\ IsFiniteSet(Truth!Rows) /\ IsFiniteSet(Truth!Columns)
  BY ColumnFacts DEF Assignments, TruthInv, TruthTypeInv
<1> DEFINE rest == Truth!Columns \ {f[r] : r \in Truth!Rows}
           mine == [r \in Truth!Rows |-> duals.v[f[r]]]
           both == [r \in Truth!Rows |-> duals.u[r] + duals.v[f[r]]]
           none == [c \in Truth!Columns |-> 0]
<1>2. /\ Sum(ColumnPotentials, Truth!Columns) = Sum(mine, Truth!Rows) + Sum(ColumnPotentials, rest)
      /\ Sum(both, Truth!Rows) = Sum(RowPotentials, Truth!Rows) + Sum(mine, Truth!Rows)
      /\ Sum(RowPotentials, Truth!Rows) \in Int /\ Sum(mine, Truth!Rows) \in Int
      /\ Sum(ColumnPotentials, rest) \in Int
  BY PotentialsSplit DEF TruthInv
<1>3. rest \subseteq Truth!Columns /\ IsFiniteSet(rest)
  BY <1>1, FS_Subset
<1>4. Sum(ColumnPotentials, rest) <= 0
  <2>1. ASSUME NEW c \in rest
        PROVE  /\ ColumnPotentials[c] \in Int /\ none[c] \in Int
               /\ ColumnPotentials[c] <= none[c] /\ none[c] = 0
    <3>1. c \in Truth!Columns /\ c \in Truth!Reached
      BY <1>3 DEF Truth!Reached
    <3>2. ColumnPotentials[c] = duals.v[c] /\ none[c] = 0
      BY <3>1 DEF ColumnPotentials
    <3> QED BY <3>1, <3>2 DEF TruthInv, TruthTypeInv, PotentialsInv
  <2> HIDE DEF rest, none
  <2>2. Sum(ColumnPotentials, rest) <= Sum(none, rest)
    BY <1>3, <2>1, SumIsMonotone
  <2>3. Sum(none, rest) = 0 * Cardinality(rest) /\ Cardinality(rest) \in Nat
    BY <1>3, <2>1, SumOfEquals, FS_CardinalityType
  <2>4. Sum(none, rest) = 0
    BY <2>3
  <2> QED BY <2>2, <2>4
<1>5. Sum(both, Truth!Rows) <= Sum(CostsOf(f), Truth!Rows) /\ Sum(CostsOf(f), Truth!Rows) \in Int
  <2>1. ASSUME NEW r \in Truth!Rows
        PROVE  /\ both[r] \in Int /\ CostsOf(f)[r] \in Int /\ both[r] <= CostsOf(f)[r]
    <3>1. f[r] \in Truth!Columns
      BY <1>1
    <3>2. /\ duals.u[r] \in Int /\ duals.v[f[r]] \in Int /\ Truth!CostOf(r, f[r]) \in Nat
          /\ Reduced(r, f[r]) = Truth!CostOf(r, f[r]) - duals.u[r] - duals.v[f[r]]
      BY <3>1, ReducedIsInt DEF TruthInv
    <3>3. Reduced(r, f[r]) >= 0
      BY <3>1 DEF TruthInv, PotentialsInv
    <3>4. CostsOf(f)[r] = Truth!CostOf(r, f[r]) /\ both[r] = duals.u[r] + duals.v[f[r]]
      BY DEF CostsOf
    <3> QED BY <3>2, <3>3, <3>4
  <2> HIDE DEF both
  <2> QED BY <1>1, <2>1, SumIsMonotone, SumIsInt
<1> HIDE DEF both, mine, rest
<1> QED BY <1>2, <1>4, <1>5

\* The places cost what the potentials say.
Places == [r \in Truth!Rows |-> CHOOSE c \in Truth!Columns : rowOf[c] = r]

\* The places the algorithm gives cost what the potentials say.
LEMMA PlacesCostLeast ==
  ASSUME TruthBounds, TruthInv, search.pc = "DONE"
  PROVE  /\ Places \in Assignments
         /\ \A r \in Truth!Rows : Places[r] \in Truth!Columns /\ rowOf[Places[r]] = r
         /\ \A c \in Truth!Columns : rowOf[c] # 0 => rowOf[c] \in Truth!Rows /\ Places[rowOf[c]] = c
         /\ Sum(CostsOf(Places), Truth!Rows)
              = Sum(RowPotentials, Truth!Rows) + Sum(ColumnPotentials, Truth!Columns)
<1>1. /\ problem.rows \in Nat /\ Truth!Rows = 1 .. problem.rows
      /\ IsFiniteSet(Truth!Rows) /\ IsFiniteSet(Truth!Columns)
      /\ Truth!Rows \subseteq Nat /\ 0 \notin Truth!Rows
      /\ Truth!Columns \subseteq Nat /\ 0 \notin Truth!Columns
  BY ProblemFacts, ColumnFacts DEF TruthInv, TruthTypeInv, Truth!Rows
<1>2. Placed(Truth!Columns, problem.rows)
  <2>1. Placed(Truth!Columns, search.row - 1) /\ search.row = problem.rows + 1
    BY DEF TruthInv, RowInv
  <2>2. search.row - 1 = problem.rows
    BY <1>1, <2>1
  <2> QED BY <2>1, <2>2
<1>3. \A r \in Truth!Rows : Places[r] \in Truth!Columns /\ rowOf[Places[r]] = r
  BY <1>1, <1>2 DEF Places, Placed
<1>4. \A c \in Truth!Columns : rowOf[c] # 0 => rowOf[c] \in Truth!Rows /\ Places[rowOf[c]] = c
  <2> SUFFICES ASSUME NEW c \in Truth!Columns, rowOf[c] # 0
               PROVE  rowOf[c] \in Truth!Rows /\ Places[rowOf[c]] = c
    OBVIOUS
  <2>1. rowOf[c] \in Truth!Rows
    BY <1>1 DEF TruthInv, TruthTypeInv, Truth!Reached
  <2>2. Places[rowOf[c]] \in Truth!Columns /\ rowOf[Places[rowOf[c]]] = rowOf[c]
    BY <1>3, <2>1
  <2> QED BY <1>2, <2>1, <2>2 DEF Placed
<1>5. Places \in Assignments
  <2>1. Places \in [Truth!Rows -> Truth!Columns]
    BY <1>3 DEF Places
  <2>2. \A q, r \in Truth!Rows : Places[q] = Places[r] => q = r
    BY <1>3
  <2> QED BY <2>1, <2>2 DEF Assignments
<1> DEFINE f == Places
           rest == Truth!Columns \ {f[r] : r \in Truth!Rows}
           mine == [r \in Truth!Rows |-> duals.v[f[r]]]
           both == [r \in Truth!Rows |-> duals.u[r] + duals.v[f[r]]]
<1>6. /\ Sum(ColumnPotentials, Truth!Columns) = Sum(mine, Truth!Rows) + Sum(ColumnPotentials, rest)
      /\ Sum(both, Truth!Rows) = Sum(RowPotentials, Truth!Rows) + Sum(mine, Truth!Rows)
      /\ Sum(RowPotentials, Truth!Rows) \in Int /\ Sum(mine, Truth!Rows) \in Int
      /\ Sum(ColumnPotentials, rest) \in Int
  BY <1>5, PotentialsSplit DEF TruthInv
<1>7. Sum(ColumnPotentials, rest) = 0
  <2>1. ASSUME NEW c \in rest PROVE ColumnPotentials[c] = 0
    <3>1. c \in Truth!Columns /\ \A r \in Truth!Rows : Places[r] # c
      BY <2>1
    <3>2. rowOf[c] = 0
      BY <1>4, <3>1
    <3>3. duals.v[c] = 0
      BY <3>1, <3>2 DEF TruthInv, PotentialsInv
    <3> QED BY <3>1, <3>3 DEF ColumnPotentials
  <2>2. IsFiniteSet(rest)
    BY <1>1, FS_Subset
  <2> HIDE DEF rest
  <2>3. Sum(ColumnPotentials, rest) = 0 * Cardinality(rest) /\ Cardinality(rest) \in Nat
    BY <2>1, <2>2, SumOfEquals, FS_CardinalityType
  <2> QED BY <2>3
<1>8. Sum(both, Truth!Rows) = Sum(CostsOf(f), Truth!Rows)
  <2>1. ASSUME NEW r \in Truth!Rows PROVE both[r] = CostsOf(f)[r]
    <3>1. f[r] \in Truth!Columns /\ rowOf[f[r]] = r /\ r # 0 /\ f[r] # 0
      BY <1>1, <1>3
    <3>2. Reduced(rowOf[f[r]], f[r]) = 0
      BY <1>2, <3>1 DEF Placed
    <3>3. Reduced(r, f[r]) = 0
      BY <3>1, <3>2
    <3>4. /\ duals.u[r] \in Int /\ duals.v[f[r]] \in Int /\ Truth!CostOf(r, f[r]) \in Nat
          /\ Reduced(r, f[r]) = Truth!CostOf(r, f[r]) - duals.u[r] - duals.v[f[r]]
      BY <3>1, ReducedIsInt DEF TruthInv
    <3>5. CostsOf(f)[r] = Truth!CostOf(r, f[r]) /\ both[r] = duals.u[r] + duals.v[f[r]]
      BY DEF CostsOf
    <3> QED BY <3>3, <3>4, <3>5
  <2> HIDE DEF both, f
  <2> QED BY <1>1, <2>1, SameSums
<1>9. Sum(CostsOf(f), Truth!Rows)
        = Sum(RowPotentials, Truth!Rows) + Sum(ColumnPotentials, Truth!Columns)
  <2> HIDE DEF both, mine, rest, f
  <2> QED BY <1>6, <1>7, <1>8
<1> QED BY <1>3, <1>4, <1>5, <1>9

-----------------------------------------------------------------------------
(* Matchings are assignments: rows without a true armour have their own columns. *)

Truths == 1 .. problem.truths
Matched(m) == {r \in Truth!Rows : \E c \in Truths : <<r, c>> \in m}
Mate(m, r) == CHOOSE c \in Truths : <<r, c>> \in m
Mates(m) == [r \in Truth!Rows |-> IF r \in Matched(m) THEN Mate(m, r) ELSE problem.truths + r]

\* A matching gives a row one true armour, and no two rows the same.
LEMMA TruthMatchingFacts ==
  ASSUME NEW m \in Truth!Matchings
  PROVE  /\ \A e \in m : /\ e \in Truth!Rows \X Truths /\ problem.cost[e] < 10
                         /\ e[1] \in Matched(m) /\ e = <<e[1], Mate(m, e[1])>>
         /\ \A r \in Matched(m) : r \in Truth!Rows /\ Mate(m, r) \in Truths /\ <<r, Mate(m, r)>> \in m
         /\ \A q, r \in Matched(m) : Mate(m, q) = Mate(m, r) => q = r
<1>1. /\ m \subseteq {pair \in Truth!Rows \X Truths : problem.cost[pair] < 10}
      /\ \A a, b \in m : a # b => a[1] # b[1] /\ a[2] # b[2]
  BY DEF Truth!Matchings, Truths, Truth!Unmatched
<1>2. \A r \in Matched(m) : r \in Truth!Rows /\ Mate(m, r) \in Truths /\ <<r, Mate(m, r)>> \in m
  BY DEF Matched, Mate
<1>3. ASSUME NEW e \in m
      PROVE  /\ e \in Truth!Rows \X Truths /\ problem.cost[e] < 10
             /\ e[1] \in Matched(m) /\ e = <<e[1], Mate(m, e[1])>>
  <2>1. e \in Truth!Rows \X Truths /\ problem.cost[e] < 10 /\ e = <<e[1], e[2]>>
        /\ e[1] \in Truth!Rows /\ e[2] \in Truths
    BY <1>1
  <2>2. e[1] \in Matched(m)
    BY <2>1 DEF Matched
  <2>3. <<e[1], Mate(m, e[1])>> \in m
    BY <1>2, <2>2
  <2>4. <<e[1], Mate(m, e[1])>>[1] = e[1]
    OBVIOUS
  <2>5. e = <<e[1], Mate(m, e[1])>>
    BY <1>1, <2>3, <2>4
  <2> QED BY <2>1, <2>2, <2>5
<1>4. ASSUME NEW q \in Matched(m), NEW r \in Matched(m), Mate(m, q) = Mate(m, r) PROVE q = r
  <2>1. <<q, Mate(m, q)>> \in m /\ <<r, Mate(m, r)>> \in m
    BY <1>2
  <2>2. <<q, Mate(m, q)>>[2] = <<r, Mate(m, r)>>[2]
    BY <1>4
  <2>3. <<q, Mate(m, q)>> = <<r, Mate(m, r)>>
    BY <1>1, <2>1, <2>2
  <2> QED BY <2>3
<1> QED BY <1>2, <1>3, <1>4

\* With columns of their own for the other rows it is an assignment of all.
LEMMA MatesAreAssigned ==
  ASSUME TruthBounds, problem \in Truth!Problems, NEW m \in Truth!Matchings
  PROVE  /\ Mates(m) \in Assignments
         /\ \A r \in Truth!Rows : CostsOf(Mates(m))[r] =
              IF r \in Matched(m) THEN problem.cost[<<r, Mate(m, r)>>] ELSE 10
         /\ \A r \in Truth!Rows : CostsOf(Mates(m))[r] \in Nat
<1>1. /\ problem.truths \in Nat /\ problem.rows \in Nat /\ Truth!Rows = 1 .. problem.rows
      /\ \A r \in Truth!Rows : problem.truths + r \in Truth!Columns
      /\ Truth!Rows \subseteq Nat /\ 0 \notin Truth!Rows
  BY ProblemFacts, ColumnFacts DEF Truth!Rows
<1>2. /\ \A r \in Matched(m) : r \in Truth!Rows /\ Mate(m, r) \in Truths /\ <<r, Mate(m, r)>> \in m
      /\ \A q, r \in Matched(m) : Mate(m, q) = Mate(m, r) => q = r
  BY TruthMatchingFacts
<1>3. ASSUME NEW c \in Truths PROVE c \in Truth!Columns /\ c <= problem.truths
  BY <1>1 DEF Truths, Truth!Columns
<1>4. /\ \A r \in Truth!Rows : r \in Matched(m) => Mates(m)[r] = Mate(m, r)
      /\ \A r \in Truth!Rows : r \notin Matched(m) => Mates(m)[r] = problem.truths + r
  BY DEF Mates
<1>5. \A r \in Truth!Rows : Mates(m)[r] \in Truth!Columns
  BY <1>1, <1>2, <1>3, <1>4
<1>6. Mates(m) \in [Truth!Rows -> Truth!Columns]
  BY <1>5 DEF Mates
<1>7. ASSUME NEW q \in Truth!Rows, NEW r \in Truth!Rows, Mates(m)[q] = Mates(m)[r] PROVE q = r
  <2>1. CASE q \in Matched(m) /\ r \in Matched(m)
    BY <1>2, <1>4, <1>7, <2>1
  <2>2. CASE q \in Matched(m) /\ r \notin Matched(m)
    <3>1. Mates(m)[q] = Mate(m, q) /\ Mates(m)[r] = problem.truths + r
      BY <1>4, <2>2
    <3>2. Mate(m, q) <= problem.truths
      BY <1>2, <1>3, <2>2
    <3>3. problem.truths + r <= problem.truths
      BY <1>7, <3>1, <3>2
    <3>4. r > 0 /\ r \in Nat
      BY <1>1
    <3> QED BY <1>1, <3>3, <3>4
  <2>3. CASE q \notin Matched(m) /\ r \in Matched(m)
    <3>1. Mates(m)[r] = Mate(m, r) /\ Mates(m)[q] = problem.truths + q
      BY <1>4, <2>3
    <3>2. Mate(m, r) <= problem.truths
      BY <1>2, <1>3, <2>3
    <3>3. problem.truths + q <= problem.truths
      BY <1>7, <3>1, <3>2
    <3>4. q > 0 /\ q \in Nat
      BY <1>1
    <3> QED BY <1>1, <3>3, <3>4
  <2>4. CASE q \notin Matched(m) /\ r \notin Matched(m)
    <3>1. problem.truths + q = problem.truths + r /\ q \in Nat /\ r \in Nat
      BY <1>1, <1>4, <1>7, <2>4
    <3> QED BY <1>1, <3>1
  <2> QED BY <2>1, <2>2, <2>3, <2>4
<1>8. ASSUME NEW r \in Truth!Rows
      PROVE  /\ CostsOf(Mates(m))[r] =
                  IF r \in Matched(m) THEN problem.cost[<<r, Mate(m, r)>>] ELSE 10
             /\ CostsOf(Mates(m))[r] \in Nat
  <2>1. CostsOf(Mates(m))[r] = Truth!CostOf(r, Mates(m)[r]) /\ CostsOf(Mates(m))[r] \in Nat
    BY <1>5, CostIsNat DEF CostsOf
  <2>2. CASE r \in Matched(m)
    BY <1>2, <1>3, <1>4, <2>1, <2>2, CostIsNat
  <2>3. CASE r \notin Matched(m)
    <3>1. problem.truths + r \in Truth!Columns /\ problem.truths + r > problem.truths
      BY <1>1
    <3>2. Truth!CostOf(r, problem.truths + r) = 10
      BY <3>1, CostIsNat
    <3> QED BY <1>4, <2>1, <2>3, <3>2
  <2> QED BY <2>1, <2>2, <2>3
<1> QED BY <1>6, <1>7, <1>8 DEF Assignments

\* The total of a matching is the cost of its assignment.
LEMMA TotalIsSum ==
  ASSUME TruthBounds, problem \in Truth!Problems, NEW m \in Truth!Matchings
  PROVE  Truth!Total(m) = Sum(CostsOf(Mates(m)), Truth!Rows)
<1>1. IsFiniteSet(Truth!Rows) /\ Cardinality(Truth!Rows) = problem.rows /\ problem.rows \in Nat
  BY ProblemFacts, ColumnFacts
<1>2. /\ \A e \in m : /\ e \in Truth!Rows \X Truths
                      /\ e[1] \in Matched(m) /\ e = <<e[1], Mate(m, e[1])>>
      /\ \A r \in Matched(m) : r \in Truth!Rows /\ Mate(m, r) \in Truths /\ <<r, Mate(m, r)>> \in m
      /\ problem.cost \in [Truth!Rows \X Truths -> Nat]
  BY TruthMatchingFacts, ProblemFacts DEF Truths
<1> DEFINE M == Matched(m)
           g == [r \in M |-> <<r, Mate(m, r)>>]
           costs == CostsOf(Mates(m))
           ones == [e \in m |-> 1]
<1>3. M \subseteq Truth!Rows /\ IsFiniteSet(M) /\ Cardinality(M) \in Nat
  BY <1>1, <1>2, FS_Subset, FS_CardinalityType
<1>4. {g[r] : r \in M} = m
  <2>1. \A r \in M : g[r] \in m
    BY <1>2
  <2>2. \A e \in m : e[1] \in M /\ g[e[1]] = e
    BY <1>2
  <2> HIDE DEF g
  <2> QED BY <2>1, <2>2
<1>5. \A q, r \in M : g[q] = g[r] => q = r
  OBVIOUS
<1>6. /\ \A r \in M : problem.cost[g[r]] \in Int /\ problem.cost[g[r]] = costs[r]
      /\ \A r \in M : ones[g[r]] \in Int /\ ones[g[r]] = 1
      /\ \A r \in Truth!Rows \ M : costs[r] = 10
      /\ \A r \in Truth!Rows : costs[r] \in Int
  <2>1. /\ \A r \in Truth!Rows : costs[r] =
             IF r \in Matched(m) THEN problem.cost[<<r, Mate(m, r)>>] ELSE 10
        /\ \A r \in Truth!Rows : costs[r] \in Nat
    BY MatesAreAssigned
  <2>2. \A r \in M : g[r] = <<r, Mate(m, r)>> /\ g[r] \in m
    BY <1>2
  <2>3. \A r \in M : ones[g[r]] = 1
    BY <2>2
  <2> HIDE DEF costs, g, ones
  <2>4. ASSUME NEW r \in M PROVE problem.cost[g[r]] \in Int /\ problem.cost[g[r]] = costs[r]
    <3>1. r \in Truth!Rows /\ r \in Matched(m) /\ g[r] = <<r, Mate(m, r)>>
      BY <1>3, <2>2
    <3>2. costs[r] = problem.cost[<<r, Mate(m, r)>>] /\ costs[r] \in Nat
      BY <2>1, <3>1
    <3> QED BY <3>1, <3>2
  <2>5. \A r \in Truth!Rows \ M : costs[r] = 10
    BY <2>1
  <2>6. \A r \in Truth!Rows : costs[r] \in Int
    BY <2>1
  <2> QED BY <2>3, <2>4, <2>5, <2>6
<1> HIDE DEF g, costs, ones, M
<1>7. IsFiniteSet(m) /\ Sum(problem.cost, m) = Sum(costs, M)
  <2>1. /\ IsFiniteSet({g[r] : r \in M})
        /\ Sum(problem.cost, {g[r] : r \in M}) = Sum([r \in M |-> problem.cost[g[r]]], M)
    <3> DEFINE price == problem.cost
    <3>1. \A r \in M : price[g[r]] \in Int
      BY <1>6
    <3>2. /\ IsFiniteSet({g[r] : r \in M})
          /\ Sum(price, {g[r] : r \in M}) = Sum([r \in M |-> price[g[r]]], M)
      <4> HIDE DEF price
      <4> QED BY <1>3, <1>5, <3>1, SumOfImage
    <3> QED BY <3>2
  <2>2. Sum([r \in M |-> problem.cost[g[r]]], M) = Sum(costs, M)
    <3> DEFINE c == [r \in M |-> problem.cost[g[r]]]
    <3>1. \A r \in M : c[r] = costs[r]
      BY <1>6
    <3>2. Sum(c, M) = Sum(costs, M)
      <4> HIDE DEF c
      <4> QED BY <1>3, <3>1, SameSums
    <3> QED BY <3>2
  <2> QED BY <1>4, <2>1, <2>2
<1>8. Cardinality(m) = Cardinality(M)
  <2>1. Sum(ones, {g[r] : r \in M}) = Sum([r \in M |-> ones[g[r]]], M)
    BY <1>3, <1>5, <1>6, SumOfImage
  <2>2. Sum([r \in M |-> ones[g[r]]], M) = 1 * Cardinality(M)
    <3> DEFINE c == [r \in M |-> ones[g[r]]]
    <3>1. \A r \in M : c[r] = 1
      BY <1>6
    <3>2. Sum(c, M) = 1 * Cardinality(M)
      <4> HIDE DEF c
      <4> QED BY <1>3, <3>1, SumOfEquals
    <3> QED BY <3>2
  <2>3. Sum(ones, m) = 1 * Cardinality(m) /\ Cardinality(m) \in Nat
    <3>1. \A e \in m : ones[e] = 1
      BY DEF ones
    <3> QED BY <1>7, <3>1, SumOfEquals, FS_CardinalityType
  <2>4. Sum(ones, m) = 1 * Cardinality(M)
    BY <1>4, <2>1, <2>2
  <2> QED BY <1>3, <2>3, <2>4
<1>9. /\ IsFiniteSet(Truth!Rows \ M) /\ Cardinality(Truth!Rows \ M) = problem.rows - Cardinality(M)
  <2>1. Truth!Rows \cap M = M
    BY <1>3
  <2>2. /\ IsFiniteSet(Truth!Rows \ M)
        /\ Cardinality(Truth!Rows \ M) = Cardinality(Truth!Rows) - Cardinality(Truth!Rows \cap M)
    <3> DEFINE all == Truth!Rows
    <3>1. IsFiniteSet(all)
      BY <1>1
    <3>2. /\ IsFiniteSet(all \ M)
          /\ Cardinality(all \ M) = Cardinality(all) - Cardinality(all \cap M)
      <4> HIDE DEF all
      <4> QED BY <3>1, FS_Difference
    <3> QED BY <3>2
  <2> QED BY <1>1, <2>1, <2>2
<1>10. Sum(costs, Truth!Rows \ M) = 10 * (problem.rows - Cardinality(M))
  BY <1>6, <1>9, SumOfEquals
<1>11. Sum(costs, Truth!Rows) = Sum(costs, M) + Sum(costs, Truth!Rows \ M)
  <2>1. Truth!Rows = M \cup (Truth!Rows \ M) /\ M \cap (Truth!Rows \ M) = {}
    BY <1>3
  <2>2. Sum(costs, M \cup (Truth!Rows \ M)) = Sum(costs, M) + Sum(costs, Truth!Rows \ M)
    BY <1>3, <1>6, <1>9, <2>1, SumOfUnion
  <2> QED BY <2>1, <2>2
<1>12. Truth!Total(m) = Sum(problem.cost, m) + 10 * (problem.rows - Cardinality(m))
  <2>1. Truth!Cardinality(m) = Cardinality(m)
    BY DEF Truth!Cardinality, Cardinality
  <2>2. Truth!MapThenSumSet(LAMBDA pair : problem.cost[pair], m) = Sum(problem.cost, m)
    BY DEF Sum, MapThenSumSet, Truth!MapThenSumSet, MapThenFoldSet, Truth!MapThenFoldSet
  <2> QED BY <2>1, <2>2 DEF Truth!Total, Truth!Unmatched
<1> QED BY <1>7, <1>8, <1>10, <1>11, <1>12 DEF costs

\* What is reported is a matching: a column has one row, and a row one column.
LEMMA MatchesMatch ==
  ASSUME TruthBounds, TruthInv, search.pc = "DONE"
  PROVE  Truth!Matches \in Truth!Matchings
<1>1. \A c \in Truth!Columns : rowOf[c] # 0 => rowOf[c] \in Truth!Rows /\ Places[rowOf[c]] = c
  BY PlacesCostLeast
<1>2. problem.truths \in Nat /\ problem.rows \in Nat
  BY ProblemFacts DEF TruthInv, TruthTypeInv
<1>3. ASSUME NEW e \in Truth!Matches
      PROVE  /\ e = <<rowOf[e[2]], e[2]>> /\ e[2] \in Truth!Columns /\ rowOf[e[2]] # 0
             /\ e \in Truth!Rows \X (1 .. problem.truths) /\ problem.cost[e] < Truth!Unmatched
  <2>1. PICK c \in 1 .. problem.truths : /\ rowOf[c] # 0 /\ Truth!CostOf(rowOf[c], c) < Truth!Unmatched
                                         /\ e = <<rowOf[c], c>>
    BY DEF Truth!Matches
  <2>2. c \in Truth!Columns /\ c <= problem.truths
    BY <1>2 DEF Truth!Columns
  <2>3. rowOf[c] \in Truth!Rows
    BY <1>1, <2>1, <2>2
  <2>4. Truth!CostOf(rowOf[c], c) = problem.cost[<<rowOf[c], c>>]
    BY <2>2, <2>3, CostIsNat DEF TruthInv, TruthTypeInv
  <2> QED BY <2>1, <2>2, <2>3, <2>4
<1>4. ASSUME NEW a \in Truth!Matches, NEW b \in Truth!Matches, a # b PROVE a[1] # b[1] /\ a[2] # b[2]
  <2>1. /\ a = <<rowOf[a[2]], a[2]>> /\ a[2] \in Truth!Columns /\ rowOf[a[2]] # 0
        /\ b = <<rowOf[b[2]], b[2]>> /\ b[2] \in Truth!Columns /\ rowOf[b[2]] # 0
    BY <1>3
  <2>2. a[2] # b[2]
    BY <1>4, <2>1
  <2>3. a[1] = rowOf[a[2]] /\ b[1] = rowOf[b[2]]
    BY <2>1
  <2>4. Places[a[1]] = a[2] /\ Places[b[1]] = b[2]
    BY <1>1, <2>1, <2>3
  <2> QED BY <2>2, <2>4
<1> DEFINE pairs == {pair \in Truth!Rows \X (1 .. problem.truths) :
                       problem.cost[pair] < Truth!Unmatched}
<1>5. Truth!Matches \subseteq pairs
  BY <1>3
<1> QED BY <1>4, <1>5 DEF Truth!Matchings

\* It costs no more than the places: where the pair is as dear as none, none is reported.
LEMMA MatchesCostLeast ==
  ASSUME TruthBounds, TruthInv, search.pc = "DONE"
  PROVE  Sum(CostsOf(Mates(Truth!Matches)), Truth!Rows) <= Sum(CostsOf(Places), Truth!Rows)
<1>1. /\ problem \in Truth!Problems /\ IsFiniteSet(Truth!Rows) /\ Truth!Matches \in Truth!Matchings
      /\ problem.truths \in Nat
  BY ProblemFacts, ColumnFacts, MatchesMatch DEF TruthInv, TruthTypeInv
<1>2. /\ \A r \in Truth!Rows : Places[r] \in Truth!Columns /\ rowOf[Places[r]] = r
      /\ \A c \in Truth!Columns : rowOf[c] # 0 => rowOf[c] \in Truth!Rows /\ Places[rowOf[c]] = c
  BY PlacesCostLeast
<1>3. /\ \A r \in Truth!Rows : CostsOf(Mates(Truth!Matches))[r] =
           IF r \in Matched(Truth!Matches) THEN problem.cost[<<r, Mate(Truth!Matches, r)>>] ELSE 10
      /\ \A r \in Truth!Rows : CostsOf(Mates(Truth!Matches))[r] \in Nat
  BY <1>1, MatesAreAssigned
<1>4. ASSUME NEW r \in Truth!Rows
      PROVE  /\ CostsOf(Mates(Truth!Matches))[r] \in Int /\ CostsOf(Places)[r] \in Int
             /\ CostsOf(Mates(Truth!Matches))[r] <= CostsOf(Places)[r]
  <2> DEFINE c == Places[r]
  <2>1. c \in Truth!Columns /\ rowOf[c] = r /\ r # 0 /\ c \in Nat /\ c >= 1
    BY <1>1, <1>2, ColumnFacts, ProblemFacts DEF Truth!Columns
  <2>2. CostsOf(Places)[r] = Truth!CostOf(r, c) /\ Truth!CostOf(r, c) \in Nat
    BY <1>1, <2>1, CostIsNat DEF CostsOf
  <2>3. CASE r \in Matched(Truth!Matches)
    <3>1. Mate(Truth!Matches, r) \in Truths /\ <<r, Mate(Truth!Matches, r)>> \in Truth!Matches
      BY <1>1, <2>3, TruthMatchingFacts
    <3>2. PICK d \in 1 .. problem.truths :
                 <<r, Mate(Truth!Matches, r)>> = <<rowOf[d], d>> /\ rowOf[d] # 0
      BY <3>1 DEF Truth!Matches
    <3>3. rowOf[d] = r /\ Mate(Truth!Matches, r) = d
      BY <3>2
    <3>4. d \in Truth!Columns /\ d <= problem.truths
      BY <1>1, ProblemFacts DEF Truth!Columns
    <3>5. c = d
      BY <1>2, <3>2, <3>3, <3>4
    <3>6. Truth!CostOf(r, c) = problem.cost[<<r, Mate(Truth!Matches, r)>>]
      BY <1>1, <3>3, <3>4, <3>5, CostIsNat
    <3> QED BY <1>3, <2>2, <2>3, <3>6
  <2>4. CASE r \notin Matched(Truth!Matches)
    <3>1. CostsOf(Mates(Truth!Matches))[r] = 10
      BY <1>3, <2>4
    <3>2. CASE c > problem.truths
      <4>1. Truth!CostOf(r, c) = 10
        BY <1>1, <2>1, <3>2, CostIsNat
      <4> QED BY <2>2, <3>1, <4>1
    <3>3. CASE ~(c > problem.truths)
      <4>1. c \in 1 .. problem.truths
        BY <1>1, <2>1, <3>3
      <4>2. <<r, c>> \notin Truth!Matches
        BY <2>4, <4>1 DEF Matched, Truths
      <4>3. ~(Truth!CostOf(rowOf[c], c) < Truth!Unmatched)
        BY <2>1, <4>1, <4>2 DEF Truth!Matches
      <4>4. Truth!CostOf(r, c) >= 10
        BY <2>1, <2>2, <4>3 DEF Truth!Unmatched
      <4> QED BY <2>2, <3>1, <4>4
    <3> QED BY <3>2, <3>3
  <2> QED BY <2>3, <2>4
<1> QED BY <1>1, <1>4, SumIsMonotone

\* When every row has its place, the matching costs what the potentials say, and none less;
\* before that they prove the places given so far.
LEMMA TruthInvIsSound ==
  ASSUME TruthBounds
  PROVE  TruthInv => Truth!MatchingIsOptimal /\ Truth!PlacesAreProved
<1>1. TruthInv => Truth!MatchingIsOptimal
  <2> SUFFICES ASSUME TruthInv, search.pc = "DONE"
               PROVE  /\ Truth!Matches \in Truth!Matchings
                      /\ \A m \in Truth!Matchings : Truth!Total(Truth!Matches) <= Truth!Total(m)
    BY DEF Truth!MatchingIsOptimal
  <2>1. Truth!Matches \in Truth!Matchings
    BY MatchesMatch
  <2>2. ASSUME NEW m \in Truth!Matchings PROVE Truth!Total(Truth!Matches) <= Truth!Total(m)
    <3>1. problem \in Truth!Problems /\ IsFiniteSet(Truth!Rows) /\ TruthTypeInv
      BY ColumnFacts DEF TruthInv, TruthTypeInv
    <3>2. /\ Truth!Total(Truth!Matches) = Sum(CostsOf(Mates(Truth!Matches)), Truth!Rows)
          /\ Truth!Total(m) = Sum(CostsOf(Mates(m)), Truth!Rows)
      BY <2>1, <3>1, TotalIsSum
    <3>3. Sum(CostsOf(Mates(Truth!Matches)), Truth!Rows) <= Sum(CostsOf(Places), Truth!Rows)
      BY MatchesCostLeast
    <3>4. Sum(CostsOf(Places), Truth!Rows)
            = Sum(RowPotentials, Truth!Rows) + Sum(ColumnPotentials, Truth!Columns)
      BY PlacesCostLeast
    <3>5. Sum(RowPotentials, Truth!Rows) + Sum(ColumnPotentials, Truth!Columns)
            <= Sum(CostsOf(Mates(m)), Truth!Rows)
      BY <3>1, MatesAreAssigned, AssignmentsCostMore
    <3>6. /\ Sum(CostsOf(Mates(Truth!Matches)), Truth!Rows) \in Int
          /\ Sum(CostsOf(Mates(m)), Truth!Rows) \in Int
      <4>1. /\ \A r \in Truth!Rows : CostsOf(Mates(Truth!Matches))[r] \in Int
            /\ \A r \in Truth!Rows : CostsOf(Mates(m))[r] \in Int
        BY <2>1, <3>1, MatesAreAssigned
      <4> QED BY <3>1, <4>1, SumIsInt
    <3>7. Sum(CostsOf(Places), Truth!Rows) \in Int
      <4>1. ASSUME NEW r \in Truth!Rows PROVE CostsOf(Places)[r] \in Int
        <5>1. Places[r] \in Truth!Columns
          BY PlacesCostLeast
        <5>2. Truth!CostOf(r, Places[r]) \in Nat
          BY <3>1, <5>1, CostIsNat
        <5> QED BY <5>2 DEF CostsOf
      <4> QED BY <3>1, <4>1, SumIsInt
    <3> QED BY <3>2, <3>3, <3>4, <3>5, <3>6, <3>7
  <2> QED BY <2>1, <2>2
<1>2. TruthInv => Truth!PlacesAreProved
  <2> SUFFICES ASSUME TruthInv, search.pc = "ROW", NEW r \in 1 .. search.row - 1
               PROVE  \E c \in Truth!Columns :
                        /\ rowOf[c] = r
                        /\ Truth!CostOf(r, c) = duals.u[r] + duals.v[c]
                        /\ \A d \in Truth!Columns : Truth!CostOf(r, d) >= duals.u[r] + duals.v[d]
    BY DEF Truth!PlacesAreProved
  <2>1. Placed(Truth!Columns, search.row - 1) /\ search.row \in 1 .. problem.rows + 1
    BY DEF TruthInv, RowInv
  <2>2. /\ problem.rows \in Nat /\ Truth!Rows = 1 .. problem.rows /\ 0 \notin Truth!Columns
    BY ProblemFacts, ColumnFacts DEF TruthInv, TruthTypeInv, Truth!Rows
  <2>3. r \in Truth!Rows /\ r # 0
    BY <2>1, <2>2
  <2>4. PICK c \in Truth!Columns : rowOf[c] = r
    BY <2>1 DEF Placed
  <2>5. Reduced(r, c) = 0
    BY <2>1, <2>2, <2>3, <2>4 DEF Placed
  <2>6. ASSUME NEW d \in Truth!Columns
        PROVE  /\ Reduced(r, d) >= 0 /\ Reduced(r, d) \in Int /\ duals.u[r] \in Int
               /\ duals.v[d] \in Int /\ Truth!CostOf(r, d) \in Nat
               /\ Reduced(r, d) = Truth!CostOf(r, d) - duals.u[r] - duals.v[d]
    BY <2>3, ReducedIsInt DEF TruthInv, PotentialsInv
  <2>7. Truth!CostOf(r, c) = duals.u[r] + duals.v[c]
    BY <2>5, <2>6
  <2>8. \A d \in Truth!Columns : Truth!CostOf(r, d) >= duals.u[r] + duals.v[d]
    BY <2>6
  <2> QED BY <2>4, <2>7, <2>8
<1> QED BY <1>1, <1>2

\* simulation_evaluator.cpp, MatchDetectionsToTruth: when every row has its place, what is
\* reported is a matching and no other costs less, for every number of detections and true
\* armours and all costs: none comes below the potentials, and the places cost what they say.
THEOREM MatchingIsTheCheapest ==
  ASSUME TruthBounds
  PROVE  Truth!Spec => [](Truth!MatchingIsOptimal /\ Truth!PlacesAreProved)
BY MatchingInit, MatchingStep, TruthInvIsSound, PTL DEF Truth!Spec

=================================================================================
