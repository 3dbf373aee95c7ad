-------------------------- MODULE SimulationEvaluator --------------------------
(***************************************************************************)
(* What the vision thread learns from the simulator's truth, frame by      *)
(* frame (simulation_evaluator.cpp): how often the pose of an armour was   *)
(* solved, how it trembles and changes its candidate from one frame to the *)
(* next, and the summary that the diagnostics repeat until the next one is *)
(* drawn up.  Errors are left out but for the frames they are compared     *)
(* over; TruthMatching says which detection has which true armour.         *)
(***************************************************************************)
EXTENDS Integers, FiniteSets, Functions

CONSTANTS
  Truths,      \* ids of true armours
  Period,      \* 100: numbers of the frames that draw up a summary are its multiples
  MaxSequence  \* bound: the number of the last frame

\* Each true armour is solved from its own corners and from those of a detection.
Key == {"GROUND_TRUTH", "DETECTION"} \X Truths
Candidates == {"FIRST", "SECOND"}

VARIABLES
  sequence,   \* number of the last frame that was evaluated
  previous,   \* per key the last frame it was solved in, and the candidate then
  counts,     \* solve_summary
  snapshot,   \* the summary that is repeated
  result,     \* what the last evaluation returned
  hist        \* history: the last recorded frame, and counts after each

vars == <<sequence, previous, counts, snapshot, result, hist>>

Never == [at |-> -1, candidate |-> "FIRST"]

-----------------------------------------------------------------------------
(* A frame. *)

\* A true armour that faces the camera and projects into the image is visible.
Visible(armors) == {t \in Truths : armors[t].seen}

\* solved, by key: the candidate of every pose that was solved; unsolved: detections
\* without a pose, whether or not they are matched.
Poses(armors) ==
  [key \in {k \in Key : /\ k[2] \in Visible(armors)
                        /\ armors[k[2]].pose[k[1]] \in Candidates} |-> armors[key[2]].pose[key[1]]]

Detections(armors) == {t \in Visible(armors) : armors[t].pose["DETECTION"] # "UNDETECTED"}

\* Bound: at most one detection of a frame has no true armour, with a pose or without.
Strays == {"NONE", "SOLVED", "UNSOLVED"}

Pose == [GROUND_TRUTH : Candidates \cup {"UNSOLVED"},
         DETECTION : Candidates \cup {"UNSOLVED", "UNDETECTED"}]
Armor == [seen : {TRUE}, pose : Pose] \cup {[seen |-> FALSE, pose |-> <<>>]}

-----------------------------------------------------------------------------
(* The evaluator. *)

Consecutive_Seen(key, number) == previous[key].at # -1

\* The frame before this one solved the same armour from the same source.
Consecutive(key, number) == previous[key].at # -1 /\ previous[key].at + 1 = number

\* The poses are compared with those of the frame before, then take their places.
RecordAttempts(poses, number) ==
  LET trembles == {key \in DOMAIN poses : Consecutive(key, number)}
      switches == {key \in trembles : /\ key[1] = "DETECTION"
                                      /\ poses[key] # previous[key].candidate}
  IN [jitter |-> trembles, switches |-> Cardinality(switches),
      previous |-> [key \in Key |-> IF key \in DOMAIN poses
                                    THEN [at |-> number, candidate |-> poses[key]]
                                    ELSE previous[key]]]

\* The detections of a frame, as far as they are counted; one that has no true armour
\* counts like the others.
Counted(counted, stray, poses) ==
  LET solved == {t \in counted : <<"DETECTION", t>> \in DOMAIN poses}
  IN [counts EXCEPT
        !.attempted = @ + Cardinality(counted) + (IF stray = "NONE" THEN 0 ELSE 1),
        !.succeeded = @ + Cardinality(solved) + (IF stray = "SOLVED" THEN 1 ELSE 0)]

\* The number alone is renewed.
PopulateSnapshot_NumberOnly(number, summary) ==
  IF snapshot.sequence = 0 THEN [sequence |-> number, counts |-> summary]
  ELSE IF number % Period = 0 THEN [snapshot EXCEPT !.sequence = number]
  ELSE snapshot

\* The first frame draws up a summary, and then every one with a round number.
PopulateSnapshot(number, summary) ==
  IF snapshot.sequence = 0 \/ number % Period = 0
  THEN [sequence |-> number, counts |-> summary]
  ELSE snapshot

Evaluate(number, armors, stray) ==
  LET poses == Poses(armors)
      record == RecordAttempts(poses, number)
      summary == [Counted(Detections(armors), stray, poses) EXCEPT !.switches = @ + record.switches]
      drawn == PopulateSnapshot(number, summary)
  IN /\ sequence' = number
     /\ previous' = record.previous
     /\ counts' = summary
     /\ snapshot' = drawn
     /\ result' = [jitter |-> record.jitter, summary |-> drawn]
     /\ hist' = [last |-> [sequence |-> number, poses |-> poses],
                 before |-> hist.last,
                 counts |-> [hist.counts EXCEPT ![number] = summary]]

\* An exception leaves what was counted so far and no result; the vision thread goes on.
\* Detections and refinements that are not as many leave the same, with nothing counted:
\* their result is about no pose.
EvaluationThrows(number, armors, stray) ==
  /\ \E counted \in SUBSET Detections(armors) : counts' = Counted(counted, stray, Poses(armors))
  /\ sequence' = number
  /\ UNCHANGED <<previous, snapshot, result, hist>>

\* The vision thread skips frames it is too slow for.
EvaluateFrame ==
  \E number \in sequence + 1 .. MaxSequence, armors \in [Truths -> Armor], stray \in Strays :
    \/ Evaluate(number, armors, stray)
    \/ EvaluationThrows(number, armors, stray)

Init ==
  /\ sequence = 0
  /\ previous = [key \in Key |-> Never]
  /\ counts = [attempted |-> 0, succeeded |-> 0, switches |-> 0]
  /\ snapshot = [sequence |-> 0, counts |-> counts]
  /\ result = [jitter |-> {}, summary |-> snapshot]
  /\ hist = [last |-> [sequence |-> 0, poses |-> <<>>],
             before |-> [sequence |-> 0, poses |-> <<>>],
             counts |-> [n \in 1 .. MaxSequence |-> counts]]

Next == EvaluateFrame

Spec == Init /\ [][Next]_vars

-----------------------------------------------------------------------------
(* Properties *)

\* A pose trembles, or changes its candidate, from one frame to the next only: both
\* frames were evaluated to the end, the same armour was solved in both, and from the
\* same source, whatever was skipped or failed before.
JitterIsBetweenNeighbours ==
  result.jitter =
    IF hist.before.sequence + 1 = hist.last.sequence
    THEN DOMAIN hist.before.poses \cap DOMAIN hist.last.poses ELSE {}

\* The summary a result carries is the one of the frame it names.
SummaryIsOfItsFrame ==
  result.summary.sequence # 0 =>
    result.summary.counts = hist.counts[result.summary.sequence]

=============================================================================
