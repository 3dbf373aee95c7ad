--------------------------- MODULE LightbarDetection ---------------------------
(***************************************************************************)
(* The lightbars of a frame (armor_light_detector.cpp).  The image is made *)
(* black and white at a threshold that the detected armors suggest, and of *)
(* its contours those that look like a bar of the enemy's color are kept,  *)
(* up to a number.  Any exception leaves no lightbar at all.               *)
(***************************************************************************)
EXTENDS Integers, Sequences, FiniteSets, Functions

CONSTANTS
  MaximumCandidates,       \* maximum_candidates
  FixedThreshold,          \* fixed_binary_threshold
  ReferenceOffset,         \* network_reference_offset
  MinThreshold, MaxThreshold,
  MinimumColorDifference,
  Brightness,              \* bound: mean brightness of the armors' own bars
  MaxContours,             \* bound
  Differences, Areas       \* bound: color difference and area of a contour

VARIABLES
  step,      \* "BEGIN", "CONTOURS", "FILTER", "CUT", "DONE"
  threshold, \* binary_threshold, and what it was taken from
  contours,  \* those of the image that are left to look at
  passed,    \* lightbars, in the order of their contours
  result     \* the output

vars == <<step, threshold, contours, passed, result>>

\* tall: long, slender and upright enough for a bar.
Contour == [tall : BOOLEAN, difference : Differences, area : Areas]

NoLightbars(reason) == [lightbars |-> <<>>, reason |-> reason]

Init ==
  /\ step = "BEGIN"
  /\ threshold = [value |-> FixedThreshold, source |-> "FIXED", references |-> 0]
  /\ contours = <<>> /\ passed = <<>>
  /\ result = NoLightbars("")

\* Detection is off, or the images are not a pair of the same size.
Refuse ==
  /\ step = "BEGIN"
  /\ \E reason \in {"disabled", "invalid_image"} : result' = NoLightbars(reason)
  /\ step' = "DONE"
  /\ UNCHANGED <<threshold, contours, passed>>

Clamped(x) ==
  IF x < MinThreshold THEN MinThreshold ELSE IF x > MaxThreshold THEN MaxThreshold ELSE x

\* Somewhat darker than the bars of the armors on average; the bound: at most two of
\* these bars lie in the image.
ChooseThreshold ==
  /\ step = "BEGIN"
  /\ \E n \in 0 .. 2 : \E bars \in [1 .. n -> Brightness] :
       threshold' =
         IF n = 0 THEN threshold
         ELSE [value |-> Clamped(((bars[1] + bars[n]) \div 2) - ReferenceOffset),
               source |-> "NETWORK_REFERENCE", references |-> n]
  /\ step' = "CONTOURS"
  /\ UNCHANGED <<contours, passed, result>>

FindContours ==
  /\ step = "CONTOURS"
  /\ \E n \in 0 .. MaxContours : contours' \in [1 .. n -> Contour]
  /\ step' = "FILTER"
  /\ UNCHANGED <<threshold, passed, result>>

Accepted(contour) == contour.tall /\ contour.difference >= MinimumColorDifference

Lightbar(contour, index) == [input_index |-> index, score |-> contour.difference * contour.area]

FilterContour ==
  /\ step = "FILTER" /\ contours # <<>>
  /\ passed' = IF Accepted(Head(contours))
               THEN Append(passed, Lightbar(Head(contours), Len(passed))) ELSE passed
  /\ contours' = Tail(contours)
  /\ UNCHANGED <<step, threshold, result>>

EndFilter ==
  /\ step = "FILTER" /\ contours = <<>>
  /\ step' = "CUT"
  /\ UNCHANGED <<threshold, contours, passed, result>>

\* Any order of the indices by falling score: equal scores may come in either order.
ByScore ==
  {order \in [DOMAIN passed -> DOMAIN passed] :
     /\ Range(order) = DOMAIN passed
     /\ \A m, n \in DOMAIN passed : m < n => passed[order[m]].score >= passed[order[n]].score}

Cut(lightbars) == SubSeq(lightbars, 1, IF Len(lightbars) > MaximumCandidates
                                       THEN MaximumCandidates ELSE Len(lightbars))

Numbered_BeforeTheSort(lightbars) == lightbars
Numbered(lightbars) ==
  [i \in DOMAIN lightbars |-> [lightbars[i] EXCEPT !.input_index = i - 1]]

Return ==
  /\ step = "CUT"
  /\ \E order \in ByScore :
       result' = [lightbars |-> Numbered(Cut([i \in DOMAIN passed |-> passed[order[i]]])),
                  reason |-> ""]
  /\ step' = "DONE"
  /\ UNCHANGED <<threshold, contours, passed>>

\* catch (...): what was found so far is dropped.
Throw ==
  /\ step \notin {"BEGIN", "DONE"}
  /\ result' = NoLightbars("processing_error")
  /\ step' = "DONE"
  /\ UNCHANGED <<threshold, contours, passed>>

Next ==
  \/ Refuse \/ ChooseThreshold \/ FindContours \/ FilterContour \/ EndFilter \/ Return \/ Throw

Spec == Init /\ [][Next]_vars

-----------------------------------------------------------------------------
(* Properties *)

\* The lightbars are the best that were found, as many as there may be, and a bar is
\* known by its place: the predictor counts its observations by input_index.
BestLightbarsAreNumbered ==
  step = "DONE" =>
    /\ \A i \in DOMAIN result.lightbars : result.lightbars[i].input_index = i - 1
    /\ result.reason # "" => result.lightbars = <<>>
    /\ result.reason = "" =>
         /\ Len(result.lightbars) = Len(Cut(passed))
         /\ \E better \in SUBSET DOMAIN passed :
              /\ Cardinality(better) = Len(result.lightbars)
              /\ \A i \in better : \E j \in DOMAIN result.lightbars :
                   result.lightbars[j].score = passed[i].score
              /\ \A i \in better, j \in DOMAIN passed \ better : passed[i].score >= passed[j].score
              /\ \A i \in DOMAIN result.lightbars :
                   Cardinality({j \in better : passed[j].score >= result.lightbars[i].score}) >= i
=============================================================================
