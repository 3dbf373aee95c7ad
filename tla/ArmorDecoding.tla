----------------------------- MODULE ArmorDecoding -----------------------------
(***************************************************************************)
(* From the rows of the network to the detections of a frame               *)
(* (armor_detector_postprocess.cpp, armor_detector.cpp): rows are filtered *)
(* and mapped back into the image, then overlapping candidates are thinned *)
(* out, the best first.  One axis of the image stands for both: a row      *)
(* spans the interval [l, r] of the network's canvas.                      *)
(***************************************************************************)
EXTENDS Integers, Sequences, Functions

CONSTANTS
  Content,     \* how much of the canvas the image takes up
  Scale,       \* pixels of the image in one of the canvas
  MaxRows,     \* bound: rows that are finite and confident
  Objectness,  \* their scores, from the threshold up
  Ends         \* bound: the ends of their intervals, on the canvas and beside it

VARIABLES
  rows,       \* what the network put out
  next,       \* the row that is decoded next
  candidates, \* rows that passed
  order,      \* candidates by their score, as far as they are not thinned out yet
  kept,       \* indices of candidates
  detector    \* "DECODE", "SUPPRESS", "DONE", or "FAILED": Detect has thrown

vars == <<rows, next, candidates, order, kept, detector>>

Row == [color : {"ENEMY", "OTHER"}, objectness : Objectness, l : Ends, r : Ends]

\* Rows that are not finite or below the threshold are skipped before anything else, and
\* are left out here; one row of another color stands for all of them.
Outputs ==
  LET enemies == {row \in Row : row.color = "ENEMY" /\ row.l < row.r}
      other == CHOOSE row \in Row : row.color = "OTHER" /\ row.l < row.r
  IN UNION {[1 .. n -> enemies \cup {other}] : n \in 0 .. MaxRows}

-----------------------------------------------------------------------------
(* Rows *)

\* The center of the armor is within the image, not in the black margin.
Centered(row) == row.l + row.r >= 0 /\ row.l + row.r < 2 * Content

\* A point of the canvas in the image, moved to its border where it is outside.
MapPoint(x) ==
  IF x * Scale < 0 THEN 0
  ELSE IF x * Scale > Content * Scale - 1 THEN Content * Scale - 1 ELSE x * Scale

Mapped(row) == [objectness |-> row.objectness, l |-> MapPoint(row.l), r |-> MapPoint(row.r)]

\* What was pressed flat at the border is no armor.
HasExtent(box) == box.l < box.r

Passes_InMargin(row) == row.color = "ENEMY" /\ HasExtent(Mapped(row))
Passes(row) == row.color = "ENEMY" /\ Centered(row) /\ HasExtent(Mapped(row))

-----------------------------------------------------------------------------
(* Overlap: more than half of the union, the threshold of the model. *)

Larger(a, b) == IF a > b THEN a ELSE b
Smaller(a, b) == IF a < b THEN a ELSE b

Intersection(a, b) == Larger(0, Smaller(a.r, b.r) - Larger(a.l, b.l))

Overlapping(a, b) ==
  LET covered == (a.r - a.l) + (b.r - b.l) - Intersection(a, b)
  IN covered > 0 /\ 2 * Intersection(a, b) > covered

\* Indices by falling score; where scores are equal the index decides: the sort is stable.
Before(i, j) ==
  \/ candidates[i].objectness > candidates[j].objectness
  \/ candidates[i].objectness = candidates[j].objectness /\ i < j

ByObjectness_AsTheyCame == {[i \in DOMAIN candidates |-> i]}
ByObjectness ==
  {sorted \in [DOMAIN candidates -> DOMAIN candidates] :
     /\ Range(sorted) = DOMAIN candidates
     /\ \A m, n \in DOMAIN candidates : m < n => Before(sorted[m], sorted[n])}

Suppressed_ByTheLast(i) ==
  kept # <<>> /\ Overlapping(candidates[i], candidates[kept[Len(kept)]])

Suppressed(i) ==
  \E k \in Range(kept) : Overlapping(candidates[i], candidates[k])

-----------------------------------------------------------------------------
(* YoloArmorDetector::Detect *)

Init ==
  /\ rows \in Outputs
  /\ next = 1
  /\ candidates = <<>> /\ order = <<>> /\ kept = <<>>
  /\ detector = "DECODE"

\* The inference itself throws: there are no detections, and the frame is lost.
InferenceFails ==
  /\ detector = "DECODE" /\ next = 1
  /\ detector' = "FAILED"
  /\ UNCHANGED <<rows, next, candidates, order, kept>>

DecodeRow ==
  /\ detector = "DECODE" /\ next <= Len(rows)
  /\ candidates' = IF Passes(rows[next]) THEN Append(candidates, Mapped(rows[next])) ELSE candidates
  /\ next' = next + 1
  /\ UNCHANGED <<rows, order, kept, detector>>

SortCandidates ==
  /\ detector = "DECODE" /\ next > Len(rows)
  /\ order' \in ByObjectness
  /\ detector' = "SUPPRESS"
  /\ UNCHANGED <<rows, next, candidates, kept>>

Suppress ==
  /\ detector = "SUPPRESS" /\ order # <<>>
  /\ kept' = IF Suppressed(Head(order)) THEN kept ELSE Append(kept, Head(order))
  /\ order' = Tail(order)
  /\ UNCHANGED <<rows, next, candidates, detector>>

Finish ==
  /\ detector = "SUPPRESS" /\ order = <<>>
  /\ detector' = "DONE"
  /\ UNCHANGED <<rows, next, candidates, order, kept>>

Next == InferenceFails \/ DecodeRow \/ SortCandidates \/ Suppress \/ Finish

Spec == Init /\ [][Next]_vars

-----------------------------------------------------------------------------
(* Properties *)

\* One armor, one detection: no two detections overlap too much, and what was thinned
\* out overlaps a detection that has at least its score.  The first detection is the
\* best, as the callers assume.
ArmorsAreDetectedOnce ==
  detector = "DONE" =>
    /\ \A a, b \in Range(kept) :
         a # b => ~Overlapping(candidates[a], candidates[b])
    /\ \A i \in DOMAIN candidates \ Range(kept) :
         \E k \in Range(kept) :
           /\ candidates[k].objectness >= candidates[i].objectness
           /\ Overlapping(candidates[i], candidates[k])
    /\ \A m, n \in DOMAIN kept :
         m < n => candidates[kept[m]].objectness >= candidates[kept[n]].objectness

\* A detection lies in the image and so does the middle of the row it was made of, one
\* of the enemy's; its middle is moved by no more than the row was cut off at a border.
DetectionsAreInTheImage ==
  \A box \in Range(candidates) :
    /\ 0 <= box.l /\ box.l < box.r /\ box.r <= Content * Scale - 1
    /\ \E row \in Range(rows) :
         /\ row.color = "ENEMY" /\ row.objectness = box.objectness
         /\ LET middle == (row.l + row.r) * Scale
                cut == Larger(0, -(row.l * Scale)) + Larger(0, row.r * Scale - (Content * Scale - 1))
            IN /\ 0 <= middle /\ middle < 2 * Content * Scale
               /\ box.l + box.r - middle \in -cut .. cut
=============================================================================
