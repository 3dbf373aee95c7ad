--------------------------- MODULE CornerRefinement ---------------------------
(***************************************************************************)
(* The corners of one detection are moved to the ends of its two lightbars *)
(* (armor_corner_refiner.cpp).  For each bar an axis is found, then each   *)
(* end along it, on scan lines from the middle outwards; a failure of      *)
(* either bar takes everything back.  Of a corner only its place along the *)
(* axis is kept; an image is the brightness along its scan lines.          *)
(***************************************************************************)
EXTENDS Integers, Sequences, FiniteSets, FiniteSetsExt

CONSTANTS
  MinBrightness, \* lightbar_min_mean_brightness
  MinWidth,      \* pass_optimize_lightbar_width, in whole pixels
  Widths,        \* widths of a bar in halves of a pixel; an odd one lies between two pixels
  Means,         \* mean brightness around a bar
  Profiles       \* bound: brightness along a scan line, as long as it is in the image

VARIABLES
  light,   \* the bar that is worked on, 3 when both are done
  width,   \* its width
  mean,    \* and the brightness around it
  status,  \* light_status
  corners, \* refined_corners, by bar and end
  found,   \* ends that were found
  lines,   \* the scan lines of the last end
  step,    \* "BEGIN", "AXIS", "TOP", "BOTTOM", "FINISH", "DONE"
  result   \* the output

vars == <<light, width, mean, status, corners, found, lines, step, result>>

Lights == 1 .. 2
Corner == Lights \X {"TOP", "BOTTOM"}

AxisFailures == {"ROI_INVALID", "MOMENTS_ZERO", "PCA_DEGENERATE"}

\* A corner is the mean of count places, or where the detector saw it.
Original == [sum |-> 0, count |-> 0]
Unrefined == [corner \in Corner |-> Original]

-----------------------------------------------------------------------------
(* One end *)

\* Scan lines are offset from -HalfCount to HalfCount pixels: the width is cut to whole
\* pixels first, and so is half of what the two outermost leave.
HalfCount(pixels) == IF pixels >= 2 THEN (pixels - 2) \div 2 ELSE -((2 - pixels) \div 2)
Offsets(w) == -HalfCount(w \div 2) .. HalfCount(w \div 2)

Brighter_OrAlike(drop, best) == drop >= best
Brighter(drop, best) == drop > best

\* Along a line: where a pixel that is brighter than its surroundings drops the most to
\* the next, 0 if none does.
Edge(profile) ==
  LET best[i \in 0 .. Len(profile)] ==
        IF i <= 1 THEN [drop |-> 0, at |-> 0]
        ELSE LET drop == profile[i - 1] - profile[i]
             IN IF Brighter(drop, best[i - 1].drop) /\ profile[i - 1] > mean
                THEN [drop |-> drop, at |-> i - 1] ELSE best[i - 1]
  IN best[Len(profile)].at

NotFound == [TOP |-> "TOP_NOT_FOUND", BOTTOM |-> "BOTTOM_NOT_FOUND"]

FindCorner(scan) ==
  LET edges == {o \in DOMAIN scan : Edge(scan[o]) # 0}
  IN [sum |-> MapThenSumSet(LAMBDA o : Edge(scan[o]), edges), count |-> Cardinality(edges)]

-----------------------------------------------------------------------------
(* ArmorCornerRefiner::Refine *)

Init ==
  /\ light = 1 /\ width = 0 /\ mean = 0
  /\ status = [l \in Lights |-> "SUCCESS"]
  /\ corners = Unrefined
  /\ found = {}
  /\ lines = <<>>
  /\ step = "BEGIN"
  /\ result = [refined |-> FALSE, status |-> "NONE", corners |-> Unrefined]

Return(reason, refined) ==
  /\ step' = "DONE"
  /\ result' = [refined |-> reason = "SUCCESS", status |-> reason, corners |-> refined]
  /\ UNCHANGED <<light, width, mean, status, corners, found, lines>>

\* Refinement is off, the image is not gray, or a corner is not finite.
Refuse ==
  /\ step = "BEGIN" /\ light = 1
  /\ \E reason \in {"DISABLED", "INVALID_IMAGE", "INVALID_GEOMETRY"} : Return(reason, Unrefined)

\* The bar is done, for better or worse, and the next one is worked on.
NextLight(reason) ==
  /\ status' = [status EXCEPT ![light] = reason]
  /\ light' = light + 1
  /\ step' = IF light = 2 THEN "FINISH" ELSE "BEGIN"

\* A bar without length is refused before one that is too narrow; the limit is compared
\* with the width as it is, before anything is cut off.
MakeLightbar ==
  /\ step = "BEGIN"
  /\ \/ NextLight("INVALID_GEOMETRY") /\ UNCHANGED width
     \/ \E w \in Widths :
          /\ width' = w
          /\ IF w <= 2 * MinWidth THEN NextLight("LIGHT_TOO_NARROW")
             ELSE step' = "AXIS" /\ UNCHANGED <<status, light>>
  /\ lines' = <<>>
  /\ UNCHANGED <<mean, corners, found, result>>

FindSymmetryAxis ==
  /\ step = "AXIS"
  /\ \/ \E reason \in AxisFailures : NextLight(reason) /\ UNCHANGED mean
     \/ \E m \in Means :
          IF m <= MinBrightness THEN NextLight("LIGHT_TOO_DARK") /\ UNCHANGED mean
          ELSE mean' = m /\ step' = "TOP" /\ UNCHANGED <<status, light>>
  /\ UNCHANGED <<width, corners, found, lines, result>>

\* Corners are only written once both ends of the bar are known; here the first waits in
\* its place, and the end of Refine takes it back.
FindEnd(end) ==
  /\ step = end
  /\ \E scan \in [Offsets(width) -> Profiles] :
       LET corner == FindCorner(scan)
       IN /\ lines' = scan
          /\ IF corner.count = 0
             THEN NextLight(NotFound[end]) /\ UNCHANGED <<corners, found>>
             ELSE /\ corners' = [corners EXCEPT ![<<light, end>>] = corner]
                  /\ found' = found \cup {<<light, end>>}
                  /\ IF end = "TOP" THEN step' = "BOTTOM" /\ UNCHANGED <<status, light>>
                     ELSE NextLight("SUCCESS")
  /\ UNCHANGED <<width, mean, result>>

\* What was found stays, whatever failed.
Final_KeepsFound(reason) == corners

\* All four corners are replaced, or none.
Final(reason) == IF reason = "SUCCESS" THEN corners ELSE Unrefined

\* The first bar that failed gives the reason.
Finish ==
  /\ step = "FINISH"
  /\ LET reason == IF status[1] # "SUCCESS" THEN status[1] ELSE status[2]
     IN Return(reason, Final(reason))

Next ==
  \/ Refuse \/ MakeLightbar \/ FindSymmetryAxis
  \/ \E end \in {"TOP", "BOTTOM"} : FindEnd(end)
  \/ Finish

Spec == Init /\ [][Next]_vars

-----------------------------------------------------------------------------
(* Properties *)

\* A detection has four corners that were found, or its own: no pose is solved from
\* corners of two kinds.  The reason that is told is the first bar's before the second's.
CornersAreOfOneKind ==
  step = "DONE" =>
    /\ result.refined => found = Corner
    /\ \A corner \in Corner : result.refined <=> result.corners[corner] # Original
    /\ ~result.refined =>
         \E l \in Lights :
           /\ result.status \in {status[l], "DISABLED", "INVALID_IMAGE", "INVALID_GEOMETRY"}
           /\ \A before \in 1 .. l - 1 : status[before] = "SUCCESS"

\* The reference of the search: on every line that shows an edge, the end of the bar is
\* the first of the steepest drops from a pixel brighter than its surroundings; a line
\* without one counts for nothing.
EdgesAreTheSteepest ==
  \A o \in DOMAIN lines :
    LET profile == lines[o]
        drops == {i \in 1 .. Len(profile) - 1 : profile[i] > mean /\ profile[i + 1] < profile[i]}
        edge == Edge(profile)
    IN IF drops = {} THEN edge = 0
       ELSE /\ edge \in drops
            /\ \A i \in drops :
                 LET Drop(j) == profile[j] - profile[j + 1]
                 IN Drop(i) < Drop(edge) \/ (Drop(i) = Drop(edge) /\ edge <= i)
=============================================================================
