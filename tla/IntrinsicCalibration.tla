------------------------ MODULE IntrinsicCalibration ------------------------
(***************************************************************************)
(* The intrinsic calibration tool: `capture` saves pictures of a board to  *)
(* a session directory, `solve` reviews the pictures of a session and      *)
(* estimates the camera.  The two are processes of their own, no lock      *)
(* keeps a solve from a session that is being captured, and either may be  *)
(* killed between two file operations.                                     *)
(*                                                                         *)
(* A picture is the number of its frame and the part of the image that the *)
(* board covers, "none" where the board is not found.  Two parts stand for *)
(* the nine cells of the coverage grid.                                    *)
(***************************************************************************)
EXTENDS Integers, SequencesExt, CalibrationFiles

CONSTANTS
  MinSamples,    \* quality gate: the least number of samples
  MaxFrames,     \* bound: pictures the user saves
  MaxSolutions   \* bound: solves of the session

VARIABLES
  disk,      \* the session directory
  capture,   \* the capturing process
  solver     \* the solving process

vars == <<disk, capture, solver>>

Cells == {"left", "right"}
Views == {"none"} \cup Cells

Merge(name, picture, directory) ==
  [n \in DOMAIN directory \cup {name} |-> IF n = name THEN picture ELSE directory[n]]
Without(name, directory) == [n \in DOMAIN directory \ {name} |-> directory[n]]

Session(status, samples) == [status |-> status, samples |-> samples]
NewSolution == [session |-> NoFile, intrinsics |-> NoFile]

Init ==
  /\ disk = [session |-> NoFile, images |-> <<>>, excluded |-> <<>>, solutions |-> <<>>]
  /\ capture = [at |-> "closed", images |-> <<>>, next_image_id |-> 1, frame |-> 0]
  /\ solver = [at |-> "idle", images |-> <<>>, samples |-> <<>>]

WriteSession(status, at) ==
  \E o \in ReplaceOrRemove(disk.session, Session(status, <<>>)) :
    /\ disk' = [disk EXCEPT !.session = o.file]
    /\ capture' = [capture EXCEPT !.at = IF o.ok THEN at ELSE "ended"]

\* The camera opens with the expected format, or the tool ends with 2 or 3.
OpenCapture ==
  /\ capture.at = "closed"
  /\ \/ capture' = [capture EXCEPT !.at = "ended"] /\ UNCHANGED disk
     \/ WriteSession("collecting", "running")
  /\ UNCHANGED solver

\* The name of a picture counts all the pictures saved, the excluded ones too.
NextName_Reused == Len(capture.images) + 1

NextName == capture.next_image_id

SaveImage ==
  /\ capture.at = "running" /\ capture.frame < MaxFrames
  /\ \E view \in Views :
       LET picture == [frame |-> capture.frame + 1, view |-> view] IN
       /\ disk' = [disk EXCEPT !.images = Merge(NextName, picture, @)]
       /\ capture' = [capture EXCEPT !.images = Append(@, NextName), !.next_image_id = @ + 1,
                                     !.frame = @ + 1]
  /\ UNCHANGED solver

\* A picture is written under its final name: a write that fails half way, or a
\* kill then, leaves one that cannot be read, and ends the tool.
TearImage ==
  /\ capture.at = "running" /\ capture.frame < MaxFrames
  /\ LET torn == [frame |-> capture.frame + 1, view |-> "unreadable"] IN
     disk' = [disk EXCEPT !.images = Merge(NextName, torn, @)]
  /\ capture' = [capture EXCEPT !.at = "ended"]
  /\ UNCHANGED solver

ExcludeLast ==
  /\ capture.at = "running" /\ capture.images # <<>>
  /\ LET name == Last(capture.images) IN
     /\ disk' = [disk EXCEPT !.excluded = Merge(name, disk.images[name], @),
                             !.images = Without(name, @)]
     /\ capture' = [capture EXCEPT !.images = Front(@)]
  /\ UNCHANGED solver

\* The user or a signal ends the capture, or the camera does.
EndCapture ==
  /\ capture.at = "running"
  /\ \E status \in {"captured", "aborted"} : WriteSession(status, "ended")
  /\ UNCHANGED solver

\* A picture that is not begun or a rename that fails throws, and the process may
\* be killed.
LoseCapture ==
  /\ capture.at = "running"
  /\ capture' = [capture EXCEPT !.at = "ended"]
  /\ UNCHANGED <<disk, solver>>

-----------------------------------------------------------------------------
\* solve <directory>
Begin ==
  /\ solver.at = "idle" /\ Len(disk.solutions) < MaxSolutions
  /\ disk.session # NoFile /\ disk.images # <<>>
  /\ disk' = [disk EXCEPT !.solutions = WithNewDirectory(@, NewSolution)]
  /\ solver' = [solver EXCEPT !.at = "reviewing",
                              !.images = SetToSortSeq(DOMAIN disk.images, <),
                              !.samples = <<>>]
  /\ UNCHANGED capture

WriteSolution(status, at) ==
  \E o \in ReplaceOrRemove(NoFile, Session(status, solver.samples)) :
    /\ disk' = [disk EXCEPT !.solutions[Len(disk.solutions)].session = o.file]
    /\ solver' = [solver EXCEPT !.at = IF o.ok THEN at ELSE "idle"]

Observe(name) == disk.images[name].view
AddSample(samples, name) ==
  IF Observe(name) = "none" THEN samples ELSE Append(samples, disk.images[name])

\* A picture may be gone by now, or torn.
Readable(name) == name \in DOMAIN disk.images /\ Observe(name) # "unreadable"

Review ==
  /\ solver.at = "reviewing" /\ solver.images # <<>>
  /\ solver' = IF Readable(Head(solver.images))
                 THEN [solver EXCEPT !.samples = AddSample(@, Head(solver.images)),
                                     !.images = Tail(@)]
                 ELSE [solver EXCEPT !.at = "idle"]
  /\ UNCHANGED <<disk, capture>>

CancelReview ==
  /\ solver.at = "reviewing" /\ solver.images # <<>>
  /\ WriteSolution("aborted", "idle")
  /\ UNCHANGED capture

Covered(samples) == {samples[i].view : i \in DOMAIN samples}
Enough(samples) == Len(samples) >= MinSamples /\ Covered(samples) = Cells

\* Three samples are enough, wherever they are.
MayAccept_Uncovered(samples) == IF Len(samples) >= 3 THEN BOOLEAN ELSE {FALSE}

\* Below three samples there is no estimate; the estimator may throw, and
\* its errors may be beyond the limits.
MayAccept(samples) == IF Len(samples) >= 3 /\ Enough(samples) THEN BOOLEAN ELSE {FALSE}

\* The session of the solution is written before the intrinsics.
Solve ==
  /\ solver.at = "reviewing" /\ solver.images = <<>>
  /\ \E accepted \in MayAccept(solver.samples) :
       WriteSolution(IF accepted THEN "passed" ELSE "failed",
                     IF accepted THEN "accepted" ELSE "idle")
  /\ UNCHANGED capture

WriteIntrinsics ==
  /\ solver.at = "accepted"
  /\ \E o \in ReplaceOrRemove(NoFile, [status |-> "intrinsics"]) :
       disk' = [disk EXCEPT !.solutions[Len(disk.solutions)].intrinsics = o.file]
  /\ solver' = [solver EXCEPT !.at = "idle"]
  /\ UNCHANGED capture

KillSolver ==
  /\ solver.at # "idle"
  /\ solver' = [solver EXCEPT !.at = "idle"]
  /\ UNCHANGED <<disk, capture>>

Next == \/ OpenCapture \/ SaveImage \/ TearImage \/ ExcludeLast \/ EndCapture \/ LoseCapture
        \/ Begin \/ Review \/ CancelReview \/ Solve \/ WriteIntrinsics \/ KillSolver

Spec == Init /\ [][Next]_vars

-----------------------------------------------------------------------------
\* The pictures a session keeps, the excluded ones among them.
Kept(d) == {d.images[n] : n \in DOMAIN d.images} \cup {d.excluded[n] : n \in DOMAIN d.excluded}

\* No picture of a session is overwritten or lost, whatever the user saves
\* and excludes and in whatever order.
KeepsPictures == Kept(disk) \subseteq Kept(disk')

\* Intrinsics on disk come with the session that earned them: reviewed to
\* the end, accepted, with enough samples over the whole image.
IntrinsicsAreEarned ==
  \A i \in DOMAIN disk.solutions :
    disk.solutions[i].intrinsics # NoFile =>
      /\ disk.solutions[i].session.status = "passed"
      /\ Enough(disk.solutions[i].session.samples)
=============================================================================
