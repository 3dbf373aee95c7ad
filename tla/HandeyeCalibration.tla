------------------------- MODULE HandeyeCalibration -------------------------
(***************************************************************************)
(* The hand-eye tool of the real gimbal: `extrinsics-capture` pairs each   *)
(* picture with the IMU's orientation at its capture time,                 *)
(* `extrinsics-solve` reviews the pairs and proposes extrinsics.           *)
(*                                                                         *)
(* The IMU runs on a thread of its own and may start a new session (a new  *)
(* generation, whose orientations have another origin) between any two     *)
(* looks at it.  The health is read before and after the orientation, and  *)
(* a pair is saved only when both name one generation.                     *)
(*                                                                         *)
(* An orientation is the pose of the gimbal and the generation that        *)
(* measured it.  Poses that lie on one line of the yaw-pitch plane are a   *)
(* motion about one axis, which leaves the translation open.               *)
(***************************************************************************)
EXTENDS Integers, FiniteSets, CalibrationFiles

CONSTANTS
  Pose,           \* the <<yaw, pitch>> the user holds the gimbal at, by frame
  MinSamples,     \* minimum_samples
  MaxTime,        \* bound: frames
  MaxSamples,     \* bound: pairs saved
  MaxGeneration   \* bound: sessions of the IMU

VARIABLES
  disk,      \* the session directory
  capture,   \* the capturing process
  solver,    \* the solving process
  imu        \* generation and synchronization of the serial IMU

vars == <<disk, capture, solver, imu>>

None == 0

Manifest(status, samples) == [status |-> status, samples |-> samples]
Store(id, picture, pictures) ==
  [i \in DOMAIN pictures \cup {id} |-> IF i = id THEN picture ELSE pictures[i]]

Init ==
  /\ imu = [generation |-> 1, synchronized |-> FALSE]
  /\ disk = [manifest |-> NoFile, pictures |-> <<>>, review |-> NoFile, report |-> NoFile,
             candidate |-> NoFile]
  /\ capture = [at |-> "closed", samples |-> <<>>, time |-> 0, last_saved |-> None,
                generation |-> None, before |-> None, q |-> <<>>, id |-> None]
  /\ solver = [at |-> "idle", samples |-> <<>>, observations |-> {}]

-----------------------------------------------------------------------------
\* The IMU's thread: a session that ends, and one that is synchronized.
Reconnect ==
  /\ imu.generation < MaxGeneration
  /\ imu' = [generation |-> imu.generation + 1, synchronized |-> FALSE]
  /\ UNCHANGED <<disk, capture, solver>>

Synchronize ==
  /\ ~imu.synchronized
  /\ imu' = [imu EXCEPT !.synchronized = TRUE]
  /\ UNCHANGED <<disk, capture, solver>>

-----------------------------------------------------------------------------
\* extrinsics-capture
Capturing == capture.at \notin {"closed", "ended"}

WriteManifest(status, samples, next, otherwise) ==
  \E o \in Replace(disk.manifest, Manifest(status, samples)) :
    /\ disk' = [disk EXCEPT !.manifest = o.file]
    /\ capture' = [capture EXCEPT !.at = IF o.ok THEN next ELSE otherwise, !.samples = samples]

OpenCapture ==
  /\ capture.at = "closed"
  /\ WriteManifest("collecting", <<>>, "running", "ended")
  /\ UNCHANGED <<imu, solver>>

NewSession == capture.generation \notin {None, imu.generation}

Abort == capture' = [capture EXCEPT !.at = "aborting"]

\* A frame, and the look at the health that goes with it.
Grab ==
  /\ capture.at = "running" /\ capture.time < MaxTime
  /\ IF NewSession THEN Abort
                   ELSE capture' = [capture EXCEPT !.time = @ + 1, !.at = "grabbed"]
  /\ UNCHANGED <<imu, disk, solver>>

\* The user saves the pair: the frame is newer than the last one saved and
\* the IMU is synchronized, or the frame is left.
Save ==
  /\ capture.at = "grabbed" /\ Len(capture.samples) < MaxSamples
  /\ capture' = IF imu.synchronized /\ capture.time > capture.last_saved
                  THEN [capture EXCEPT !.before = imu.generation, !.at = "checked"]
                  ELSE [capture EXCEPT !.at = "running"]
  /\ UNCHANGED <<imu, disk, solver>>

\* The orientation at the frame's time, none while the IMU is not ready.
At ==
  /\ capture.at = "checked"
  /\ capture' = [capture EXCEPT !.at = "oriented",
       !.q = IF imu.synchronized THEN <<Pose[capture.time], imu.generation, capture.time>>
                                 ELSE <<>>]
  /\ UNCHANGED <<imu, disk, solver>>

\* The second look at the health.
OneSession_AnyBefore == capture.q # <<>> /\ imu.synchronized

OneSession == capture.q # <<>> /\ imu.synchronized /\ capture.before = imu.generation

\* Excluded pairs keep their place, so an id is never used again.
NextId_OfActive == Len(SelectSeq(capture.samples, LAMBDA s : s.active)) + 1

NextId == Len(capture.samples) + 1

SavePicture ==
  /\ capture.at = "oriented"
  /\ \/ NewSession /\ Abort /\ UNCHANGED disk
     \/ /\ ~NewSession /\ ~OneSession
        /\ capture' = [capture EXCEPT !.at = "running", !.q = <<>>, !.before = None]
        /\ UNCHANGED disk
     \/ /\ ~NewSession /\ OneSession
        /\ disk' = [disk EXCEPT !.pictures = Store(NextId, capture.time, @)]
        /\ capture' = [capture EXCEPT !.at = "pictured", !.id = NextId,
                                      !.before = imu.generation]
  /\ UNCHANGED <<imu, solver>>

Pair == [id |-> capture.id, active |-> TRUE, time |-> capture.time, q |-> capture.q,
         generation |-> capture.before]

CommitPair ==
  /\ capture.at = "pictured"
  /\ \E o \in Replace(disk.manifest, Manifest("collecting", Append(capture.samples, Pair))) :
       /\ disk' = [disk EXCEPT !.manifest = o.file]
       /\ capture' = [capture EXCEPT
            !.samples = Append(@, Pair), !.q = <<>>, !.before = None, !.id = None,
            !.at = IF o.ok THEN "running" ELSE "aborting",
            !.generation = IF o.ok THEN capture.before ELSE @,
            !.last_saved = IF o.ok THEN capture.time ELSE @]
  /\ UNCHANGED <<imu, solver>>

\* The last active pair is excluded, or the frame is left without a key.
ExcludeLast ==
  /\ capture.at = "grabbed"
  /\ \E i \in DOMAIN capture.samples :
       /\ capture.samples[i].active
       /\ \A j \in i + 1 .. Len(capture.samples) : ~capture.samples[j].active
       /\ WriteManifest("collecting", [capture.samples EXCEPT ![i].active = FALSE],
                        "running", "aborting")
  /\ UNCHANGED <<imu, solver>>

Skip ==
  /\ capture.at = "grabbed"
  /\ capture' = [capture EXCEPT !.at = "running"]
  /\ UNCHANGED <<imu, disk, solver>>

\* The camera fails, or a picture cannot be written.
FailCapture ==
  /\ capture.at \in {"running", "oriented"}
  /\ Abort
  /\ UNCHANGED <<imu, disk, solver>>

EndCapture ==
  /\ capture.at \in {"running", "aborting"}
  /\ WriteManifest(IF capture.at = "running" THEN "captured" ELSE "aborted", capture.samples,
                   "ended", "ended")
  /\ UNCHANGED <<imu, solver>>

KillCapture ==
  /\ Capturing
  /\ capture' = [capture EXCEPT !.at = "ended"]
  /\ UNCHANGED <<imu, disk, solver>>

-----------------------------------------------------------------------------
\* extrinsics-solve <session directory>
Consistent(m) ==
  LET s == m.samples IN
  \A i \in DOMAIN s : \A j \in 1 .. i - 1 :
    s[i].id # s[j].id /\ s[i].time > s[j].time /\ s[i].generation = s[j].generation

WriteReview(status, next) ==
  \E o \in Replace(disk.review, [status |-> status, reviewed |-> solver.observations]) :
    /\ disk' = [disk EXCEPT !.review = o.file]
    /\ solver' = [solver EXCEPT !.at = IF o.ok THEN next ELSE "failing"]

\* The tools are run one after the other.  One solve of the session is
\* followed: each has a directory of its own.
Begin ==
  /\ capture.at = "ended" /\ solver.at = "idle"
  /\ disk.manifest # NoFile /\ Consistent(disk.manifest)
  /\ disk' = [disk EXCEPT !.review = [status |-> "reviewing", reviewed |-> {}]]
  /\ solver' = [at |-> "reviewing", observations |-> {},
                samples |-> SelectSeq(disk.manifest.samples, LAMBDA s : s.active)]
  /\ UNCHANGED <<imu, capture>>

\* Whether the board is found and solved for, its corners and the orientation finite and
\* the whole of it in front of the camera, is up to the picture.
Add(observations, sample) == {observations, observations \cup {sample}}

\* The user accepts a pair whose board is found and solved for, or excludes
\* it; the review is written after every pair.
Review ==
  /\ solver.at = "reviewing" /\ solver.samples # <<>>
  /\ LET sample == Head(solver.samples) IN
     \E observations \in {solver.observations} \cup Add(solver.observations, sample) :
       \E o \in Replace(disk.review, [status |-> "reviewing", reviewed |-> observations]) :
         /\ disk' = [disk EXCEPT !.review = o.file]
         /\ solver' = [at |-> IF o.ok THEN "reviewing" ELSE "failing",
                       samples |-> Tail(solver.samples), observations |-> observations]
  /\ UNCHANGED <<imu, capture>>

\* Three poses of one axis leave the translation open: the gimbal has to be
\* moved in both.
Spanned(observations) ==
  LET poses == {o.q[1] : o \in observations} IN
  \E a, b, c \in poses :
    (b[1] - a[1]) * (c[2] - a[2]) # (b[2] - a[2]) * (c[1] - a[1])

Solvable_AnyMotion(observations) == Cardinality(observations) >= MinSamples

Solvable(observations) == Cardinality(observations) >= MinSamples /\ Spanned(observations)

\* Enough pairs and motion are solved for, unless a number comes out as none or the
\* result is no rotation; residuals are only reported.
Solve(observations) == IF Solvable(observations) THEN BOOLEAN ELSE {FALSE}

\* The report, then the review's verdict, then the candidate.
WriteSolution ==
  /\ solver.at = "reviewing" /\ solver.samples = <<>>
  /\ \E solved \in Solve(solver.observations) :
       \E o \in Replace(NoFile, [status |-> IF solved THEN "solved" ELSE "failed"]) :
         /\ disk' = [disk EXCEPT !.report = o.file]
         /\ solver' = [solver EXCEPT !.at = IF ~o.ok THEN "failing"
                                            ELSE IF solved THEN "solved" ELSE "unsolved"]
  /\ UNCHANGED <<imu, capture>>

WriteVerdict ==
  /\ solver.at \in {"solved", "unsolved"}
  /\ WriteReview(IF solver.at = "solved" THEN "solved_requires_manual_validation" ELSE "failed",
                 IF solver.at = "solved" THEN "verdict" ELSE "ended")
  /\ UNCHANGED <<imu, capture>>

WriteCandidate ==
  /\ solver.at = "verdict"
  /\ \E o \in Replace(NoFile, [status |-> "candidate"]) :
       /\ disk' = [disk EXCEPT !.candidate = o.file]
       /\ solver' = [solver EXCEPT !.at = IF o.ok THEN "ended" ELSE "failing"]
  /\ UNCHANGED <<imu, capture>>

\* A cancelled review, and an exception, are written down as aborted.
AbortSolve ==
  /\ \/ solver.at = "failing"
     \/ solver.at = "reviewing"
  /\ \E o \in Replace(disk.review, [status |-> "aborted", reviewed |-> solver.observations]) :
       disk' = [disk EXCEPT !.review = o.file]
  /\ solver' = [solver EXCEPT !.at = "ended"]
  /\ UNCHANGED <<imu, capture>>

KillSolver ==
  /\ solver.at \notin {"idle", "ended"}
  /\ solver' = [solver EXCEPT !.at = "ended"]
  /\ UNCHANGED <<imu, disk, capture>>

Next == \/ Reconnect \/ Synchronize
        \/ OpenCapture \/ Grab \/ Save \/ At \/ SavePicture \/ CommitPair \/ ExcludeLast
        \/ Skip \/ FailCapture \/ EndCapture \/ KillCapture
        \/ Begin \/ Review \/ WriteSolution \/ WriteVerdict \/ WriteCandidate \/ AbortSolve
        \/ KillSolver

Spec == Init /\ [][Next]_vars

-----------------------------------------------------------------------------
\* A pair of the manifest is a picture and the orientation of one moment, in
\* the frame of one IMU session: the picture on disk is the one that was
\* taken when the orientation was measured.
PairsAreTrue ==
  disk.manifest # NoFile =>
    \A i \in DOMAIN disk.manifest.samples :
      LET s == disk.manifest.samples[i] IN
      /\ disk.pictures[s.id] = s.time
      /\ s.q[2] = s.generation /\ s.q[3] = s.time
      /\ s.generation = disk.manifest.samples[1].generation

\* Extrinsics are proposed only for a review that was finished, of enough
\* pairs that move the gimbal about two axes.
CandidatesAreReviewed ==
  disk.candidate # NoFile =>
    /\ disk.review.status = "solved_requires_manual_validation"
    /\ disk.report.status = "solved"
    /\ Cardinality(disk.review.reviewed) >= MinSamples
    /\ Spanned(disk.review.reviewed)
=============================================================================
