------------------------ MODULE ExtrinsicCalibration ------------------------
(***************************************************************************)
(* The simulator's extrinsic calibration tool: `capture` saves pictures    *)
(* and the poses they were taken at, `solve` estimates where the camera    *)
(* sits on the gimbal, `visualize` replays a solution.                     *)
(*                                                                         *)
(* The manifest session.yaml is the commit point of a capture: a picture   *)
(* counts when the manifest that lists it is in place, and a picture moved *)
(* away without a manifest that says so is moved back.  Every file         *)
(* operation may fail, and either process may be killed between two.       *)
(***************************************************************************)
EXTENDS Integers, SequencesExt, CalibrationFiles

CONSTANTS
  Frames,       \* frames of the simulator: [sequence, time, round, camera]
  MinSamples,   \* solve.min_samples
  MaxSamples,   \* bound: pictures the user saves
  MaxSolutions  \* bound: solves of the session

VARIABLES
  disk,      \* the session directory
  capture,   \* the capturing process
  solver,    \* the solving process
  shown      \* solutions that were replayed

vars == <<disk, capture, solver, shown>>

Path(directory, id) == [directory |-> directory, id |-> id]
Manifest(status, samples) == [status |-> status, samples |-> samples]
Report(status, accepted) == [status |-> status, accepted |-> accepted]

Put(path, frame, pictures) ==
  [p \in DOMAIN pictures \cup {path} |-> IF p = path THEN frame ELSE pictures[p]]
Drop(path, pictures) == [p \in DOMAIN pictures \ {path} |-> pictures[p]]
Move(from, to, pictures) == Put(to, pictures[from], Drop(from, pictures))

Init ==
  /\ disk = [manifest |-> NoFile, pictures |-> <<>>, solutions |-> <<>>]
  /\ capture = [at |-> "closed", samples |-> <<>>, next_sample_id |-> 1, sample |-> 0]
  /\ solver = [at |-> "idle", samples |-> <<>>, accepted |-> 0]
  /\ shown = {}

\* Samples of the manifest the process holds in memory.
Samples == capture.samples

\* The camera opens with the expected format, or the tool ends with 2 or 3;
\* a first manifest that cannot be written ends it with 1.
OpenCapture ==
  /\ capture.at = "closed"
  /\ \/ capture' = [capture EXCEPT !.at = "ended"] /\ UNCHANGED disk
     \/ \E o \in Replace(disk.manifest, Manifest("collecting", <<>>)) :
          /\ disk' = [disk EXCEPT !.manifest = o.file]
          /\ capture' = [capture EXCEPT !.at = IF o.ok THEN "running" ELSE "ended"]
  /\ UNCHANGED <<solver, shown>>

\* A frame follows the last sample saved, the excluded ones too, in the same
\* round.
Follows_NewRound(frame) ==
  Samples # <<>> => frame.sequence > Last(Samples).frame.sequence

Follows(frame) ==
  Samples # <<>> => LET last == Last(Samples).frame IN
                    /\ frame.sequence > last.sequence
                    /\ frame.time > last.time
                    /\ frame.round = last.round

\* The camera fails, a frame has no metadata or does not follow, the window
\* is closed, or a picture cannot be written.
FailCapture ==
  /\ capture.at = "running"
  /\ capture' = [capture EXCEPT !.at = "failing"]
  /\ UNCHANGED <<disk, solver, shown>>

\* Save: the sample is entered in memory and the picture written.  A failure
\* takes both back.
SaveImage ==
  /\ capture.at = "running" /\ capture.next_sample_id <= MaxSamples
  /\ \E frame \in Frames :
       LET path == Path("images", capture.next_sample_id) IN
       /\ Follows(frame)
       /\ disk' = [disk EXCEPT !.pictures = Put(path, frame, @)]
       /\ capture' = [capture EXCEPT !.at = "saving",
            !.samples = Append(@, [active |-> TRUE, path |-> path, frame |-> frame])]
  /\ UNCHANGED <<solver, shown>>

RollBack(c) == [c EXCEPT !.at = "failing", !.samples = Front(@)]

CommitSave ==
  /\ capture.at = "saving"
  /\ \E o \in Replace(disk.manifest, Manifest("collecting", Samples)) :
       IF o.ok
         THEN /\ disk' = [disk EXCEPT !.manifest = o.file]
              /\ capture' = [capture EXCEPT !.at = "running", !.next_sample_id = @ + 1]
         ELSE /\ disk' = [disk EXCEPT !.pictures = Drop(Last(Samples).path, @)]
              /\ capture' = RollBack(capture)
  /\ UNCHANGED <<solver, shown>>

\* Exclude: the picture of the last active sample is moved, then the
\* manifest written.  A move that fails is only reported.
LastActive == CHOOSE i \in DOMAIN Samples :
                /\ Samples[i].active
                /\ \A j \in DOMAIN Samples : Samples[j].active => j <= i

Marked(i, active, path) == [capture EXCEPT !.samples[i].active = active, !.samples[i].path = path]

ExcludeLast ==
  /\ capture.at = "running" /\ \E i \in DOMAIN Samples : Samples[i].active
  /\ LET i == LastActive  to == Path("excluded", Samples[i].path.id) IN
     /\ disk' = [disk EXCEPT !.pictures = Move(Samples[i].path, to, @)]
     /\ capture' = [Marked(i, FALSE, to) EXCEPT !.at = "excluding", !.sample = i]
  /\ UNCHANGED <<solver, shown>>

\* Without a manifest the picture is moved back.  Should that fail in its
\* turn, the sample stays excluded.
UndoExclude_InMemoryOnly(i, back) ==
  /\ capture' = [Marked(i, TRUE, back) EXCEPT !.at = "failing"]
  /\ UNCHANGED disk

UndoExclude(i, back) ==
  \/ /\ disk' = [disk EXCEPT !.pictures = Move(Samples[i].path, back, @)]
     /\ capture' = [Marked(i, TRUE, back) EXCEPT !.at = "failing"]
  \/ /\ capture' = [capture EXCEPT !.at = "failing"]
     /\ UNCHANGED disk

CommitExclude ==
  /\ capture.at = "excluding"
  /\ LET i == capture.sample IN
     \/ /\ disk' = [disk EXCEPT !.manifest = Manifest("collecting", Samples)]
        /\ capture' = [capture EXCEPT !.at = "running"]
     \/ UndoExclude(i, Path("images", Samples[i].path.id))
  /\ UNCHANGED <<solver, shown>>

\* Q and Esc end the capture as captured, a signal as aborted.
EndCapture ==
  /\ capture.at = "running"
  /\ \E status \in {"captured", "aborted"} :
       \E o \in Replace(disk.manifest, Manifest(status, Samples)) :
         /\ disk' = [disk EXCEPT !.manifest = o.file]
         /\ capture' = [capture EXCEPT !.at = IF o.ok THEN "ended" ELSE "failing"]
  /\ UNCHANGED <<solver, shown>>

\* A capture that failed is written down as aborted, if that can be.
AbortCapture ==
  /\ capture.at = "failing"
  /\ \E o \in Replace(disk.manifest, Manifest("aborted", Samples)) :
       disk' = [disk EXCEPT !.manifest = o.file]
  /\ capture' = [capture EXCEPT !.at = "ended"]
  /\ UNCHANGED <<solver, shown>>

KillCapture ==
  /\ capture.at \notin {"closed", "ended"}
  /\ capture' = [capture EXCEPT !.at = "ended"]
  /\ UNCHANGED <<disk, solver, shown>>

-----------------------------------------------------------------------------
\* solve <session directory>
Active(m) == SelectSeq(m.samples, LAMBDA s : s.active)

LoadSession(d) ==
  /\ d.manifest.status \in {"captured", "aborted"}
  /\ LET active == Active(d.manifest) IN
     /\ Len(active) >= MinSamples
     /\ \A i \in DOMAIN active : /\ active[i].path \in DOMAIN d.pictures
                                 /\ active[i].frame.camera = active[1].frame.camera
                                 /\ active[i].frame.round = active[1].frame.round

Solution == Len(disk.solutions)
NewSolution(report) == [report |-> report, extrinsics |-> NoFile]

\* A report that cannot be written leaves the solve at `otherwise`.
WriteReport(status, at, otherwise) ==
  \E o \in Replace(disk.solutions[Solution].report, Report(status, solver.accepted)) :
    /\ disk' = [disk EXCEPT !.solutions[Solution].report = o.file]
    /\ solver' = [solver EXCEPT !.at = IF o.ok THEN at ELSE otherwise]

\* A session that cannot be loaded is reported in a directory of its own.
Begin ==
  /\ solver.at = "idle" /\ Solution < MaxSolutions
  /\ IF LoadSession(disk)
       THEN /\ disk' = [disk EXCEPT !.solutions = WithNewDirectory(@, NewSolution(NoFile))]
            /\ solver' = [at |-> "reviewing", samples |-> Active(disk.manifest), accepted |-> 0]
       ELSE \E o \in Replace(NoFile, Report("failed", 0)) :
              /\ disk' = [disk EXCEPT !.solutions = WithNewDirectory(@, NewSolution(o.file))]
              /\ UNCHANGED solver
  /\ UNCHANGED <<capture, shown>>

\* A board that is not found, or not solved for, is passed over.
Review ==
  /\ solver.at = "reviewing" /\ solver.samples # <<>>
  /\ \E pose \in {0, 1} :
       solver' = [solver EXCEPT !.samples = Tail(@), !.accepted = @ + pose]
  /\ UNCHANGED <<disk, capture, shown>>

CancelReview ==
  /\ solver.at = "reviewing" /\ solver.samples # <<>>
  /\ WriteReport("aborted", "idle", "idle")
  /\ UNCHANGED <<capture, shown>>

RejectSamples ==
  /\ solver.at = "reviewing" /\ solver.samples = <<>> /\ solver.accepted < MinSamples
  /\ WriteReport("failed", "idle", "failing")
  /\ UNCHANGED <<capture, shown>>

\* Whether the estimate could be written is not looked at.
WriteExtrinsics_Unchecked ==
  /\ solver.at = "reviewing" /\ solver.samples = <<>> /\ solver.accepted >= MinSamples
  /\ \E o \in Replace(NoFile, [status |-> "estimate"]) :
       /\ disk' = [disk EXCEPT !.solutions[Solution].extrinsics = o.file]
       /\ solver' = [solver EXCEPT !.at = "solved"]
  /\ UNCHANGED <<capture, shown>>

\* The estimate is written before the report that says there is one.
WriteExtrinsics ==
  /\ solver.at = "reviewing" /\ solver.samples = <<>> /\ solver.accepted >= MinSamples
  /\ \E o \in Replace(NoFile, [status |-> "estimate"]) :
       /\ disk' = [disk EXCEPT !.solutions[Solution].extrinsics = o.file]
       /\ solver' = [solver EXCEPT !.at = IF o.ok THEN "solved" ELSE "failing"]
  /\ UNCHANGED <<capture, shown>>

ReportSolved ==
  /\ solver.at = "solved"
  /\ WriteReport("solved", "idle", "failing")
  /\ UNCHANGED <<capture, shown>>

\* An unreadable picture, an estimator that throws, and what could not be
\* written above end as a failed report, if that can be written.
FailSolve ==
  /\ \/ solver.at = "failing"
     \/ solver.at = "reviewing" /\ solver.samples # <<>>
  /\ WriteReport("failed", "idle", "idle")
  /\ UNCHANGED <<capture, shown>>

KillSolver ==
  /\ solver.at # "idle"
  /\ solver' = [solver EXCEPT !.at = "idle"]
  /\ UNCHANGED <<disk, capture, shown>>

\* visualize <solution directory> replays a solution once it is complete.
LoadSolution_NoReport(s) == s.extrinsics # NoFile

LoadSolution(s) ==
  /\ s.extrinsics # NoFile
  /\ s.report.status = "solved"
  /\ s.report.accepted >= MinSamples

Visualize ==
  /\ \E i \in DOMAIN disk.solutions :
       /\ i \notin shown /\ LoadSolution(disk.solutions[i])
       /\ shown' = shown \cup {i}
  /\ UNCHANGED <<disk, capture, solver>>

Next == \/ OpenCapture \/ FailCapture \/ SaveImage \/ CommitSave \/ ExcludeLast
        \/ CommitExclude \/ EndCapture \/ AbortCapture \/ KillCapture
        \/ Begin \/ Review \/ CancelReview \/ RejectSamples \/ WriteExtrinsics
        \/ ReportSolved \/ FailSolve
        \/ KillSolver \/ Visualize

Spec == Init /\ [][Next]_vars

-----------------------------------------------------------------------------
\* A manifest that can be solved lists what is on disk: every sample has its
\* own picture where the manifest says, and the samples are of one round, in
\* the order they were taken.
SessionsAreWhole ==
  disk.manifest.status \in {"captured", "aborted"} =>
    LET samples == disk.manifest.samples IN
    \A i \in DOMAIN samples :
      /\ samples[i].path \in DOMAIN disk.pictures
      /\ disk.pictures[samples[i].path] = samples[i].frame
      /\ samples[i].active <=> samples[i].path.directory = "images"
      /\ \A j \in 1 .. i - 1 : /\ samples[j].frame.time < samples[i].frame.time
                               /\ samples[j].frame.round = samples[i].frame.round

\* A report that says solved has its estimate next to it, from enough samples.
SolvedIsWritten ==
  \A i \in DOMAIN disk.solutions :
    disk.solutions[i].report.status = "solved" =>
      /\ disk.solutions[i].extrinsics # NoFile
      /\ disk.solutions[i].report.accepted >= MinSamples

\* What is replayed was reported as solved, and stays so.
ReplaysAreSolved == \A i \in shown : disk.solutions[i].report.status = "solved"
=============================================================================
