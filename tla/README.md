# Formal model of rm_vision

This directory holds TLA+ modules that model the program in `src/`, TLC configurations that
check them on small instances, and TLAPS proofs of the results that matter most for every value
of the constants. Paths of code below are relative to `src/src/`, those of `docs/` and `test/`
to `src/`.

## 1. The system

The program reads camera frames, finds and tracks an armoured opponent, plans gimbal
trajectories at 100 Hz and sends aiming and trigger commands to a gimbal, either of
the Talos simulator (shared memory) or of a real machine (serial line). Beside it stand a web
page that tunes the vision front end, Foxglove outputs, an evaluator that compares with the
simulator's truth, and three calibration tools that are programs of their own.

```
              web server <--> tuning mailbox
                                 |
camera ---> VisionPipeline ------+---> ControlRuntime (100 Hz thread) ---> command sink
 (grab,      front end, PnP,            ControlSession                      Talos shared memory, or
  stamp)     tracker                     FireControl, RulePolicy            adapter with PID - sink -
   |           |                         feedback estimator, planner        SerialImu - ControllerLink
   |           v                            |             ^                 (thread) - board
   |        evaluator, window,              v             |
   |        Foxglove publishers       RuntimeSupervisor   gimbal tuning reload
   +--- pose of the frame (IMU)       (faults, health, exit code)   (thread)
```

| component | state | operations | hard behaviour |
|---|---|---|---|
| `FireControl`, `RulePolicy` | slot lock, switch candidate, stability count, pulse and interval instants, tracked object | `Step`, resets | many reset paths, order of gates, a policy callback that throws |
| `ControlSession` | round, transport state, cached trajectory, friction instant, awaiting flag | `Step`, `StepWithPolicy`, `AcknowledgePublication`, `ClearPublishedProjection` | command decided, sent and acknowledged in separate calls; fallback to an old plan |
| feedback estimator | measurement, telemetry, last command, source, unwrapped yaw | observations, `Estimate`, clears | which source is believed, stale sources, turns of the yaw |
| `ControlRuntime` | thread, running flag, latest snapshot | `Start`, `Update`, `Stop`, loop | stop during a cycle, exceptions, failed sends |
| `VisionRuntime` | optional parts still in use | `Run` | who sees a fault first, which reason is returned |
| `RuntimeSupervisor` | health per component, first terminal fault | `Report`, `Recover`, `Snapshot`, `TerminalResult` | two threads, timeouts since the last healthy observation |
| application | what is built, what runs | `Run()` of `main.cpp` | stages that may fail, waiting for a board, order of destruction |
| `ControllerLink` | session, handshake, clock replies, command mailbox | worker loop, `QueueGimbalCommand` | reconnects, late answers, mailbox shared with the control thread |
| `SerialImu` | copy of the link state, samples | `OnUpdate`, `Health`, `QueueGimbalCommand` | samples of an old session, samples that freeze |
| serial sink and adapter | last command queued, PID of each axis | `Send`, `SendRate`, telemetry | health changes between two looks, integrals that survive a break |
| gimbal tuning reload | last good, candidate, pending | `Run`, `TakePending` | files changing while they are read |
| web server, preview, page | revision shown, wire, preview request | HTTP handlers, preview worker, polling | several pages, a page older than the run, stop during an encode |
| `VisionTuningMailbox` | active and pending configuration | `Submit`, `TryTakePending`, `MarkApplied`, `MarkFailed` | web thread and vision thread |
| MindVision camera, frame geometry | device, tick extension, offsets, last stamp | `Open`, `Grab`, `Close`, `Attach` | a tick that wraps or restarts, capture times against reception times |
| Talos device, runtime state, sink | mapped memory, heartbeat, sequence numbers | `Grab`, `ReadRuntimeState`, `Send` | lock-free exchange with another process, restarts of either |
| detector, corner refiner, light detector | none beyond a frame | decode, refine, detect | borders, ties, limits, bars cut off |
| `ArmorPredictor` | tracker state, track generation, filter | `Predict` | loss, reacquisition, change of target |
| Foxglove publishers | two queues, two workers, recording, subscriptions | push, drain, `Stop` | slow consumers, stop against workers, clients that come and go |
| evaluator | frame before, counts, last summary | `Evaluate`, matching | skipped frames, pairings that look plausible |
| calibration tools | session directory, manifest, solution files | capture, exclude, review, solve, replay | killed at any time, two programs on one directory |
| core, frame, geometry | values | parsing, arithmetic | numeric |

What makes each part correct:

* Fire control and session: a shot passes every gate; a pulse is never resumed and keeps its
  distance to the one before; a failed solve falls back only to a plan that was published for the
  same target, a short time ago; friction wheels stop when nothing was seen for a while; the
  direction of the gimbal comes from the source that is said to be believed.
* Runtime and application: whatever fails, the last command is a stop, the first terminal fault
  decides the exit code, timeouts are real, a run that must end does end, and no thread outlives
  what it was given by reference.
* Serial line: nothing queued for one session is written in another; a stop is not swallowed by the
  acknowledgement of an older command; attitude is read with the clock it was sampled by; an axis
  never integrates across a break.
* Tuning: no page overwrites what it has not seen; parameters of half a save never reach the gimbal;
  what was accepted takes effect.
* Cameras: a slot of shared memory is never used by both processes, frames are whole and the newest;
  capture times rise and are never later than the reception.
* Front end and tracker: every armour and bar once, with its own corners; a track rests on whole
  armours, is given up in time, and has a generation of its own.
* Debug outputs: what was accepted before the stop is on the tape, and nothing is drawn on a track it
  was not made for.
* Calibration and evaluation: what a manifest lists is on disk, no solution is on disk that was not
  earned, and every number is of the frames it is said to be of.

The lines at which each of these can go wrong are the `hazards` of `PROJECT.json`, each with the
properties that would show it.

## 2. Modules

| module | models | built on |
|---|---|---|
| `FireControl` | `FireControl::Step` and the rule policy, as functions from state and input to state and command | |
| `ControlSession` | one control cycle: `Step`, `AcknowledgePublication`, stops from outside | `FireControl` |
| `ControlSessionProofs` | theorems about `ControlSession` | |
| `GimbalFeedbackEstimator` | where the session believes the gimbal to point | |
| `RuntimeSupervisor` | `Report`, `Recover` and the policy table, as functions (one mutex guards them whole) | |
| `VisionControl` | vision thread, control thread, supervisor, command sink | `RuntimeSupervisor` |
| `RunLifecycle` | what a run promises, without threads or components | |
| `VisionControlProofs` | theorems about `VisionControl`, with the refinement of `RunLifecycle` | |
| `Application` | construction, wait for the board, failure and destruction in `main.cpp` | |
| `SerialLink` | control thread, mailbox, worker and IMU view of the serial line | |
| `SerialLinkProofs` | theorems about `SerialLink` | |
| `GimbalTuningReload` | the reader of the gimbal's files, its mailbox, the PID of each axis | |
| `WebTuning` | web server, page, preview worker, tuning mailbox, vision thread | |
| `MindVisionCamera` | the real camera, its capture times, the poses of its frames | |
| `TripleBuffer` | index operations of the shared-memory buffers | |
| `TalosCamera` | simulator, frame buffer and `TalosDevice` | `TripleBuffer` |
| `TalosCameraProofs` | theorems about `TalosCamera` | |
| `TalosCommandSink` | command buffer, sink, runtime state, with kills and restarts | `TripleBuffer` |
| `ArmorDecoding`, `CornerRefinement`, `LightbarDetection` | from network output and picture to armours, corners, bars | |
| `ArmorAssociation` | which armour and light bar belongs to which slot, with reference definitions | |
| `ArmorTracker` | `ArmorPredictor::Impl::ProcessFrame` | `ArmorAssociation` |
| `ArmorTrackerProofs` | theorems about `ArmorTracker`, and about `TruthMatching`, which needs the same lemmas on sums | |
| `LatestFrameQueue`, `FoxgloveSession` | the frame queue; recording, server and subscriptions | |
| `VisionDebugPublisher` | vision and control publisher with their workers, and their stop | both |
| `VisionDebugPublisherProofs` | theorems about `VisionDebugPublisher` | |
| `TruthMatching`, `SimulationEvaluator` | pairing of detections with true armours; counts, jitter, summary | |
| `CalibrationFiles` | how the tools put a file in place | |
| `IntrinsicCalibration`, `ExtrinsicCalibration`, `HandeyeCalibration` | capture, review and solve of the three tools | `CalibrationFiles` |
| `MCControlSession`, `MCControl`, `MCVisionControl`, `MCArmorTracker` | inputs and instances for the runs | |
| `MCPrograms` | the components that share no state with another module, for one run | |
| `ComponentProofs` | theorems about thirteen of these components, each under its own names | |
| `ProgramsProofs` | the same theorems of `MCPrograms`, and that of `TruthMatching` | |

An operator with a suffix (`Reset_KeepsCommand`) is a plausible wrong version of the one that
follows it; it is used nowhere but to show that a property notices the difference.

### Control chain (`FireControl`, `ControlSession`, `GimbalFeedbackEstimator`)

One cycle of `ControlSession::Step` is one action: the round and transport observations, the input
checks, `FireControl::Step` with slot lock, ballistics, policy, pulse and plan, and the fallback.
`StepThrows` is the same cycle when the policy callback throws: what was consumed before the throw
stays consumed. The caller then acknowledges (sent or not) in a separate action, and may publish a
stop of its own between cycles (`ControlRuntimeImpl::SendStop`). Time is counted in planner periods.
Geometry, ballistics and the QP solver enter as verdicts of the cycle's input record, for instance
`planned` for a solved trajectory and `aim` for a direction inside the window. `hist` remembers what
was *published*, independently of the session's own members, so that the properties compare the two.
The estimator is a module of its own, with the calls the session makes of it as actions; the yaw is
one of `Turn` directions, so that a turn too many is visible.

### A run (`RuntimeSupervisor`, `VisionControl`, `RunLifecycle`, `Application`)

`vision.pc` and `control.pc` are the places where each thread touches shared state; a step is the code
from one to the next. Every call that may throw or fail has both outcomes. `Latched`, `Terminates`
and `Recovered` are the policy of `RuntimeSupervisor`. `RunLifecycle` is the abstract specification:
five variables, and `ImplementsLifecycle` says that `VisionControl` under the mapping in that module
implements it. `Application` is what surrounds a run: each stage of `Run()` is a step that succeeds or
fails as the code treats it, then the locals are destroyed against the order of their declaration. The
serial adapter, whose thread reads the tuning files, is an object of its own there: `ControlRuntime` owns it
and joins the control thread first. An exception that nothing catches, out of a stage or of the run, ends
with 1 and stops no thread before the destructors do.

### Serial line (`SerialLink`, `GimbalTuningReload`)

A variable is what one mutex guards or one thread owns, and a step ends where the mutex is released:
that `QueueGimbalCommand` takes two mutexes one after the other is two steps. The board answers, is
late or silent; the cable may be pulled at any step; a timer has run out or has not. The board's
clock jumps only between sessions. `seen` and `session` in a command are history: which session the
sender's check saw, and which one was current when the command was queued. In `GimbalTuningReload`
each reading of a file is a step, any of the files may be missing, which gives the pass up
(`GiveUpPass`), the integral of an axis is abstracted to where it came from, and
`AfterSend` is what the adapter does to the controllers when a cycle was refused, late or lost. `editor` is
history: which files were saved since the reader's last reading of all, and whether one of them was saved twice.

### Tuning from the browser (`WebTuning`)

The server, its page and the vision thread. Status, preview and mailbox have a lock each, never held
together, so every locked section is a step. A page holds what it last showed and the base revision its
edits carry; answers travel on `wire` and may be outdated when they arrive. `RestartSpec` adds a restart
of the program under an open page.

### Cameras (`MindVisionCamera`, `TripleBuffer`, `TalosCamera`, `TalosCommandSink`)

Each access to shared memory is a step: loading the state, exchanging it, storing the index, copying
metadata, copying pixels. A copy begins and ends in different steps and is torn if the slot changed
in between. The simulator is not in this repository; its side is the protocol that
`TalosGimbalCommandSink::Send` follows in the other direction, with the metadata's `buffer_id` naming
the slot it was offered in. `Close` gives its mutex back between the stop and the unmapping; nobody can
take it there, because only the destructor calls it and `ControlRuntime` has joined the one thread that sends. `Kill` ends the vision process between any two steps. The MindVision
camera's tick is counted modulo `TickRange`; its `time_offset_ms` is taken as zero, as shipped.

### Front end and tracker

`ArmorDecoding` spans boxes over one axis of the picture; `CornerRefinement` keeps of a corner its place
along the bar, and measures its width in halves of a pixel, since the limit is compared with the width as it
is and the scan lines with its whole pixels; `LightbarDetection` keeps of a contour the verdicts its filters give.
`ArmorTracker.ProcessFrame` is one step with the branches of the code. Image costs and the filter's
verdicts are inputs. The dynamic program over bit masks that matches light bars is a recursive function
over the rows of detections (`Relax` is its inner step), compared after every frame with the optimum
over all matchings; `TruthMatching` does the same for the Hungarian algorithm, with a step for each
turn of its inner loops.

### Debug outputs (`LatestFrameQueue`, `FoxgloveSession`, `VisionDebugPublisher`)

The queue is a value whose lock makes its operations parts of their callers' steps. The control worker
tests its flag and goes to wait in two steps, because `Stop` stores the flag without the mutex (finding 4).
`owed` is history: what was queued for a recording that was sound.

### Calibration (`CalibrationFiles`, `IntrinsicCalibration`, `ExtrinsicCalibration`, `HandeyeCalibration`)

A session directory is a record of its files. Capture and solve are processes; every file operation is a
step that may fail, and a process may be killed before the next one. What is on disk then is what the
next process finds. A picture of the intrinsic tool is written under its final name, so that a write that
ends half way leaves one that cannot be read (`TearImage`), at which a later solve ends.

### `MCPrograms`

Fourteen of these modules share no state with any other. They are instances of one module, and a behaviour
is one of them from its first step on: `program` says which, and `x1` to `x10` are its variables in the
order in which its module declares them. Each property there starts with the program it reads, so
nothing is claimed about two of them together; a single state graph saves nothing but runs. The constants of
the components that theorems are about are constants of `MCPrograms`, so that the theorems hold for every
value of them; the others are given where the module is instantiated.

## 3. Runs

| run | configuration | question | answer |
|---|---|---|---|
| `control` | `MCControl` | gates, pulses, intervals, rule policy; plans and targets of fallbacks, friction wheels | holds |
| `throw` | `MCThrow` | same target with a policy that throws | violated, finding 1 |
| `runtime` | `MCRuntime` | exit code, last command, timeouts, when optional parts are given up, refinement, end of a run | holds |
| `sink_timeout` | `MCSinkTimeout` | the documented limit of an unhealthy sink | violated, finding 3 |
| `serial` | `MCSerial` | commands of ended sessions, what is marked as sent, samples, telemetry; that sessions go on | holds |
| `replay` | `MCReplay` | a command is written in the session its sender saw | violated, finding 2 |
| `tracker` | `MCTracker` | confirmation, coasting, generations, manoeuvres, light bars in pairs, matchings | holds |
| `talos` | `MCTalos` | frames whole and newest, a dead simulator noticed | holds |
| `debug` | `MCDebug` | what is on the tape, what a frame shows as selected | holds |
| `debug_stop` | `MCDebugStop` | the control publisher's stop returns | violated, finding 4 |
| `web_restart` | `MCWebRestart` | a page that outlives the program | violated, finding 5 |
| `programs` | `MCPrograms` | the rest, one program at a time | holds |

The properties of `programs`: `WebKeepsEdits` (no edit over unseen values, frames go through the reported
revision), `PidIsTuned` (parameters that were on disk together unless a file is saved twice between two
readings, no integral across a break), `ProgramsAnswer`
(an accepted edit, the last files, a signal and a stop take effect), `ThreadsHaveTheirMeans`
(construction and destruction), `CaptureTimesRise`, `CalibrationsAreEarned`, `RecordingsAreWhole`,
`SinkIsSound` (commands and snapshots whole, a stop after an orderly close), `FeedbackIsOfItsSource`,
`EvaluationIsTrue`, `FrontEndIsSound`.

### Bounds

* `control`: `MaxTime` 5 periods (4 for the failing solves). A pulse is 3 periods, the interval 4, a
  fallback 2 and the friction hold 3: every limit passes while the one before it is still running. Two
  slots and two objects suffice for every comparison the code makes between them; three stable cycles
  add nothing to two. The input families of `MCControlSession` vary what one hazard is about around
  a cycle in which all is in order, and any sequence of them is explored. The theorems hold for every set
  of inputs.
* `runtime`: three deployments side by side: a sink that is given up, one that is waited for, and no
  sink but every optional part. One unit of time lets each timeout pass or not; `DisableAfter` 2 in the third
  makes a row of failures that can be interrupted; no time passes there, as its parts have no timeouts.
  `sink_timeout` has a camera timeout of 2, so that the sink's runs out first.
* `serial`: two sessions and two queued commands are what a replay needs. Two clock replies in place of
  three keep a session that is acknowledged and not yet synchronized; `replay` has three.
* `tracker`: frames are of 25 kinds; three generations bound a behaviour. The limits (3 detections, 2 lost
  frames, 2 confirmations within a window of 3, hold 3) are smallest values at which off-by-one errors
  are visible.
* `talos`: three frames use every slot of the triple buffer once and one twice; a clock jump of one
  heartbeat timeout makes a dead simulator look alive. The command buffer has three commands too.
* `debug`: one client, three frames and two cycles over a control queue of one: the queue overflows, a
  track is lost and replaced. `MinDetect` is 3 (shipped: 5), the least value that works: the code compares label, state and age of a
  selection (at most two frames) but no generation, and only a track that needs three detections is
  too young for the selection of its predecessor when it is first tracked.
* `programs`: the bounds are constants of `MCPrograms` or stand at its instances. Two pages and two revisions (a conflict needs two); three saves (the start, something else, and
  back); ticks modulo 6 with frames up to 3 apart, three offsets and a window of 3, so that the tick
  wraps, jumps and offsets grow old; three samples, the smallest number the motion tests of the tools
  tell apart, and one more where an excluded one must not count; three frames of the evaluator with a
  summary every second; up to 3 rows and 2 true armours with two prices and forbidden pairs, over which
  augmenting paths of length two occur; three network rows on and beside the canvas; three contours over a
  limit of two; three directions to a turn, the fewest of which one is neither the same nor the opposite.

`CHECK_DEADLOCK FALSE` stands in every configuration because behaviours end: at a bound, or with the
process.

### Fairness

* `VisionControl` (`MCSpec`): weak fairness of each thread's own steps. Both are loops of an operating
  system thread whose calls return (grabs have a timeout, waits a deadline, the sink does not block);
  nothing is assumed of the camera, the sink or time. `SilentCameraEndsTheRun` is about an instant that
  has already been reached.
* `SerialLink`: weak fairness of the worker (its reads time out) and of the timer for unusable samples;
  none of the cable, the board or the sender.
* `TalosCamera`: weak fairness of calling `Grab`, of its steps, and of time; strong fairness of the
  heartbeat check, because a grab whose deadline passed before its first look would check nothing, and
  not every call of 100 ms and more is delayed by that long.
* `VisionDebugPublisher`: weak fairness of both workers and of the stopping main thread; that is enough to
  show that a lost wakeup, not the scheduler, keeps `Stop` from returning.
* `MCPrograms`: of the web program the vision thread, the preview worker, the stopping thread and the
  server's handler of a request that has arrived, none of the pages; of the reload the reader (polls
  every 250 ms) and the control thread (100 Hz), none of the editor; of the application the main thread, none
  of the board, and the end of a run only after a signal.

## 4. Findings

1. `throw` (code): the policy callback throws in the cycle in which the tracked object changes. The
   change is consumed (`fire_control.cpp:291-300`), the line that drops the cached trajectory
   (`control_session.cpp:269-271`) is not reached, and a failed solve on the same slot within 100 ms replays
   the plan of the other object. `docs/modules/CONTROL_CORE.md:64-65` demands the same target.
2. `replay` (code): `controller_link.cpp:105` says that no command of an old session is replayed. The
   sender's check and its write to the mailbox are under different mutexes; a command checked before a reset
   and queued after the mailbox was cleared is written in the next session.
3. `sink_timeout` (documentation): `docs/runtime/ERROR_POLICY.md:29` promises exit 7 after one
   second; the shipped `config/runtime/error_policy.yaml` sets the option that skips this test.
4. `debug_stop` (code): `ControlDebugPublisher::Stop` lowers `accepting_` and notifies without the mutex
   (`control_debug_publisher.cpp:1471-1472`). Between the worker's test and its wait (1287-1290) both are
   lost, and the join never returns. The header (`control_debug_publisher.hpp:47`) and
   `docs/tool/FOXGLOVE.md:177` promise a stop that drains and closes.
5. `web_restart` (documentation): `docs/tool/WEB_DEBUG.md:39` says that an old page never overwrites
   current values. Revisions start at 1 in every run (`vision_tuning.cpp:7-8`), and a page that stays open
   compares nothing else (`web_assets.cpp:20,25`): after a restart with other files its next edit is
   accepted.

Not findings, as nothing promises otherwise or no run shows them, but worth knowing:

* The last stop over the serial line is only queued and the worker may end before it writes it (the
  board's watchdog covers it); a window that is closed hides a terminal fault latched just before.
* A process killed between the exchange of a shared buffer's state and the store of its own index
  leaves a slot lost and another held twice, and the next process inherits that. The properties of
  `TalosCamera` are stated for behaviours without such a kill (`hist.cut`), and `TalosCommandSink`'s
  `Kill` excludes it; all other kills are included. A killed process leaves its last command in force.
* `test/talos/talos_protocol_test_main.cpp:123` says that `Open` discards queued frames; nothing in `Open`
  does, and the first grab delivers one.
* Snapshots of the runtime state are whole because the publisher clears the time before it writes; a
  publisher that does not would be believed. That order is the simulator's, outside this repository.
* Two readings of the gimbal's files are compared by their text. A file saved away and back between the
  two, while another is saved the other way, makes them agree on a combination that was never on disk. This takes
  six saves in a poll of 250 ms: with `MaxSaves` 6 TLC finds it, with five it cannot happen. `PidIsTuned` therefore
  excludes a file that is saved twice between two readings, and then holds for any number of saves.
* A selection in the Foxglove view compares no generation. `armor_predictor_config.cpp:197` accepts every
  `min_detect_count` above 0; with 2 a track may show the selection made on its predecessor. The shipped value
  is 5.
* The estimator falling back from telemetry to the camera may move the yaw by whole turns.
* A failed rename of the intrinsic tool removes the target and tries again, and may leave no manifest at
  all (`calibration.cpp:61-64`); a residual that is no number passes its upper limits (368-374); `solve`
  does not look at whether a session is still being captured.
* The evaluator draws a summary only when a frame whose number is a multiple of 100 is itself evaluated.
* `MarkFailed` of the tuning mailbox has no caller.

## 5. Proofs

TLAPS checks the following for every value of the constants that the named assumptions allow. Each assumption
is what a parser of the configuration enforces, a property of the shipped hardware, or a bound:
`FireControlAssumption`, `SessionAssumption`, `PolicyAssumption`, `RuntimeAssumption`, `SerialAssumption`,
`TrackerAssumption`, `TalosAssumption`, `PublisherAssumption`; of `MCPrograms` `ClockAssumption` (ticks and
offsets are counted, no two frames are received at once), `TurnAssumption` (an odd number of directions, so that
none lies opposite another) and `FrontEndAssumption` (the picture has a size, what is measured are numbers).
TLC evaluates all of them.

| module | theorems of properties that a run checks | other theorems |
|---|---|---|
| `ControlSessionProofs` | `OnlyGatedFire`, `PulsesAreContinuous`, `PulsesAreSpaced`, `FallbacksArePublishedPlans`, `FallbacksKeepTheTarget`, `RuleShotsAreAimed`, `FrictionStops` | `TypeCorrect` |
| `VisionControlProofs` | `EndsWithAStop`, `RunsKeepTheirPromise`, `UnhealthyCyclesStop`, `ExitsAreExplained`, `TimeoutsWereOver`, `PartsAreGivenUpAtThreshold` | `Soundness`, `TypeCorrect`, `TheFirstFaultStays`, `ComponentsAreWatched` |
| `SerialLinkProofs` | `QueuedCommandsDieWithTheirSession`, `TheBooksAreTrue`, `TelemetryNamesTheLastQueued` | `Soundness`, `TypeCorrect`, `CommandsAreWrittenOnceInOrder` |
| `ArmorTrackerProofs` | `TracksAreConfirmedByArmor`, `CoastingEnds`, `GenerationsAreUnique`, `ManeuversRestOnEvidence`, `LoneLightsComeInPairs`, `LightsAreMatchedBest` | `Soundness`, `TypeCorrect`; of the evaluator `MatchingIsTheCheapest` |
| `TalosCameraProofs` | `FramesStayWhole`, `TheNewestIsTaken` | `TypeCorrect`, `Exchange`, `NoSlotIsLost`, `NumbersRise` |
| `VisionDebugPublisherProofs` | `SelectionIsOfItsTrack`, `TheTapeIsComplete` | `TypeCorrect` |
| `ProgramsProofs`, from `ComponentProofs` | `WebEditsAreKept`, `GimbalIsTuned`, `SharedMemoryIsSound`, `ThreadsAreJoined`, `OnlyEarnedIsSolved`, `RecordingsStayWhole`, `SourcesAreNamed`, `TimesRise`, `FrontEndIsTrue`, `EvaluationsAreTrue` | of each component |

A safety property is seldom inductive. What has to be added, and why:

* `ControlSessionProofs`: what the result says of itself (`ResultInv`); that the cached trajectory is the last
  plan published, which is why a fallback is one (`PlanInv`); that a running pulse, the last shot and the
  command that carries it belong together (`PulseInv`). Without the last, a pulse could be running although the
  cycle before had not fired. On top of these, `EvidenceInv`: the stability count is never ahead of the
  cycles in a row that the rule policy aimed itself, those of an external policy not among them (`StableInv`), the cached plan is for the object identified last unless the policy
  threw (`TargetInv`), and the friction instant is a capture that showed the target (`VisibleInv`). The lemmas follow
  the cycle: what the observations leave (`ObservedFacts`), what the fire control does, what the session
  makes of it.
* `VisionControlProofs`: where each thread can be while the other is somewhere (`ThreadInv`), what the answer
  read before the join may be (`AnswerInv`), and that the supervisor is sound. One lemma per step proves the
  invariant, the box of `FirstFaultStays` and the step of `RunLifecycle` together (`Kept`). `WatchInv`
  uses that every component is watched by one thread alone: what that thread reported last is what the
  supervisor holds, until a terminal fault is latched. From it follow the timeouts, the thresholds and the
  explanation of the exit.
* `SerialLinkProofs`: the command in the mailbox is of the worker's session (`MailboxInv`), although the
  sender's check may have been of an earlier one (finding 2); between the write and its mark, the worker holds what it wrote, although
  the mailbox may have been refilled (`WrittenInv`); what the sink says is in force was queued last
  (`SinkInv`).
* `ArmorTrackerProofs`: counters, generation and manoeuvre follow from what the frames showed (`StampInv`,
  `DetectInv`, `CoastInv`, `GenerationInv`, `ManeuverInv`). What the matchings compute is
  opaque there, only that light bars are matched to slots and used once (`LoneLightsComeInPairs`).
  Then come the two matchings of least cost, for which sums are taken apart first: the library adds up a
  set in an order of its own, and `SumOfUnion`, `SumOfImage`, `SumIsMonotone` and their like show that no order
  matters, each from a smallest set for which it fails, since no induction theorem can be cited.
  The *light bars* (`LightsAreMatchedBest`): after each row the table holds, for exactly the sets of bars that
  the rows so far can use, a matching of them that none with the same bars undercuts; that the recursive table
  exists at all, and that a row keeps this up, is again shown at the first row that could fail.
  The *detections* (`MatchingIsTheCheapest`, the Hungarian algorithm of the evaluator): no pair costs less than
  the potentials of its row and column and a place costs exactly them, free columns have none (`PotentialsInv`);
  between two rows all rows before are placed (`RowInv`); while the tree grows, every column in it leads back to
  column 0 by ways on which nothing is left of the cost, up to the distance the search has come, and `min` holds what is
  left to the nearest (`GrowInv`, with a rank that falls along the ways); on the way back exactly one column still lacks
  its row (`FlipInv`). Summed up, the potentials bound every assignment from below (`AssignmentsCostMore`) and
  the places reach that bound (`PlacesCostLeast`); a matching is an assignment in which the rows it leaves
  out take columns of their own (`MatesAreAssigned`). TLC checked each invariant before it was proved.
  `MatchingIsTheCheapest` assumes of the costs that they are natural numbers (`TruthBounds`; the code adds
  doubles, and of their rounding nothing is said) and holds for every size of the problem; `MCPrograms` fixes a small one.
* `TalosCameraProofs`: the owner of each slot *including* the index that has been exchanged but not
  stored yet, what the simulator has written of its slot, that new content in the state is the frame
  offered last and taken by nobody, and that the camera's slot is whole and stays its own. It holds until a
  process is killed within an exchange, which is never forgotten (`CutStays`).
* `VisionDebugPublisherProofs`: which threads run at which stage (`StageInv`, `ControlInv`, `VisionInv`), that all that is
  still owed is in a queue or in a worker's hands (`OwedInv`), and that a selection made on an earlier track is older
  than every armour of the one that runs (`SelectionInv`). `SelectionIsOfItsTrack` assumes `MinDetect > 2`; the parser demands only that it be positive
  (`armor_predictor_config.cpp:197`), the shipped value is 5, and for 2 TLC refutes the property.
* `ComponentProofs` proves the components of `MCPrograms` under their own names, section by section; a section
  declares the constants and variables of its component. The sink: who owns which slot and what it
  contains, as for the camera, and that times never return. The page: what it shows was once
  active, and what it sends carries the revision it has shown (`WebInv`). The reload: whether a file
  was saved, once or twice, since the last reading of all of them (`TwoReadingsInv`). The application: what
  exists at each place of the build (`BuiltInv`), and that all a thread uses is alive (`UsesInv`). The calibrations: what is on disk agrees with the
  process that writes it, at each place it may be killed at. The estimator: its state is the estimate of the
  source it names, and the yaw of that is near the one before; half a turn decides, hence an odd number of
  directions. The clock of the MindVision camera: the extended tick with *any* offset that is kept lies
  not before the last capture time (`ClockInv`), so dropping offsets is harmless and adding one is too.
  The decoder: between kept candidates and those still to come, scores fall, no two that
  are kept overlap, and what is in neither overlaps a better one that was kept (`ThinnedInv`). The light bars: the first of a list by falling score are its best ones (`BestFirst`). The
  corners: the search along a line is a recursive function whose existence and meaning are shown by the
  first place at which they could fail (`SearchExists`, `EdgeIsTheSteepest`). The evaluator: `previous` names the last recorded
  frame for just the armours that frame solved (`RecordInv`), although frames that threw moved on the
  number, and the summary is one that was counted (`SummaryInv`).
* `ProgramsProofs` carries these over. One lemma per component says that, with all definitions expanded,
  the program of `MCPrograms` and the component are one formula; `ProgramGoesOn` says that a step of
  `MCPrograms` is one of the program that runs.

The type invariants, `FirstFaultStays`, `SlotsAreApart`, `NumbersGoUp` and `WrittenOnceInOrder` are proved and in
no run's list.

Only model-checked:

* liveness (`RunsEnd`, `SessionsGoOn`, `DeadSimulatorIsNoticed`, `ProgramsAnswer`):
  the prover has neither fairness nor ENABLED.

Every invariant and every box of steps that a run checks is stated by a theorem.

## 6. What is not modelled

Numeric code (inference, OpenCV's image operations, PnP, the error-state filter, ballistics, planner, the
estimators of the calibration tools) has no interleaving and no state that outlives a call but the
numbers themselves; its verdicts are inputs. Parsing, logging, the Foxglove encoders, HTTP and vendor SDKs
are I/O or conversions. Also left out:

* the framing and CRC of the serial line, the shutdown of its worker, and `SerialImu::At`, whose answers
  `MindVisionCamera` and `HandeyeCalibration` take as any;
* the warm starts of the planner and the one-shot interface of the fire policy;
* the evaluator's comparison of predictions with later truth (`simulation_evaluator.cpp:544-578`);
* the OpenCV camera, the simulation attachments of a Talos frame, and the validation of its metadata,
  which is a verdict.

Within modelled parts, the rows of `components` say what else is left out.

## 7. Plan

Done: the control chain, runs, serial line, tracker and Talos frames; then tuning, application, command
sink, estimator, MindVision camera, debug outputs, calibration, evaluation and the front end; then theorems of
every safety property.

Left: what section 6 names that has state, the shutdown of the serial worker, the simulation attachments of a
Talos frame and the comparison of predictions with later truth.
