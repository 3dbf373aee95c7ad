----------------------- MODULE VisionDebugPublisher -----------------------
(***************************************************************************)
(* The Foxglove debug outputs beside the running program                   *)
(* (tool/foxglove): the vision thread hands over frames, the control       *)
(* thread hands over cycles, two workers encode and publish them to the    *)
(* live server and to the MCAP file, and the main thread stops it all.     *)
(* Frames wait in a queue of one, cycles in a bounded one that loses its   *)
(* oldest.                                                                 *)
(***************************************************************************)
EXTENDS FoxgloveSession, Sequences, FiniteSets, SequencesExt

CONSTANTS
  Period, JitterTolerance,  \* of the frame queue
  Capacity,                 \* K_CAPACITY of the control queue
  MinDetect,                \* tracking.min_detect_count of the predictor
  FrameGaps,                \* possible times between two frames
  MaxFrames, MaxCycles      \* bounds of the model

ASSUME PublisherAssumption ==
  /\ Period \in Nat \ {0}
  /\ JitterTolerance \in Nat /\ JitterTolerance <= Period \div 10
  /\ Capacity \in Nat \ {0}
  /\ MinDetect \in Nat \ {0}
  /\ FrameGaps \subseteq Nat \ {0}
  /\ MaxFrames \in Nat /\ MaxCycles \in Nat
  /\ {"impact", "state"} \subseteq Topics

INSTANCE LatestFrameQueue

VARIABLES
  stage,      \* the main thread, from construction to the end of Stop
  closed,     \* the publishers whose channels were closed
  accepting,  \* accepting_ of the two publishers
  \* vision thread
  now,        \* receive time of the newest frame
  prediction, \* its tracking result
  visionPc,   \* "idle", "publish"
  \* control thread
  controlPc,  \* "idle", "queue"
  cycles,     \* number of the running control cycle
  selection,  \* latest_selection: the last cycle's choice of armour
  \* queues and workers
  frames,     \* the frame queue
  samples,    \* the control queue
  frameWorker, controlWorker,
  \* history
  owed        \* queued for a sound recording, neither given up nor written since

threadVars == <<now, prediction, visionPc, controlPc, cycles>>
workerVars == <<frames, samples, frameWorker, controlWorker>>
vars == <<output, subscribers, stage, closed,
          accepting, now, prediction, visionPc, controlPc, cycles, selection,
          frames, samples, frameWorker, controlWorker,
          owed>>

Publishers == {"vision", "control"}
VisionTopics == Topics \cap {"image", "impact"}
ControlTopics == Topics \cap {"state", "scene"}
TopicsOf(p) == IF p = "vision" THEN VisionTopics ELSE ControlTopics

None == [seq |-> 0]
NoTrack == [seq |-> 0, gen |-> 0, label |-> "a", state |-> "LOST", detects |-> 0, reset |-> FALSE]
NoSelection == [valid |-> FALSE]
Idle(pc) == [pc |-> pc, item |-> None]

Init ==
  /\ SessionInit
  /\ stage = "vision_channels"
  /\ closed = {}
  /\ accepting = [p \in Publishers |-> FALSE]
  /\ now = 0 /\ prediction = NoTrack /\ visionPc = "idle"
  /\ controlPc = "idle" /\ cycles = 0
  /\ selection = NoSelection
  /\ frames = EmptyQueue /\ samples = <<>>
  /\ frameWorker = Idle("none") /\ controlWorker = Idle("none")
  /\ owed = {}

-----------------------------------------------------------------------------
\* Construction and start, on the main thread

\* One publisher creates its channels for each output still configured; an
\* output it fails on is given up for both, so that an active output has the
\* channels of both.
CreateChannels ==
  /\ \E failed \in SUBSET Configured : FailSetup(failed)
  /\ UNCHANGED <<subscribers, closed, accepting, threadVars, selection,
                 workerVars, owed>>

VisionChannels == stage = "vision_channels" /\ stage' = "control_channels" /\ CreateChannels
ControlChannels == stage = "control_channels" /\ stage' = "session" /\ CreateChannels

SessionStart ==
  /\ stage = "session"
  /\ \E up \in SUBSET Sinks : StartSinks(up)
  /\ stage' = "workers"
  /\ UNCHANGED <<closed, accepting, threadVars, selection, workerVars, owed>>

\* A publisher starts when any output is active and its thread can be made.
WorkersStart ==
  /\ stage = "workers"
  /\ \E started \in IF AnyActive THEN SUBSET Publishers ELSE {{}} :
       /\ accepting' = [p \in Publishers |-> p \in started]
       /\ frameWorker' = Idle(IF "vision" \in started THEN "wait" ELSE "none")
       /\ controlWorker' = Idle(IF "control" \in started THEN "check" ELSE "none")
  /\ stage' = "running"
  /\ UNCHANGED <<sessionVars, closed, threadVars, selection, frames, samples, owed>>

-----------------------------------------------------------------------------
\* Vision thread

\* The tracker's answer to the next frame.  A reset keeps its reason until a
\* new track starts, maybe in the same frame and with any label; a new track
\* is DETECTING until enough frames showed an armour, lights only keep it.
Advance(p, kind, label) ==
  LET seen == [p EXCEPT !.seq = @ + 1]
  IN CASE kind = "start" ->
            [seen EXCEPT !.gen = @ + 1, !.label = label, !.detects = 1, !.state = "DETECTING",
                         !.reset = FALSE]
       [] kind = "reset" -> [seen EXCEPT !.state = "LOST", !.detects = 0, !.reset = TRUE]
       [] kind = "armor" /\ p.state = "DETECTING" ->
            [seen EXCEPT !.detects = @ + 1,
                         !.state = IF p.detects + 1 >= MinDetect THEN "TRACKING" ELSE @]
       [] OTHER -> seen

Kinds(p) == {"none", "start"} \cup IF p.state = "LOST" THEN {} ELSE {"armor", "reset"}

VisionFrame ==
  /\ stage = "running" /\ visionPc = "idle" /\ prediction.seq < MaxFrames
  /\ \E kind \in Kinds(prediction), label \in {"a", "b"}, gap \in FrameGaps :
       /\ label = "b" => kind = "start"
       /\ prediction' = Advance(prediction, kind, label)
       /\ now' = now + gap
  /\ visionPc' = "publish"
  /\ UNCHANGED <<sessionVars, stage, closed, accepting, controlPc, cycles, selection,
                 workerVars, owed>>

\* Publish: the last cycle's selection goes with the frame only while its
\* slot numbers can still mean the same armours.
SelectionFits_AnyState(s, p) ==
  /\ s.valid /\ s.seq <= p.seq /\ p.seq - s.seq <= 2
  /\ s.label = p.label
  /\ p.state # "LOST" /\ s.state # "LOST" /\ ~p.reset
SelectionFits(s, p) ==
  /\ s.valid /\ s.seq <= p.seq /\ p.seq - s.seq <= 2
  /\ s.label = p.label
  /\ p.state # "LOST" /\ s.state # "LOST" /\ ~p.reset
  /\ p.state = "DETECTING" => s.seq = p.seq

LiveDemand(p) == IF Active("live") THEN Demanded \cap TopicsOf(p) ELSE {}

Wanted(p) == accepting[p] /\ (LiveDemand(p) # {} \/ Active("mcap"))

FramesIn(q) == {<<"frame", q.frame[i].seq>> : i \in DOMAIN q.frame}

VisionPublish ==
  /\ visionPc = "publish"
  /\ visionPc' = "idle"
  /\ LET item == [seq |-> prediction.seq, gen |-> prediction.gen,
                  selection |-> IF SelectionFits(selection, prediction) THEN selection
                                ELSE NoSelection]
     IN /\ frames' = IF Wanted("vision") THEN Push(frames, item, now) ELSE frames
        /\ owed' = IF Wanted("vision") /\ Accepts(frames, now)
                   THEN (owed \ FramesIn(frames))
                          \cup IF Active("mcap") THEN {<<"frame", item.seq>>} ELSE {}
                   ELSE owed
  /\ UNCHANGED <<sessionVars, stage, closed, accepting, now, prediction, controlPc,
                 cycles, selection, samples, frameWorker, controlWorker>>

-----------------------------------------------------------------------------
\* Control thread: PublishControl

\* A cycle works on the newest prediction; its choice is stored first.
CycleSelect ==
  /\ stage = "running" /\ controlPc = "idle" /\ cycles < MaxCycles
  /\ prediction.seq # 0
  /\ cycles' = cycles + 1
  /\ selection' = [valid |-> TRUE, seq |-> prediction.seq, gen |-> prediction.gen,
                   label |-> prediction.label, state |-> prediction.state]
  /\ controlPc' = "queue"
  /\ UNCHANGED <<sessionVars, stage, closed, accepting, now, prediction, visionPc, workerVars, owed>>

\* ControlDebugPublisher::Publish needs the queue's lock, which the worker
\* holds while it decides to wait; the notification ends that wait.
Notified(w) == IF w.pc = "blocked" THEN [w EXCEPT !.pc = "check"] ELSE w

CycleQueue ==
  /\ controlPc = "queue"
  /\ controlWorker.pc # "deciding"
  /\ controlPc' = "idle"
  /\ IF Wanted("control")
     THEN LET full == Len(samples) = Capacity
              kept == IF full THEN Tail(samples) ELSE samples
          IN /\ samples' = Append(kept, cycles)
             /\ owed' = (owed \ IF full THEN {<<"cycle", Head(samples)>>} ELSE {})
                          \cup IF Active("mcap") THEN {<<"cycle", cycles>>} ELSE {}
             /\ controlWorker' = Notified(controlWorker)
     ELSE UNCHANGED <<samples, owed, controlWorker>>
  /\ UNCHANGED <<sessionVars, stage, closed, accepting, now, prediction, visionPc,
                 cycles, selection, frames, frameWorker>>

-----------------------------------------------------------------------------
\* Frame worker: WorkerLoop, ProcessFrame

\* WaitPop.
FrameTake ==
  /\ frameWorker.pc = "wait"
  /\ IF frames.frame # <<>>
     THEN /\ frameWorker' = [pc |-> "demand", item |-> frames.frame[1]]
          /\ frames' = Pop(frames)
     ELSE /\ frames.stopped
          /\ frameWorker' = Idle("done")
          /\ UNCHANGED frames
  /\ UNCHANGED <<sessionVars, stage, closed, accepting, threadVars, selection, samples,
                 controlWorker, owed>>

\* The demand is read once; the rest of the frame uses this reading.
FrameDemand ==
  /\ frameWorker.pc = "demand"
  /\ LET live == LiveDemand("vision")
         record == Active("mcap")
         impact == record \/ "impact" \in live
     IN frameWorker' = IF live = {} /\ ~record THEN Idle("wait")
                       ELSE [pc |-> IF impact THEN "impact" ELSE "publish",
                             item |-> frameWorker.item, live |-> live, record |-> record]
  /\ UNCHANGED <<sessionVars, stage, closed, accepting, threadVars, selection, frames, samples,
                 controlWorker, owed>>

\* WaitForImpact ends on the frame's own snapshot, on a newer one, on Stop
\* or after 20 ms; what it found is data of the message.
FrameImpact ==
  /\ frameWorker.pc = "impact"
  /\ frameWorker' = [frameWorker EXCEPT !.pc = "publish"]
  /\ UNCHANGED <<sessionVars, stage, closed, accepting, threadVars, selection, frames, samples,
                 controlWorker, owed>>

\* Encoding may throw: the frame is given up, the worker goes on.
FrameEncodeFails ==
  /\ frameWorker.pc = "publish"
  /\ frameWorker' = Idle("wait")
  /\ owed' = owed \ {<<"frame", frameWorker.item.seq>>}
  /\ UNCHANGED <<sessionVars, stage, closed, accepting, threadVars, selection, frames, samples,
                 controlWorker>>

\* What VisionChannelSet::Publish reports for one output: nothing when it
\* was not tried, a closed sink once the channels are closed.
PublishErrors(p, attempted) ==
  IF ~attempted THEN {"none"} ELSE IF p \in closed THEN {"fatal"} ELSE ErrorKinds

\* Under the session's publish lock: first live, then the recording, each
\* if it is still active; errors count against their own output alone.
Publishing(p, live, record, id) ==
  LET attempted == [s \in Sinks |-> Active(s) /\ IF s = "live" THEN live # {} ELSE record]
  IN \E errors \in [Sinks -> ErrorKinds] :
       /\ \A s \in Sinks : errors[s] \in PublishErrors(p, attempted[s])
       /\ output' = OutputAfter(errors)
       /\ owed' = IF errors["mcap"] = "fatal" THEN {}
                  ELSE IF attempted["mcap"] THEN owed \ {id} ELSE owed

FramePublish ==
  /\ frameWorker.pc = "publish"
  /\ Publishing("vision", frameWorker.live, frameWorker.record, <<"frame", frameWorker.item.seq>>)
  /\ frameWorker' = Idle("wait")
  /\ UNCHANGED <<subscribers, stage, closed, accepting,
                 threadVars, selection, frames, samples, controlWorker>>

-----------------------------------------------------------------------------
\* Control worker: WorkerLoop, Process

\* The predicate of the wait is evaluated under the lock; the worker sleeps
\* in a step of its own, which lets the lock go.
ControlCheck_NoDrain ==
  /\ controlWorker.pc = "check"
  /\ \/ /\ accepting["control"] /\ samples # <<>>
        /\ controlWorker' = [pc |-> "publish", item |-> Head(samples)]
        /\ samples' = Tail(samples)
     \/ /\ ~accepting["control"]
        /\ controlWorker' = Idle("done")
        /\ UNCHANGED samples
     \/ /\ samples = <<>> /\ accepting["control"]
        /\ controlWorker' = Idle("deciding")
        /\ UNCHANGED samples
  /\ UNCHANGED <<sessionVars, stage, closed, accepting, threadVars, selection, frames, frameWorker,
                 owed>>
ControlCheck ==
  /\ controlWorker.pc = "check"
  /\ \/ /\ samples # <<>>
        /\ controlWorker' = [pc |-> "publish", item |-> Head(samples)]
        /\ samples' = Tail(samples)
     \/ /\ samples = <<>> /\ ~accepting["control"]
        /\ controlWorker' = Idle("done")
        /\ UNCHANGED samples
     \/ /\ samples = <<>> /\ accepting["control"]
        /\ controlWorker' = Idle("deciding")
        /\ UNCHANGED samples
  /\ UNCHANGED <<sessionVars, stage, closed, accepting, threadVars, selection, frames, frameWorker,
                 owed>>

ControlBlock ==
  /\ controlWorker.pc = "deciding"
  /\ controlWorker' = Idle("blocked")
  /\ UNCHANGED <<sessionVars, stage, closed, accepting, threadVars, selection, frames, samples,
                 frameWorker, owed>>

\* A condition variable may wake without a notification.
ControlSpuriousWake ==
  /\ controlWorker.pc = "blocked"
  /\ controlWorker' = Idle("check")
  /\ UNCHANGED <<sessionVars, stage, closed, accepting, threadVars, selection, frames, samples,
                 frameWorker, owed>>

ControlEncodeFails ==
  /\ controlWorker.pc = "publish"
  /\ controlWorker' = Idle("check")
  /\ owed' = owed \ {<<"cycle", controlWorker.item>>}
  /\ UNCHANGED <<sessionVars, stage, closed, accepting, threadVars, selection, frames, samples,
                 frameWorker>>

\* The demand is read again for each message.  The scenes go with the first
\* cycle of a source frame that is a period after the last ones.
ControlPublish ==
  /\ controlWorker.pc = "publish"
  /\ \E due \in BOOLEAN :
       LET live == LiveDemand("control") \ IF due THEN {} ELSE {"scene"}
       IN Publishing("control", live, TRUE, <<"cycle", controlWorker.item>>)
  /\ controlWorker' = Idle("check")
  /\ UNCHANGED <<subscribers, stage, closed, accepting,
                 threadVars, selection, frames, samples, frameWorker>>

-----------------------------------------------------------------------------
\* Clients of the live server

ClientSubscribes(c) ==
  /\ Subscribe(c)
  /\ UNCHANGED <<stage, closed, accepting, threadVars, selection, workerVars, owed>>

ClientUnsubscribes(c) ==
  /\ Unsubscribe(c)
  /\ UNCHANGED <<stage, closed, accepting, threadVars, selection, workerVars, owed>>

-----------------------------------------------------------------------------
\* Stop, on the main thread, after the vision and control threads ended

Close(p) == closed' = closed \cup {p}

Joinable(w) == w.pc \in {"none", "done"}

\* Nothing reads any longer what the threads knew.
ThreadsEnd ==
  /\ stage = "running" /\ visionPc = "idle" /\ controlPc = "idle"
  /\ stage' = "stop_control"
  /\ now' = 0 /\ prediction' = NoTrack /\ cycles' = 0 /\ selection' = NoSelection
  /\ UNCHANGED <<sessionVars, closed, accepting, visionPc, controlPc, workerVars, owed>>

\* ControlDebugPublisher::Stop stores the flag and notifies without the lock.
StopControl ==
  /\ stage = "stop_control"
  /\ accepting' = [accepting EXCEPT !["control"] = FALSE]
  /\ stage' = "notify_control"
  /\ UNCHANGED <<sessionVars, closed, threadVars, selection, workerVars, owed>>

NotifyControl ==
  /\ stage = "notify_control"
  /\ controlWorker' = Notified(controlWorker)
  /\ stage' = "join_control"
  /\ UNCHANGED <<sessionVars, closed, accepting, threadVars, selection, frames, samples,
                 frameWorker, owed>>

JoinControl ==
  /\ stage = "join_control" /\ Joinable(controlWorker)
  /\ Close("control")
  /\ stage' = "stop_vision"
  /\ UNCHANGED <<sessionVars, accepting, threadVars, selection, workerVars, owed>>

\* VisionDebugPipeline::Stop takes the lock of the impacts, then that of the
\* queue.
StopVision ==
  /\ stage = "stop_vision"
  /\ accepting' = [accepting EXCEPT !["vision"] = FALSE]
  /\ stage' = "stop_frames"
  /\ UNCHANGED <<sessionVars, closed, threadVars, selection, workerVars, owed>>

StopFrames ==
  /\ stage = "stop_frames"
  /\ frames' = StopQueue(frames)
  /\ stage' = "join_vision"
  /\ UNCHANGED <<sessionVars, closed, accepting, threadVars, selection, samples, frameWorker,
                 controlWorker, owed>>

JoinVision ==
  /\ stage = "join_vision" /\ Joinable(frameWorker)
  /\ Close("vision")
  /\ stage' = "stop_session"
  /\ UNCHANGED <<sessionVars, accepting, threadVars, selection, workerVars, owed>>

SessionStop ==
  /\ stage = "stop_session"
  /\ StopSession
  /\ stage' = "stopped"
  /\ UNCHANGED <<closed, accepting, threadVars, selection, workerVars, owed>>

-----------------------------------------------------------------------------
FrameWorker == FrameTake \/ FrameDemand \/ FrameImpact \/ FramePublish
ControlWorker == ControlCheck \/ ControlBlock \/ ControlPublish
Stopping == StopControl \/ NotifyControl \/ JoinControl \/ StopVision \/ StopFrames \/ JoinVision
            \/ SessionStop

Next ==
  \/ VisionChannels \/ ControlChannels \/ SessionStart \/ WorkersStart
  \/ VisionFrame \/ VisionPublish
  \/ CycleSelect \/ CycleQueue
  \/ FrameWorker \/ FrameEncodeFails
  \/ ControlWorker \/ ControlSpuriousWake \/ ControlEncodeFails
  \/ \E c \in Topics : ClientSubscribes(c) \/ ClientUnsubscribes(c)
  \/ ThreadsEnd \/ Stopping

Spec == Init /\ [][Next]_vars

\* Threads that can go on do; nothing makes a client, a failure or a
\* spurious wake-up happen.
FairSpec == Spec /\ WF_vars(FrameWorker) /\ WF_vars(ControlWorker) /\ WF_vars(Stopping)

-----------------------------------------------------------------------------
\* When Stop has returned, all that was queued for the recording while it
\* was sound is in it, whatever happened to the live output: the workers
\* drained their queues before their channels and the file were closed.
OwedIsTaped == stage = "stopped" => owed = {}

\* The armour that a frame shows as selected was selected on the same track:
\* slot numbers mean nothing across a reset, even under the same label.
SelectionOfSameTrack ==
  \A i \in DOMAIN frames.frame :
    LET f == frames.frame[i] IN f.selection.valid => f.selection.gen = f.gen

\* Stop comes to an end (control_debug_publisher.hpp: it waits for the
\* worker to leave and closes the channels).
StopReturns == (stage = "stop_control") ~> (stage = "stopped")
=============================================================================
