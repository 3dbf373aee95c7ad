----------------------- MODULE VisionDebugPublisherProofs -----------------------
(***************************************************************************)
(* Theorems about VisionDebugPublisher for every number of channels,       *)
(* subscribers, frames and cycles and every capacity of the control queue: *)
(* what was queued for a sound recording is written before it is closed,   *)
(* and a frame shows the armour selected on its own track.                 *)
(***************************************************************************)
EXTENDS VisionDebugPublisher, TLAPS

-----------------------------------------------------------------------------
(* The types. *)

Labels == {"a", "b"}
States == {"LOST", "DETECTING", "TRACKING"}

Predictions ==
  [seq : Nat, gen : Nat, label : Labels, state : States, detects : Nat, reset : BOOLEAN]

Selections ==
  {NoSelection} \cup [valid : {TRUE}, seq : Nat, gen : Nat, label : Labels, state : States]

Items == [seq : Nat, gen : Nat, selection : Selections]

\* At most one frame waits.
Queues == [frame : {<<>>} \cup {<<f>> : f \in Items}, next : Nat, stopped : BOOLEAN]

FrameWorkers ==
  {Idle(pc) : pc \in {"none", "wait", "done"}}
    \cup [pc : {"demand"}, item : Items]
    \cup [pc : {"impact", "publish"}, item : Items, live : SUBSET Topics, record : BOOLEAN]

ControlWorkers ==
  {Idle(pc) : pc \in {"none", "check", "deciding", "blocked", "done"}}
    \cup [pc : {"publish"}, item : Nat]

Starting == {"vision_channels", "control_channels", "session", "workers"}
ControlJoined == {"stop_vision", "stop_frames", "join_vision", "stop_session", "stopped"}
VisionJoined == {"stop_session", "stopped"}
Stages == Starting \cup {"running", "stop_control", "notify_control", "join_control"}
            \cup ControlJoined

SessionType ==
  /\ output \in [Sinks -> {"off", "configured", "active"}]
  /\ subscribers \in [Topics -> Nat]
  /\ stage \in Stages /\ closed \subseteq Publishers
  /\ accepting \in [Publishers -> BOOLEAN]

ThreadType ==
  /\ now \in Nat /\ cycles \in Nat
  /\ prediction \in Predictions /\ selection \in Selections
  /\ visionPc \in {"idle", "publish"} /\ controlPc \in {"idle", "queue"}

WorkerType ==
  /\ frames \in Queues
  /\ samples \in Seq(Nat)
  /\ frameWorker \in FrameWorkers /\ controlWorker \in ControlWorkers

TypeInv == SessionType /\ ThreadType /\ WorkerType

-----------------------------------------------------------------------------
(* The inductive invariant. *)

\* What runs at which stage: the threads only hand over while the program runs, a
\* worker that ended left nothing in its queue, and none runs past its join.
StageInv ==
  /\ stage # "running" => visionPc = "idle" /\ controlPc = "idle"
  /\ stage \in Starting => frameWorker.pc = "none" /\ controlWorker.pc = "none" /\ owed = {}
  /\ stage \in ControlJoined => Joinable(controlWorker)
  /\ stage \in VisionJoined => Joinable(frameWorker)

ControlInv ==
  /\ controlWorker.pc = "none" => ~accepting["control"]
  /\ stage = "running" /\ controlWorker.pc # "none" => accepting["control"]
  /\ controlWorker.pc = "done" => ~accepting["control"]
  /\ Joinable(controlWorker) => samples = <<>>

VisionInv ==
  /\ frameWorker.pc = "none" => ~accepting["vision"]
  /\ frameWorker.pc = "done" => frames.stopped
  /\ frames.stopped => stage \in {"join_vision"} \cup VisionJoined
  /\ Joinable(frameWorker) => frames.frame = <<>>

\* Whatever is owed to the recording is in a queue or in the hands of a worker that
\* will record it, and nothing is owed to a recording that has ended.
FrameInHand ==
  IF frameWorker.pc \in {"demand", "impact", "publish"}
  THEN {<<"frame", frameWorker.item.seq>>} ELSE {}

CycleInHand ==
  IF controlWorker.pc = "publish" THEN {<<"cycle", controlWorker.item>>} ELSE {}

CyclesIn(q) == {<<"cycle", q[i]>> : i \in DOMAIN q}

OwedInv ==
  /\ owed \subseteq FramesIn(frames) \cup FrameInHand \cup CyclesIn(samples) \cup CycleInHand
  /\ owed # {} => Active("mcap")
  /\ frameWorker.pc \in {"impact", "publish"} /\ ~frameWorker.record => ~Active("mcap")

\* A choice on an earlier track is older than every armour of the track that runs.
SelectionInv ==
  /\ prediction.state = "TRACKING" => prediction.detects >= MinDetect
  /\ prediction.state = "DETECTING" => prediction.detects >= 1
  /\ selection.valid =>
       /\ selection.gen <= prediction.gen /\ selection.seq <= prediction.seq
       /\ selection.gen < prediction.gen =>
            selection.seq + prediction.detects <= prediction.seq

\* Where everyone is; OwedInv rests on it.
Placed == StageInv /\ ControlInv /\ VisionInv

-----------------------------------------------------------------------------
(* The operators. *)

LEMMA IdleFacts ==
  /\ \A pc \in {"none", "wait", "done"} :
       Idle(pc) \in FrameWorkers /\ Idle(pc).pc = pc
  /\ \A pc \in {"none", "check", "deciding", "blocked", "done"} :
       Idle(pc) \in ControlWorkers /\ Idle(pc).pc = pc
<1> QED BY DEF Idle, FrameWorkers, ControlWorkers

\* What a worker's place says of what it holds.
LEMMA FrameWorkerFacts ==
  ASSUME NEW w \in FrameWorkers
  PROVE  /\ w.pc \in {"none", "wait", "done", "demand", "impact", "publish"}
         /\ w.pc \in {"demand", "impact", "publish"} => w.item \in Items
         /\ w.pc \in {"impact", "publish"} =>
              /\ w \in [pc : {"impact", "publish"}, item : Items,
                         live : SUBSET Topics, record : BOOLEAN]
              /\ w.live \subseteq Topics /\ w.record \in BOOLEAN
<1> QED BY DEF FrameWorkers, Idle

LEMMA ControlWorkerFacts ==
  ASSUME NEW w \in ControlWorkers
  PROVE  /\ w.pc \in {"none", "check", "deciding", "blocked", "done", "publish"}
         /\ w.pc = "publish" => w.item \in Nat
         /\ w.pc = "blocked" => w = Idle("blocked")
<1> QED BY DEF ControlWorkers, Idle

LEMMA NotifiedFacts ==
  ASSUME NEW w \in ControlWorkers
  PROVE  /\ Notified(w) \in ControlWorkers
         /\ \/ Notified(w) = w
            \/ w.pc = "blocked" /\ Notified(w) = Idle("check")
<1>1. CASE w.pc = "blocked"
  <2>1. Notified(w) = Idle("check")
    BY <1>1, ControlWorkerFacts DEF Notified, Idle
  <2> QED BY <1>1, <2>1, IdleFacts
<1>2. CASE w.pc # "blocked"
  <2>1. Notified(w) = w
    BY <1>2 DEF Notified
  <2> QED BY <2>1
<1> QED BY <1>1, <1>2

\* A push replaces the frame that waits or changes nothing.
LEMMA PushFacts ==
  ASSUME NEW q \in Queues, NEW item \in Items, NEW t \in Nat
  PROVE  /\ Push(q, item, t) \in Queues /\ Push(q, item, t).stopped = q.stopped
         /\ Accepts(q, t) => Push(q, item, t).frame = <<item>>
         /\ ~Accepts(q, t) => Push(q, item, t) = q
<1>1. Period \in Nat
  BY PublisherAssumption
<1>2. NextDue(q, t) \in Nat
  BY <1>1 DEF NextDue, Queues
<1> DEFINE n == NextDue(q, t)
           f == <<item>>
<1>3. f \in {<<i>> : i \in Items}
  OBVIOUS
<1> HIDE DEF n, f
<1>4. [q EXCEPT !.frame = f, !.next = n] \in Queues
  BY <1>2, <1>3 DEF Queues, n
<1>5. /\ [q EXCEPT !.frame = f, !.next = n].frame = f
      /\ [q EXCEPT !.frame = f, !.next = n].stopped = q.stopped
  BY DEF Queues
<1>6. Accepts(q, t) => Push(q, item, t) = [q EXCEPT !.frame = f, !.next = n]
  BY DEF Push, n, f
<1>7. ~Accepts(q, t) => Push(q, item, t) = q
  BY DEF Push
<1> QED BY <1>4, <1>5, <1>6, <1>7 DEF f

LEMMA PopFacts ==
  ASSUME NEW q \in Queues
  PROVE  /\ Pop(q) \in Queues /\ Pop(q).frame = <<>> /\ Pop(q).stopped = q.stopped
         /\ StopQueue(q) \in Queues /\ StopQueue(q).frame = q.frame /\ StopQueue(q).stopped
         /\ q.frame # <<>> => q.frame[1] \in Items /\ q.frame = <<q.frame[1]>>
<1>1. Pop(q) \in Queues /\ Pop(q).frame = <<>> /\ Pop(q).stopped = q.stopped
  BY DEF Pop, Queues
<1>2. StopQueue(q) \in Queues /\ StopQueue(q).frame = q.frame /\ StopQueue(q).stopped
  BY DEF StopQueue, Queues
<1>3. q.frame # <<>> => q.frame[1] \in Items /\ q.frame = <<q.frame[1]>>
  <2> SUFFICES ASSUME q.frame # <<>>
               PROVE  q.frame[1] \in Items /\ q.frame = <<q.frame[1]>>
    OBVIOUS
  <2>1. PICK f \in Items : q.frame = <<f>>
    BY DEF Queues
  <2> QED BY <2>1
<1> QED BY <1>1, <1>2, <1>3

LEMMA AdvanceFacts ==
  ASSUME NEW p \in Predictions, NEW kind \in Kinds(p), NEW label \in Labels
  PROVE  LET n == Advance(p, kind, label)
         IN /\ n \in Predictions /\ n.seq = p.seq + 1
            /\ \/ n.gen = p.gen + 1 /\ n.detects = 1 /\ n.state = "DETECTING"
               \/ n.gen = p.gen /\ n.state = "LOST" /\ n.detects = 0
               \/ /\ n.gen = p.gen /\ p.state = "DETECTING" /\ n.detects = p.detects + 1
                  /\ n.state = IF p.detects + 1 >= MinDetect THEN "TRACKING" ELSE "DETECTING"
               \/ n.gen = p.gen /\ n.state = p.state /\ n.detects = p.detects
<1> DEFINE seen == [p EXCEPT !.seq = @ + 1]
           n == Advance(p, kind, label)
<1>1. /\ seen \in Predictions /\ seen.seq = p.seq + 1 /\ seen.gen = p.gen
      /\ seen.state = p.state /\ seen.detects = p.detects
  BY DEF Predictions
<1>2. n = CASE kind = "start" ->
                 [seen EXCEPT !.gen = @ + 1, !.label = label, !.detects = 1,
                              !.state = "DETECTING", !.reset = FALSE]
            [] kind = "reset" -> [seen EXCEPT !.state = "LOST", !.detects = 0, !.reset = TRUE]
            [] kind = "armor" /\ p.state = "DETECTING" ->
                 [seen EXCEPT !.detects = @ + 1,
                              !.state = IF p.detects + 1 >= MinDetect THEN "TRACKING" ELSE @]
            [] OTHER -> seen
  BY DEF Advance
<1> HIDE DEF seen, n
<1>3. CASE kind = "start"
  <2> DEFINE g == seen.gen + 1
  <2>1. g \in Nat /\ g = p.gen + 1
    BY <1>1 DEF Predictions
  <2>2. n = [seen EXCEPT !.gen = g, !.label = label, !.detects = 1,
                         !.state = "DETECTING", !.reset = FALSE]
    BY <1>1, <1>2, <1>3 DEF Predictions
  <2> HIDE DEF g
  <2>3. n \in Predictions
    BY <1>1, <2>1, <2>2 DEF Predictions, States
  <2>4. n.seq = seen.seq /\ n.gen = g /\ n.detects = 1 /\ n.state = "DETECTING"
    BY <1>1, <2>2 DEF Predictions
  <2> QED BY <1>1, <2>1, <2>3, <2>4 DEF n
<1>4. CASE kind = "reset"
  <2>1. n = [seen EXCEPT !.state = "LOST", !.detects = 0, !.reset = TRUE]
    BY <1>2, <1>4
  <2>2. n \in Predictions /\ n.seq = seen.seq /\ n.gen = seen.gen
        /\ n.state = "LOST" /\ n.detects = 0
    BY <1>1, <2>1 DEF Predictions, States
  <2> QED BY <1>1, <2>2 DEF n
<1>5. CASE kind = "armor" /\ p.state = "DETECTING"
  <2> DEFINE d == seen.detects + 1
             st == IF p.detects + 1 >= MinDetect THEN "TRACKING" ELSE "DETECTING"
  <2>1. d \in Nat /\ d = p.detects + 1 /\ st \in States
    BY <1>1 DEF Predictions, States
  <2>2. n = [seen EXCEPT !.detects = d, !.state = st]
    BY <1>1, <1>2, <1>5 DEF Predictions
  <2>3. st = IF p.detects + 1 >= MinDetect THEN "TRACKING" ELSE "DETECTING"
    OBVIOUS
  <2> HIDE DEF d, st
  <2>4. n \in Predictions /\ n.seq = seen.seq /\ n.gen = seen.gen
        /\ n.detects = d /\ n.state = st
    BY <1>1, <2>1, <2>2 DEF Predictions
  <2> QED BY <1>1, <1>5, <2>1, <2>3, <2>4 DEF n
<1>6. CASE kind \notin {"start", "reset"} /\ ~(kind = "armor" /\ p.state = "DETECTING")
  <2>1. n = seen
    BY <1>2, <1>6
  <2> QED BY <1>1, <2>1 DEF n
<1> QED BY <1>3, <1>4, <1>5, <1>6

-----------------------------------------------------------------------------
(* Type correctness. *)

LEMMA InitType == Init => TypeInv
<1> SUFFICES ASSUME Init PROVE TypeInv
  OBVIOUS
<1>1. /\ {"configured", "off"} \subseteq {"off", "configured", "active"}
      /\ output \in [Sinks -> {"off", "configured", "active"}]
  BY DEF Init, SessionInit
<1>2. SessionType
  BY <1>1 DEF SessionType, Init, SessionInit, Stages, Starting
<1>3. NoTrack \in Predictions
  BY DEF NoTrack, Predictions, Labels, States
<1>4. ThreadType
  BY <1>3 DEF ThreadType, Init, Selections
<1>5. EmptyQueue \in Queues
  BY DEF EmptyQueue, Queues
<1>6. WorkerType
  BY <1>5, IdleFacts DEF WorkerType, Init
<1> QED BY <1>2, <1>4, <1>6 DEF TypeInv

\* Construction, start and the clients touch the session and, when the publishers
\* start, the workers.
LEMMA SessionStepsType ==
  ASSUME TypeInv,
         \/ VisionChannels \/ ControlChannels \/ SessionStart \/ WorkersStart
         \/ \E c \in Topics : ClientSubscribes(c) \/ ClientUnsubscribes(c)
  PROVE  TypeInv'
<1>1. ThreadType'
  BY DEF TypeInv, ThreadType, VisionChannels, ControlChannels, CreateChannels, SessionStart,
         WorkersStart, ClientSubscribes, ClientUnsubscribes, threadVars
<1>2. CASE VisionChannels \/ ControlChannels
  <2>1. stage' \in Stages
    BY <1>2 DEF VisionChannels, ControlChannels, Stages, Starting
  <2>2. PICK failed \in SUBSET Configured : FailSetup(failed)
    BY <1>2 DEF VisionChannels, ControlChannels, CreateChannels
  <2>3. output' \in [Sinks -> {"off", "configured", "active"}]
    BY <2>2 DEF FailSetup, TypeInv, SessionType
  <2>4. UNCHANGED <<subscribers, closed, accepting>> /\ UNCHANGED workerVars
    BY <1>2 DEF VisionChannels, ControlChannels, CreateChannels
  <2>5. WorkerType'
    BY <2>4 DEF TypeInv, WorkerType, workerVars
  <2> QED BY <1>1, <2>1, <2>3, <2>4, <2>5 DEF TypeInv, SessionType
<1>3. CASE SessionStart
  <2>1. stage' \in Stages
    BY <1>3 DEF SessionStart, Stages, Starting
  <2>2. output' \in [Sinks -> {"off", "configured", "active"}] /\ subscribers' = subscribers
    BY <1>3 DEF SessionStart, StartSinks
  <2>3. UNCHANGED <<closed, accepting>> /\ UNCHANGED workerVars
    BY <1>3 DEF SessionStart
  <2>4. WorkerType'
    BY <2>3 DEF TypeInv, WorkerType, workerVars
  <2> QED BY <1>1, <2>1, <2>2, <2>3, <2>4 DEF TypeInv, SessionType
<1>4. CASE WorkersStart
  <2>1. stage' \in Stages
    BY <1>4 DEF WorkersStart, Stages, Starting
  <2>2. PICK started : /\ accepting' = [p \in Publishers |-> p \in started]
                      /\ frameWorker' = Idle(IF "vision" \in started THEN "wait" ELSE "none")
                      /\ controlWorker' = Idle(IF "control" \in started THEN "check" ELSE "none")
    BY <1>4 DEF WorkersStart
  <2>3. accepting' \in [Publishers -> BOOLEAN]
    BY <2>2
  <2>4. frameWorker' \in FrameWorkers /\ controlWorker' \in ControlWorkers
    BY <2>2, IdleFacts
  <2>5. UNCHANGED <<output, subscribers, closed, frames, samples>>
    BY <1>4 DEF WorkersStart, sessionVars
  <2> QED BY <1>1, <2>1, <2>3, <2>4, <2>5 DEF TypeInv, SessionType, WorkerType
<1>5. ASSUME NEW c \in Topics, ClientSubscribes(c) \/ ClientUnsubscribes(c)
      PROVE  TypeInv'
  <2>1. subscribers' \in [Topics -> Nat]
    BY <1>5 DEF TypeInv, SessionType, ClientSubscribes, ClientUnsubscribes, Subscribe, Unsubscribe
  <2>2. UNCHANGED <<output, stage, closed, accepting>> /\ UNCHANGED workerVars
    BY <1>5 DEF ClientSubscribes, ClientUnsubscribes, Subscribe, Unsubscribe
  <2>3. WorkerType'
    BY <2>2 DEF TypeInv, WorkerType, workerVars
  <2> QED BY <1>1, <2>1, <2>2, <2>3 DEF TypeInv, SessionType
<1> QED BY <1>2, <1>3, <1>4, <1>5

LEMMA ThreadStepsType ==
  ASSUME TypeInv, VisionFrame \/ VisionPublish \/ CycleSelect \/ CycleQueue \/ ThreadsEnd
  PROVE  TypeInv'
<1>1. CASE VisionFrame
  <2>1. PICK kind \in Kinds(prediction), label \in Labels, gap \in FrameGaps :
          prediction' = Advance(prediction, kind, label) /\ now' = now + gap
    BY <1>1 DEF VisionFrame, Labels
  <2>2. prediction' \in Predictions
    BY <2>1, AdvanceFacts DEF TypeInv, ThreadType
  <2>3. now' \in Nat
    BY <2>1, PublisherAssumption DEF TypeInv, ThreadType
  <2>4. /\ visionPc' = "publish"
        /\ UNCHANGED <<output, subscribers, stage, closed, accepting, controlPc, cycles,
                      selection, frames, samples, frameWorker, controlWorker>>
    BY <1>1 DEF VisionFrame, sessionVars, workerVars
  <2> QED BY <2>2, <2>3, <2>4 DEF TypeInv, SessionType, ThreadType, WorkerType
<1>2. CASE VisionPublish
  <2> DEFINE s == IF SelectionFits(selection, prediction) THEN selection ELSE NoSelection
             item == [seq |-> prediction.seq, gen |-> prediction.gen, selection |-> s]
  <2>1. s \in Selections
    BY DEF TypeInv, ThreadType, Selections
  <2> HIDE DEF s
  <2>2. item \in Items
    BY <2>1 DEF TypeInv, ThreadType, Predictions, Items
  <2> HIDE DEF item
  <2>3. frames' = Push(frames, item, now) \/ frames' = frames
    BY <1>2 DEF VisionPublish, item, s
  <2>4. frames' \in Queues
    BY <2>2, <2>3, PushFacts DEF TypeInv, ThreadType, WorkerType
  <2>5. /\ visionPc' = "idle"
        /\ UNCHANGED <<output, subscribers, stage, closed, accepting, now, prediction,
                      controlPc, cycles, selection, samples, frameWorker, controlWorker>>
    BY <1>2 DEF VisionPublish, sessionVars
  <2> QED BY <2>4, <2>5 DEF TypeInv, SessionType, ThreadType, WorkerType
<1>3. CASE CycleSelect
  <2>1. selection' \in Selections
    BY <1>3 DEF CycleSelect, TypeInv, ThreadType, Predictions, Selections
  <2>2. /\ controlPc' = "queue" /\ cycles' = cycles + 1
        /\ UNCHANGED <<output, subscribers, stage, closed, accepting, now, prediction, visionPc,
                      frames, samples, frameWorker, controlWorker>>
    BY <1>3 DEF CycleSelect, sessionVars, workerVars
  <2> QED BY <2>1, <2>2 DEF TypeInv, SessionType, ThreadType, WorkerType
<1>4. CASE CycleQueue
  <2>1. \/ samples' = samples /\ controlWorker' = controlWorker
        \/ /\ controlWorker' = Notified(controlWorker)
           /\ \/ samples' = Append(samples, cycles)
              \/ /\ samples' = Append(Tail(samples), cycles)
                 /\ Len(samples) = Capacity
    BY <1>4 DEF CycleQueue
  <2>2. Len(samples) = Capacity => Tail(samples) \in Seq(Nat)
    BY PublisherAssumption DEF TypeInv, WorkerType
  <2>3. samples' \in Seq(Nat)
    <3>1. samples \in Seq(Nat) /\ cycles \in Nat
      BY DEF TypeInv, ThreadType, WorkerType
    <3>2. \A q \in Seq(Nat), n \in Nat : Append(q, n) \in Seq(Nat)
      OBVIOUS
    <3> QED BY <2>1, <2>2, <3>1, <3>2
  <2>4. controlWorker' \in ControlWorkers
    BY <2>1, NotifiedFacts DEF TypeInv, WorkerType
  <2>5. /\ controlPc' = "idle"
        /\ UNCHANGED <<output, subscribers, stage, closed, accepting, now, prediction, visionPc,
                      cycles, selection, frames, frameWorker>>
    BY <1>4 DEF CycleQueue, sessionVars
  <2> QED BY <2>3, <2>4, <2>5 DEF TypeInv, SessionType, ThreadType, WorkerType
<1>5. CASE ThreadsEnd
  <2>1. NoTrack \in Predictions /\ NoSelection \in Selections
    BY DEF NoTrack, Predictions, Labels, States, Selections
  <2>2. stage' \in Stages
    BY <1>5 DEF ThreadsEnd, Stages
  <2>3. /\ now' = 0 /\ prediction' = NoTrack /\ cycles' = 0 /\ selection' = NoSelection
        /\ UNCHANGED <<output, subscribers, closed, accepting, visionPc, controlPc,
                      frames, samples, frameWorker, controlWorker>>
    BY <1>5 DEF ThreadsEnd, sessionVars, workerVars
  <2> QED BY <2>1, <2>2, <2>3 DEF TypeInv, SessionType, ThreadType, WorkerType
<1> QED BY <1>1, <1>2, <1>3, <1>4, <1>5

LEMMA FrameWorkerType ==
  ASSUME TypeInv, FrameWorker \/ FrameEncodeFails
  PROVE  TypeInv'
<1>1. frames \in Queues /\ frameWorker \in FrameWorkers
  BY DEF TypeInv, WorkerType
<1>2. /\ UNCHANGED <<stage, closed, accepting, subscribers, now, prediction, visionPc, controlPc,
                    cycles, selection, samples, controlWorker>>
      /\ output' = output \/ FramePublish
  BY DEF FrameWorker, FrameTake, FrameDemand, FrameImpact, FramePublish, FrameEncodeFails,
         sessionVars, threadVars
<1>3. output' \in [Sinks -> {"off", "configured", "active"}]
  <2>1. CASE FramePublish
    <3>1. PICK errors : output' = OutputAfter(errors)
      BY <2>1 DEF FramePublish, Publishing
    <3> QED BY <3>1 DEF OutputAfter, TypeInv, SessionType
  <2> QED BY <1>2, <2>1 DEF TypeInv, SessionType
<1>4. frames' \in Queues /\ frameWorker' \in FrameWorkers
  <2>1. CASE FrameTake
    <3>1. CASE frames.frame # <<>>
      <4>1. /\ frameWorker' = [pc |-> "demand", item |-> frames.frame[1]]
            /\ frames' = Pop(frames)
        BY <2>1, <3>1 DEF FrameTake
      <4>2. frames.frame[1] \in Items
        BY <1>1, <3>1, PopFacts
      <4> QED BY <1>1, <4>1, <4>2, PopFacts DEF FrameWorkers
    <3>2. CASE frames.frame = <<>>
      BY <1>1, <2>1, <3>2, IdleFacts DEF FrameTake
    <3> QED BY <3>1, <3>2
  <2>2. CASE FrameDemand
    <3> DEFINE live == LiveDemand("vision")
               record == Active("mcap")
    <3>1. live \subseteq Topics
      BY DEF LiveDemand, Demanded
    <3>2. record \in BOOLEAN
      BY DEF Active
    <3>3. frameWorker.item \in Items
      BY <1>1, <2>2, FrameWorkerFacts DEF FrameDemand
    <3>4. /\ frames' = frames
          /\ \/ frameWorker' = Idle("wait")
             \/ \E pc \in {"impact", "publish"} :
                  frameWorker' = [pc |-> pc, item |-> frameWorker.item,
                                  live |-> live, record |-> record]
      BY <2>2 DEF FrameDemand
    <3> HIDE DEF live, record
    <3>5. CASE frameWorker' = Idle("wait")
      BY <1>1, <3>4, <3>5, IdleFacts
    <3>6. ASSUME NEW pc \in {"impact", "publish"},
                 frameWorker' = [pc |-> pc, item |-> frameWorker.item,
                                 live |-> live, record |-> record]
          PROVE  frameWorker' \in FrameWorkers
      BY <3>1, <3>2, <3>3, <3>6 DEF FrameWorkers
    <3> QED BY <1>1, <3>4, <3>5, <3>6
  <2>3. CASE FrameImpact
    <3>1. frames' = frames /\ frameWorker' = [frameWorker EXCEPT !.pc = "publish"]
          /\ frameWorker.pc = "impact"
      BY <2>3 DEF FrameImpact
    <3>2. frameWorker \in [pc : {"impact", "publish"}, item : Items,
                           live : SUBSET Topics, record : BOOLEAN]
      BY <1>1, <3>1, FrameWorkerFacts
    <3>3. frameWorker' \in [pc : {"impact", "publish"}, item : Items,
                            live : SUBSET Topics, record : BOOLEAN]
      BY <3>1, <3>2
    <3> QED BY <1>1, <3>1, <3>3 DEF FrameWorkers
  <2>4. CASE FramePublish \/ FrameEncodeFails
    BY <1>1, <2>4, IdleFacts DEF FramePublish, FrameEncodeFails
  <2> QED BY <2>1, <2>2, <2>3, <2>4 DEF FrameWorker
<1> QED BY <1>2, <1>3, <1>4 DEF TypeInv, SessionType, ThreadType, WorkerType

LEMMA ControlWorkerType ==
  ASSUME TypeInv, ControlWorker \/ ControlSpuriousWake \/ ControlEncodeFails
  PROVE  TypeInv'
<1>1. /\ UNCHANGED <<stage, closed, accepting, subscribers, now, prediction, visionPc, controlPc,
                    cycles, selection, frames, frameWorker>>
      /\ output' = output \/ ControlPublish
  BY DEF ControlWorker, ControlCheck, ControlBlock, ControlPublish, ControlSpuriousWake,
         ControlEncodeFails, sessionVars, threadVars
<1>2. output' \in [Sinks -> {"off", "configured", "active"}]
  <2>1. CASE ControlPublish
    <3>1. PICK errors : output' = OutputAfter(errors)
      BY <2>1 DEF ControlPublish, Publishing
    <3> QED BY <3>1 DEF OutputAfter, TypeInv, SessionType
  <2> QED BY <1>1, <2>1 DEF TypeInv, SessionType
<1>3. samples' \in Seq(Nat) /\ controlWorker' \in ControlWorkers
  <2>1. CASE samples # <<>> /\ controlWorker' = [pc |-> "publish", item |-> Head(samples)]
             /\ samples' = Tail(samples)
    BY <2>1 DEF ControlWorkers, TypeInv, WorkerType
  <2>2. CASE /\ samples' = samples
             /\ \E pc \in {"check", "deciding", "blocked", "done"} : controlWorker' = Idle(pc)
    BY <2>2, IdleFacts DEF TypeInv, WorkerType
  <2>3. \/ samples # <<>> /\ controlWorker' = [pc |-> "publish", item |-> Head(samples)]
           /\ samples' = Tail(samples)
        \/ /\ samples' = samples
           /\ \E pc \in {"check", "deciding", "blocked", "done"} : controlWorker' = Idle(pc)
    BY DEF ControlWorker, ControlCheck, ControlBlock, ControlPublish, ControlSpuriousWake,
           ControlEncodeFails
  <2> QED BY <2>1, <2>2, <2>3
<1> QED BY <1>1, <1>2, <1>3 DEF TypeInv, SessionType, ThreadType, WorkerType

LEMMA StoppingType ==
  ASSUME TypeInv, Stopping
  PROVE  TypeInv'
<1>1. UNCHANGED <<subscribers, now, prediction, visionPc, controlPc, cycles, selection, samples,
                  frameWorker>>
  BY DEF Stopping, StopControl, NotifyControl, JoinControl, StopVision, StopFrames, JoinVision,
         SessionStop, StopSession, sessionVars, threadVars, workerVars
<1>2. stage' \in Stages
  BY DEF Stopping, StopControl, NotifyControl, JoinControl, StopVision, StopFrames, JoinVision,
         SessionStop, Stages, ControlJoined
<1>3. output' \in [Sinks -> {"off", "configured", "active"}]
  <2>1. CASE SessionStop
    BY <2>1 DEF SessionStop, StopSession
  <2>2. CASE output' = output
    BY <2>2 DEF TypeInv, SessionType
  <2> QED BY <2>1, <2>2 DEF Stopping, StopControl, NotifyControl, JoinControl, StopVision,
                            StopFrames, JoinVision, sessionVars
<1>4. closed' \subseteq Publishers /\ accepting' \in [Publishers -> BOOLEAN]
  BY DEF Stopping, StopControl, NotifyControl, JoinControl, StopVision, StopFrames, JoinVision,
         SessionStop, Close, Publishers, TypeInv, SessionType
<1>5. frames' \in Queues
  <2>1. frames' = frames \/ frames' = StopQueue(frames)
    BY DEF Stopping, StopControl, NotifyControl, JoinControl, StopVision, StopFrames, JoinVision,
           SessionStop, workerVars
  <2> QED BY <2>1, PopFacts DEF TypeInv, WorkerType
<1>6. controlWorker' \in ControlWorkers
  <2>1. controlWorker' = controlWorker \/ controlWorker' = Notified(controlWorker)
    BY DEF Stopping, StopControl, NotifyControl, JoinControl, StopVision, StopFrames, JoinVision,
           SessionStop, workerVars
  <2> QED BY <2>1, NotifiedFacts DEF TypeInv, WorkerType
<1> QED BY <1>1, <1>2, <1>3, <1>4, <1>5, <1>6 DEF TypeInv, SessionType, ThreadType, WorkerType

\* Whatever the threads, the workers, the clients and the outputs do, the state stays
\* well typed.
THEOREM TypeCorrect == Spec => []TypeInv
<1>1. TypeInv /\ [Next]_vars => TypeInv'
  <2> SUFFICES ASSUME TypeInv, [Next]_vars PROVE TypeInv'
    OBVIOUS
  <2>1. CASE UNCHANGED vars
    BY <2>1 DEF vars, TypeInv, SessionType, ThreadType, WorkerType
  <2>2. CASE \/ VisionChannels \/ ControlChannels \/ SessionStart \/ WorkersStart
             \/ \E c \in Topics : ClientSubscribes(c) \/ ClientUnsubscribes(c)
    BY <2>2, SessionStepsType
  <2>3. CASE VisionFrame \/ VisionPublish \/ CycleSelect \/ CycleQueue \/ ThreadsEnd
    BY <2>3, ThreadStepsType
  <2>4. CASE FrameWorker \/ FrameEncodeFails
    BY <2>4, FrameWorkerType
  <2>5. CASE ControlWorker \/ ControlSpuriousWake \/ ControlEncodeFails
    BY <2>5, ControlWorkerType
  <2>6. CASE Stopping
    BY <2>6, StoppingType
  <2> QED BY <2>1, <2>2, <2>3, <2>4, <2>5, <2>6 DEF Next
<1> QED BY <1>1, InitType, PTL DEF Spec

-----------------------------------------------------------------------------
(* The selection a frame shows. *)

LEMMA SelectionFacts ==
  ASSUME NEW s \in Selections, s.valid
  PROVE  s.seq \in Nat /\ s.gen \in Nat
<1>1. CASE s = NoSelection
  <2>1. s.valid = FALSE
    BY <1>1 DEF NoSelection
  <2> QED BY <2>1
<1>2. CASE s # NoSelection
  BY <1>2 DEF Selections
<1> QED BY <1>1, <1>2

LEMMA NextSelection ==
  ASSUME TypeInv, SelectionInv, [Next]_vars
  PROVE  SelectionInv'
<1>1. CASE VisionFrame
  <2>1. PICK kind \in Kinds(prediction), label \in Labels :
          prediction' = Advance(prediction, kind, label)
    BY <1>1 DEF VisionFrame, Labels
  <2>2. selection' = selection
    BY <1>1 DEF VisionFrame
  <2> DEFINE p == prediction
             n == prediction'
  <2>3. /\ p \in Predictions /\ n \in Predictions /\ n.seq = p.seq + 1
        /\ \/ n.gen = p.gen + 1 /\ n.detects = 1 /\ n.state = "DETECTING"
           \/ n.gen = p.gen /\ n.state = "LOST" /\ n.detects = 0
           \/ /\ n.gen = p.gen /\ p.state = "DETECTING" /\ n.detects = p.detects + 1
              /\ n.state = IF p.detects + 1 >= MinDetect THEN "TRACKING" ELSE "DETECTING"
           \/ n.gen = p.gen /\ n.state = p.state /\ n.detects = p.detects
    BY <2>1, AdvanceFacts DEF TypeInv, ThreadType
  <2>4. /\ p.seq \in Nat /\ p.gen \in Nat /\ p.detects \in Nat
        /\ n.seq \in Nat /\ n.gen \in Nat /\ n.detects \in Nat
    BY <2>3 DEF Predictions
  <2>5. selection.valid => selection.seq \in Nat /\ selection.gen \in Nat
    BY SelectionFacts DEF TypeInv, ThreadType
  <2>6. MinDetect \in Nat
    BY PublisherAssumption
  <2> HIDE DEF n
  <2>7. /\ n.state = "TRACKING" => n.detects >= MinDetect
        /\ n.state = "DETECTING" => n.detects >= 1
    BY <2>3, <2>4, <2>6 DEF SelectionInv
  <2>8. ASSUME selection.valid
        PROVE  /\ selection.gen <= n.gen /\ selection.seq <= n.seq
               /\ selection.gen < n.gen => selection.seq + n.detects <= n.seq
    BY <2>3, <2>4, <2>5, <2>8 DEF SelectionInv
  <2> QED BY <2>2, <2>7, <2>8 DEF SelectionInv, n
<1>2. CASE CycleSelect
  <2>1. /\ prediction' = prediction
        /\ selection' = [valid |-> TRUE, seq |-> prediction.seq, gen |-> prediction.gen,
                         label |-> prediction.label, state |-> prediction.state]
    BY <1>2 DEF CycleSelect
  <2>2. prediction.seq \in Nat /\ prediction.gen \in Nat
    BY DEF TypeInv, ThreadType, Predictions
  <2> QED BY <2>1, <2>2 DEF SelectionInv
<1>3. CASE ThreadsEnd
  BY <1>3 DEF ThreadsEnd, SelectionInv, NoTrack, NoSelection
<1>4. CASE UNCHANGED <<prediction, selection>>
  BY <1>4 DEF SelectionInv
<1>5. VisionFrame \/ CycleSelect \/ ThreadsEnd \/ UNCHANGED <<prediction, selection>>
  BY DEF Next, vars, VisionChannels, ControlChannels, CreateChannels, SessionStart, WorkersStart,
         VisionPublish, CycleQueue, FrameWorker, FrameTake, FrameDemand, FrameImpact,
         FramePublish, FrameEncodeFails, ControlWorker, ControlCheck, ControlBlock,
         ControlPublish, ControlSpuriousWake, ControlEncodeFails, ClientSubscribes,
         ClientUnsubscribes, Stopping, StopControl, NotifyControl, JoinControl, StopVision,
         StopFrames, JoinVision, SessionStop, threadVars
<1> QED BY <1>1, <1>2, <1>3, <1>4, <1>5

\* A choice that fits a frame was made on the frame's track, if a track is confirmed
\* later than the choice of two frames ago can reach.
LEMMA FittingIsOwn ==
  ASSUME TypeInv, SelectionInv, MinDetect > 2, SelectionFits(selection, prediction)
  PROVE  selection.gen = prediction.gen
<1>1. /\ prediction.seq \in Nat /\ prediction.gen \in Nat /\ prediction.detects \in Nat
      /\ prediction.state \in States
  BY DEF TypeInv, ThreadType, Predictions
<1>2. /\ selection.valid /\ selection.seq <= prediction.seq
      /\ prediction.seq - selection.seq <= 2 /\ prediction.state # "LOST"
      /\ prediction.state = "DETECTING" => selection.seq = prediction.seq
  BY DEF SelectionFits
<1>3. selection.seq \in Nat /\ selection.gen \in Nat
  BY <1>2, SelectionFacts DEF TypeInv, ThreadType
<1>4. MinDetect \in Nat
  BY PublisherAssumption
<1>5. CASE prediction.state = "TRACKING"
  BY <1>1, <1>2, <1>3, <1>4, <1>5 DEF SelectionInv
<1>6. CASE prediction.state = "DETECTING"
  BY <1>1, <1>2, <1>3, <1>6 DEF SelectionInv
<1> QED BY <1>1, <1>2, <1>5, <1>6 DEF States

\* VisionDebugPublisher::Publish: with min_detect_count above 2 (the configuration has
\* 5), the armour a frame shows as selected was selected on the same track, although
\* the label may be the same after a reset.
THEOREM SelectionIsOfItsTrack ==
  ASSUME MinDetect > 2
  PROVE  Spec => []SelectionOfSameTrack
<1>1. Init => SelectionInv /\ SelectionOfSameTrack
  BY DEF Init, SelectionInv, NoTrack, NoSelection, SelectionOfSameTrack, EmptyQueue
<1>2. TypeInv /\ SelectionInv /\ SelectionOfSameTrack /\ [Next]_vars => SelectionOfSameTrack'
  <2> SUFFICES ASSUME TypeInv, SelectionInv, SelectionOfSameTrack, [Next]_vars
               PROVE  SelectionOfSameTrack'
    OBVIOUS
  <2>1. CASE VisionPublish
    <3> DEFINE s == IF SelectionFits(selection, prediction) THEN selection ELSE NoSelection
               item == [seq |-> prediction.seq, gen |-> prediction.gen, selection |-> s]
    <3>1. s.valid => s.gen = prediction.gen
      BY FittingIsOwn DEF NoSelection
    <3>2. s \in Selections
      BY DEF TypeInv, ThreadType, Selections
    <3> HIDE DEF s
    <3>3. item \in Items /\ item.gen = prediction.gen /\ item.selection = s
      BY <3>2 DEF TypeInv, ThreadType, Predictions, Items
    <3> HIDE DEF item
    <3>4. frames' = Push(frames, item, now) \/ frames' = frames
      BY <2>1 DEF VisionPublish, item, s
    <3>5. frames'.frame = frames.frame \/ frames'.frame = <<item>>
      BY <3>3, <3>4, PushFacts DEF TypeInv, ThreadType, WorkerType
    <3>6. CASE frames'.frame = <<item>>
      <4>1. \A i \in DOMAIN frames'.frame : frames'.frame[i] = item
        BY <3>6
      <4> QED BY <3>1, <3>3, <4>1 DEF SelectionOfSameTrack
    <3> QED BY <3>5, <3>6 DEF SelectionOfSameTrack
  <2>2. CASE FrameTake
    <3>1. frames' = frames \/ frames' = Pop(frames)
      BY <2>2 DEF FrameTake
    <3>2. frames'.frame = frames.frame \/ frames'.frame = <<>>
      BY <3>1, PopFacts DEF TypeInv, WorkerType
    <3> QED BY <3>2 DEF SelectionOfSameTrack
  <2>3. CASE StopFrames
    <3>1. frames'.frame = frames.frame
      BY <2>3, PopFacts DEF StopFrames, TypeInv, WorkerType
    <3> QED BY <3>1 DEF SelectionOfSameTrack
  <2>4. CASE frames' = frames
    BY <2>4 DEF SelectionOfSameTrack
  <2>5. VisionPublish \/ FrameTake \/ StopFrames \/ frames' = frames
    BY DEF Next, vars, VisionChannels, ControlChannels, CreateChannels, SessionStart, WorkersStart,
           VisionFrame, CycleSelect, CycleQueue, FrameWorker, FrameDemand, FrameImpact,
           FramePublish, FrameEncodeFails, ControlWorker, ControlCheck, ControlBlock,
           ControlPublish, ControlSpuriousWake, ControlEncodeFails, ClientSubscribes,
           ClientUnsubscribes, ThreadsEnd, Stopping, StopControl, NotifyControl, JoinControl,
           StopVision, JoinVision, SessionStop, workerVars
  <2> QED BY <2>1, <2>2, <2>3, <2>4, <2>5
<1>3. TypeInv /\ SelectionInv /\ [Next]_vars => SelectionInv'
  BY NextSelection
<1> QED BY <1>1, <1>2, <1>3, TypeCorrect, PTL DEF Spec

-----------------------------------------------------------------------------
(* What runs at which stage. *)

LEMMA InitPlaced == Init => Placed
  BY DEF Init, Placed, StageInv, ControlInv, VisionInv, Starting, ControlJoined, VisionJoined,
         Idle, Joinable, EmptyQueue, Publishers

LEMMA StagesDiffer ==
  /\ "running" \notin Starting \cup ControlJoined \cup VisionJoined \cup {"join_vision"}
  /\ Starting \cap ControlJoined = {} /\ Starting \cap VisionJoined = {}
  /\ "join_vision" \notin Starting /\ VisionJoined \subseteq ControlJoined
  BY DEF Starting, ControlJoined, VisionJoined

\* Construction and start begin before any worker; the clients disturb none.
LEMMA SessionStepsPlaced ==
  ASSUME TypeInv, Placed,
         \/ VisionChannels \/ ControlChannels \/ SessionStart \/ WorkersStart
         \/ \E c \in Topics : ClientSubscribes(c) \/ ClientUnsubscribes(c)
  PROVE  Placed'
<1>1. CASE WorkersStart
  <2>1. PICK started : /\ accepting' = [p \in Publishers |-> p \in started]
                      /\ frameWorker' = Idle(IF "vision" \in started THEN "wait" ELSE "none")
                      /\ controlWorker' = Idle(IF "control" \in started THEN "check" ELSE "none")
    BY <1>1 DEF WorkersStart
  <2>2. /\ accepting'["vision"] <=> "vision" \in started
        /\ accepting'["control"] <=> "control" \in started
    BY <2>1 DEF Publishers
  <2>3. /\ frameWorker'.pc = IF "vision" \in started THEN "wait" ELSE "none"
        /\ controlWorker'.pc = IF "control" \in started THEN "check" ELSE "none"
    BY <2>1, IdleFacts
  <2>4. /\ stage \in Starting /\ stage' = "running"
        /\ UNCHANGED <<frames, samples, owed, visionPc, controlPc>>
    BY <1>1 DEF WorkersStart, Starting, threadVars
  <2>5. frameWorker.pc = "none" /\ controlWorker.pc = "none"
    BY <2>4 DEF Placed, StageInv
  <2>6. frames.frame = <<>> /\ samples = <<>> /\ ~frames.stopped
    BY <2>4, <2>5, StagesDiffer DEF Placed, ControlInv, VisionInv, Joinable
  <2>7. StageInv'
    BY <2>4, StagesDiffer DEF StageInv
  <2> QED BY <2>2, <2>3, <2>4, <2>6, <2>7 DEF Placed, ControlInv, VisionInv, Joinable
<1>2. CASE ~WorkersStart
  <2>1. /\ UNCHANGED <<accepting, frameWorker, controlWorker, frames, samples, owed,
                      visionPc, controlPc>>
        /\ \/ stage' = stage
           \/ stage \in Starting /\ stage' \in Starting
    BY <1>2 DEF VisionChannels, ControlChannels, CreateChannels, SessionStart, ClientSubscribes,
                ClientUnsubscribes, threadVars, workerVars, Starting
  <2>2. stage \in Starting => ~frames.stopped
    BY StagesDiffer DEF Placed, VisionInv
  <2> QED BY <2>1, <2>2, StagesDiffer
          DEF Placed, StageInv, ControlInv, VisionInv, Joinable
<1> QED BY <1>1, <1>2

\* The threads hand over only while the program runs, to workers that have not ended.
LEMMA ThreadStepsPlaced ==
  ASSUME TypeInv, Placed, VisionFrame \/ VisionPublish \/ CycleSelect \/ CycleQueue \/ ThreadsEnd
  PROVE  Placed'
<1>1. stage = "running"
  BY DEF Placed, StageInv, VisionFrame, VisionPublish, CycleSelect, CycleQueue, ThreadsEnd
<1>2. /\ frameWorker' = frameWorker /\ accepting' = accepting
      /\ stage' = "running" \/ ThreadsEnd
  BY <1>1 DEF VisionFrame, VisionPublish, CycleSelect, CycleQueue, ThreadsEnd, workerVars
<1>3. ~frames.stopped /\ frameWorker.pc # "done"
  BY <1>1, StagesDiffer DEF Placed, VisionInv
<1>4. controlWorker.pc # "done"
  BY <1>1 DEF Placed, ControlInv
<1>5. CASE VisionPublish
  <2>1. /\ UNCHANGED <<samples, controlWorker, controlPc>> /\ stage' = "running"
        /\ frames' = frames \/ accepting["vision"]
    BY <1>1, <1>5 DEF VisionPublish, Wanted
  <2>2. ~frames'.stopped
    <3>1. frames' = frames \/ \E item : frames' = Push(frames, item, now)
      BY <1>5 DEF VisionPublish
    <3>2. \A item : Push(frames, item, now).stopped = frames.stopped
      BY DEF Push, TypeInv, WorkerType, Queues
    <3> QED BY <1>3, <3>1, <3>2
  <2>3. StageInv'
    BY <2>1, StagesDiffer DEF StageInv
  <2>4. VisionInv'
    BY <1>2, <1>3, <2>1, <2>2 DEF Placed, VisionInv, Joinable
  <2> QED BY <1>1, <1>2, <2>1, <2>3, <2>4 DEF Placed, ControlInv, Joinable
<1>6. CASE CycleQueue
  <2>1. /\ frames' = frames /\ stage' = "running"
        /\ \/ UNCHANGED <<samples, controlWorker>>
           \/ accepting["control"] /\ controlWorker' = Notified(controlWorker)
    BY <1>1, <1>6 DEF CycleQueue, Wanted
  <2>2. StageInv'
    BY <2>1, StagesDiffer DEF StageInv
  <2>3. VisionInv'
    BY <1>2, <1>3, <2>1 DEF Placed, VisionInv, Joinable
  <2>4. CASE UNCHANGED <<samples, controlWorker>>
    BY <1>1, <1>2, <2>1, <2>2, <2>3, <2>4 DEF Placed, ControlInv, Joinable
  <2>5. CASE accepting["control"] /\ controlWorker' = Notified(controlWorker)
    <3>1. controlWorker.pc \notin {"none", "done"}
      BY <1>4, <2>5 DEF Placed, ControlInv
    <3>2. controlWorker'.pc \notin {"none", "done"}
      BY <2>5, <3>1, NotifiedFacts, IdleFacts DEF TypeInv, WorkerType
    <3> QED BY <1>2, <2>2, <2>3, <2>5, <3>2 DEF Placed, ControlInv, Joinable
  <2> QED BY <2>1, <2>4, <2>5
<1>7. CASE VisionFrame \/ CycleSelect
  <2>1. UNCHANGED <<frames, samples, controlWorker, owed>> /\ stage' = "running"
    BY <1>1, <1>7 DEF VisionFrame, CycleSelect, workerVars
  <2>2. StageInv'
    BY <2>1, StagesDiffer DEF StageInv
  <2> QED BY <1>1, <1>2, <2>1, <2>2 DEF Placed, ControlInv, VisionInv, Joinable
<1>8. CASE ThreadsEnd
  <2>1. /\ UNCHANGED <<frames, samples, controlWorker, owed>> /\ stage' = "stop_control"
        /\ visionPc' = "idle" /\ controlPc' = "idle"
    BY <1>8 DEF ThreadsEnd, workerVars
  <2>2. StageInv'
    BY <2>1 DEF StageInv, Starting, ControlJoined, VisionJoined
  <2> QED BY <1>2, <1>3, <2>1, <2>2 DEF Placed, ControlInv, VisionInv, Joinable
<1> QED BY <1>5, <1>6, <1>7, <1>8

\* The workers: one that ends leaves its queue empty, and only after it was told to.
LEMMA WorkerStepsPlaced ==
  ASSUME TypeInv, Placed,
         \/ FrameWorker \/ FrameEncodeFails
         \/ ControlWorker \/ ControlSpuriousWake \/ ControlEncodeFails
  PROVE  Placed'
<1>1. UNCHANGED <<stage, accepting, visionPc, controlPc>>
  BY DEF FrameWorker, FrameTake, FrameDemand, FrameImpact, FramePublish, FrameEncodeFails,
         ControlWorker, ControlCheck, ControlBlock, ControlPublish, ControlSpuriousWake,
         ControlEncodeFails, threadVars
<1>2. /\ frameWorker \in FrameWorkers /\ controlWorker \in ControlWorkers
      /\ frames \in Queues
  BY DEF TypeInv, WorkerType
<1>3. CASE FrameWorker \/ FrameEncodeFails
  <2>1. UNCHANGED <<samples, controlWorker>>
    BY <1>3 DEF FrameWorker, FrameTake, FrameDemand, FrameImpact, FramePublish, FrameEncodeFails
  <2>2. ~Joinable(frameWorker)
    BY <1>3 DEF FrameWorker, FrameTake, FrameDemand, FrameImpact, FramePublish,
                FrameEncodeFails, Joinable
  <2>3. stage \notin Starting /\ stage \notin VisionJoined
    BY <2>2 DEF Placed, StageInv, Joinable
  <2>4. /\ frames'.stopped = frames.stopped
        /\ \/ frameWorker'.pc \notin {"none", "done"}
           \/ frameWorker'.pc = "done" /\ frames'.frame = <<>> /\ frames.stopped
    <3>1. CASE FrameTake
      <4>1. CASE frames.frame # <<>>
        BY <1>2, <3>1, <4>1, PopFacts DEF FrameTake
      <4>2. CASE frames.frame = <<>>
        BY <3>1, <4>2, IdleFacts DEF FrameTake
      <4> QED BY <4>1, <4>2
    <3>2. CASE FrameDemand
      BY <3>2, IdleFacts DEF FrameDemand
    <3>3. CASE FrameImpact
      <4>1. /\ frameWorker \in [pc : {"impact", "publish"}, item : Items,
                                live : SUBSET Topics, record : BOOLEAN]
            /\ frameWorker' = [frameWorker EXCEPT !.pc = "publish"] /\ frames' = frames
        BY <1>2, <3>3, FrameWorkerFacts DEF FrameImpact
      <4>2. frameWorker'.pc = "publish"
        BY <4>1
      <4> QED BY <4>1, <4>2
    <3>4. CASE FramePublish \/ FrameEncodeFails
      BY <3>4, IdleFacts DEF FramePublish, FrameEncodeFails
    <3> QED BY <1>3, <3>1, <3>2, <3>3, <3>4 DEF FrameWorker
  <2>5. StageInv'
    BY <1>1, <2>1, <2>3 DEF Placed, StageInv, Joinable
  <2>6. VisionInv'
    BY <1>1, <2>4 DEF Placed, VisionInv, Joinable
  <2> QED BY <1>1, <2>1, <2>5, <2>6 DEF Placed, ControlInv, Joinable
<1>4. CASE ControlWorker \/ ControlSpuriousWake \/ ControlEncodeFails
  <2>1. UNCHANGED <<frames, frameWorker>>
    BY <1>4 DEF ControlWorker, ControlCheck, ControlBlock, ControlPublish, ControlSpuriousWake,
                ControlEncodeFails
  <2>2. ~Joinable(controlWorker)
    BY <1>4 DEF ControlWorker, ControlCheck, ControlBlock, ControlPublish, ControlSpuriousWake,
                ControlEncodeFails, Joinable
  <2>3. stage \notin Starting /\ stage \notin ControlJoined
    BY <2>2 DEF Placed, StageInv, Joinable
  <2>4. \/ controlWorker'.pc \notin {"none", "done"}
        \/ controlWorker'.pc = "done" /\ samples' = <<>> /\ ~accepting["control"]
    <3>1. CASE ControlCheck
      <4>1. CASE samples # <<>>
        BY <3>1, <4>1 DEF ControlCheck
      <4>2. CASE samples = <<>>
        BY <3>1, <4>2, IdleFacts DEF ControlCheck
      <4> QED BY <4>1, <4>2
    <3>2. CASE ControlBlock \/ ControlPublish \/ ControlSpuriousWake \/ ControlEncodeFails
      BY <3>2, IdleFacts DEF ControlBlock, ControlPublish, ControlSpuriousWake,
                             ControlEncodeFails
    <3> QED BY <1>4, <3>1, <3>2 DEF ControlWorker
  <2>5. StageInv'
    BY <1>1, <2>1, <2>3 DEF Placed, StageInv, Joinable
  <2>6. VisionInv'
    BY <1>1, <2>1 DEF Placed, VisionInv, Joinable
  <2>7. stage = "running" => accepting["control"]
    BY <2>2 DEF Placed, ControlInv, Joinable
  <2>8. ControlInv'
    BY <1>1, <2>4, <2>7 DEF ControlInv, Joinable
  <2> QED BY <2>5, <2>6, <2>8 DEF Placed
<1> QED BY <1>3, <1>4

\* Stopping tells each worker to end before it is joined.
LEMMA StoppingPlaced ==
  ASSUME TypeInv, Placed, Stopping
  PROVE  Placed'
<1>1. /\ UNCHANGED <<samples, frameWorker, visionPc, controlPc, owed>>
      /\ visionPc = "idle" /\ controlPc = "idle"
  BY DEF Stopping, StopControl, NotifyControl, JoinControl, StopVision, StopFrames, JoinVision,
         SessionStop, threadVars, workerVars, Placed, StageInv
<1>2. stage \notin Starting \cup {"running"} /\ stage' \notin Starting \cup {"running"}
  BY DEF Stopping, StopControl, NotifyControl, JoinControl, StopVision, StopFrames, JoinVision,
         SessionStop, Starting
<1>3. CASE StopControl
  <2>1. /\ accepting' = [accepting EXCEPT !["control"] = FALSE] /\ stage' = "notify_control"
        /\ UNCHANGED <<frames, controlWorker>>
    BY <1>3 DEF StopControl, workerVars
  <2>2. ~accepting'["control"] /\ (accepting'["vision"] <=> accepting["vision"])
    BY <2>1 DEF TypeInv, SessionType, Publishers
  <2>3. stage = "stop_control"
    BY <1>3 DEF StopControl
  <2>4. StageInv'
    BY <1>1, <2>1 DEF StageInv, Starting, ControlJoined, VisionJoined
  <2>5. VisionInv'
    BY <1>1, <2>1, <2>2, <2>3 DEF Placed, VisionInv, Joinable, VisionJoined
  <2> QED BY <1>1, <1>2, <2>1, <2>2, <2>4, <2>5 DEF Placed, ControlInv, Joinable
<1>4. CASE NotifyControl
  <2>1. /\ controlWorker' = Notified(controlWorker) /\ stage' = "join_control"
        /\ stage = "notify_control" /\ UNCHANGED <<accepting, frames>>
    BY <1>4 DEF NotifyControl
  <2>2. \/ controlWorker' = controlWorker
        \/ controlWorker'.pc = "check"
    BY <2>1, NotifiedFacts, IdleFacts DEF TypeInv, WorkerType
  <2>3. StageInv'
    BY <1>1, <2>1 DEF StageInv, Starting, ControlJoined, VisionJoined
  <2>4. VisionInv'
    BY <1>1, <2>1 DEF Placed, VisionInv, Joinable, VisionJoined
  <2> QED BY <1>1, <1>2, <2>1, <2>2, <2>3, <2>4 DEF Placed, ControlInv, Joinable
<1>5. CASE StopFrames
  <2>1. /\ frames' = StopQueue(frames) /\ stage' = "join_vision" /\ stage = "stop_frames"
        /\ UNCHANGED <<accepting, controlWorker>>
    BY <1>5 DEF StopFrames
  <2>2. frames'.frame = frames.frame /\ frames'.stopped
    BY <2>1, PopFacts DEF TypeInv, WorkerType
  <2>3. StageInv'
    BY <1>1, <2>1 DEF Placed, StageInv, Starting, ControlJoined, VisionJoined, Joinable
  <2>4. VisionInv'
    BY <1>1, <2>1, <2>2 DEF Placed, VisionInv, Joinable
  <2> QED BY <1>1, <1>2, <2>1, <2>3, <2>4 DEF Placed, ControlInv, Joinable
<1>6. CASE StopVision
  <2>1. /\ accepting' = [accepting EXCEPT !["vision"] = FALSE] /\ stage' = "stop_frames"
        /\ stage = "stop_vision" /\ UNCHANGED <<frames, controlWorker>>
    BY <1>6 DEF StopVision, workerVars
  <2>2. ~accepting'["vision"] /\ (accepting'["control"] <=> accepting["control"])
    BY <2>1 DEF TypeInv, SessionType, Publishers
  <2>3. StageInv'
    BY <1>1, <2>1 DEF Placed, StageInv, Starting, ControlJoined, VisionJoined, Joinable
  <2>4. VisionInv'
    BY <1>1, <2>1, <2>2 DEF Placed, VisionInv, Joinable, VisionJoined
  <2> QED BY <1>1, <1>2, <2>1, <2>2, <2>3, <2>4 DEF Placed, ControlInv, Joinable
<1>7. CASE JoinControl \/ JoinVision \/ SessionStop
  <2>1. UNCHANGED <<accepting, frames, controlWorker>>
    BY <1>7 DEF JoinControl, JoinVision, SessionStop, workerVars
  <2>2. \/ stage = "join_control" /\ stage' = "stop_vision" /\ Joinable(controlWorker)
        \/ stage = "join_vision" /\ stage' = "stop_session" /\ Joinable(frameWorker)
        \/ stage = "stop_session" /\ stage' = "stopped"
    BY <1>7 DEF JoinControl, JoinVision, SessionStop
  <2>3. StageInv'
    BY <1>1, <2>1, <2>2 DEF Placed, StageInv, Starting, ControlJoined, VisionJoined, Joinable
  <2>4. VisionInv'
    BY <1>1, <2>1, <2>2 DEF Placed, VisionInv, Joinable, VisionJoined
  <2> QED BY <1>1, <1>2, <2>1, <2>3, <2>4 DEF Placed, ControlInv, Joinable
<1> QED BY <1>3, <1>4, <1>5, <1>6, <1>7 DEF Stopping

LEMMA NextPlaced == TypeInv /\ Placed /\ [Next]_vars => Placed'
<1> SUFFICES ASSUME TypeInv, Placed, [Next]_vars PROVE Placed'
  OBVIOUS
<1>1. CASE UNCHANGED vars
  BY <1>1 DEF vars, Placed, StageInv, ControlInv, VisionInv, Joinable
<1>2. CASE \/ VisionChannels \/ ControlChannels \/ SessionStart \/ WorkersStart
           \/ \E c \in Topics : ClientSubscribes(c) \/ ClientUnsubscribes(c)
  BY <1>2, SessionStepsPlaced
<1>3. CASE VisionFrame \/ VisionPublish \/ CycleSelect \/ CycleQueue \/ ThreadsEnd
  BY <1>3, ThreadStepsPlaced
<1>4. CASE \/ FrameWorker \/ FrameEncodeFails
           \/ ControlWorker \/ ControlSpuriousWake \/ ControlEncodeFails
  BY <1>4, WorkerStepsPlaced
<1>5. CASE Stopping
  BY <1>5, StoppingPlaced
<1> QED BY <1>1, <1>2, <1>3, <1>4, <1>5 DEF Next

-----------------------------------------------------------------------------
(* What is owed to the recording. *)

LEMMA CyclesInFacts ==
  ASSUME NEW q \in Seq(Nat), NEW n \in Nat
  PROVE  /\ CyclesIn(<<>>) = {}
         /\ CyclesIn(Append(q, n)) = CyclesIn(q) \cup {<<"cycle", n>>}
         /\ q # <<>> => /\ Tail(q) \in Seq(Nat) /\ Head(q) \in Nat
                       /\ CyclesIn(q) = CyclesIn(Tail(q)) \cup {<<"cycle", Head(q)>>}
<1>1. CyclesIn(<<>>) = {}
  BY DEF CyclesIn
<1>2. CyclesIn(Append(q, n)) = CyclesIn(q) \cup {<<"cycle", n>>}
  <2> DEFINE a == Append(q, n)
  <2>1. /\ DOMAIN a = 1 .. (Len(q) + 1) /\ DOMAIN q = 1 .. Len(q) /\ Len(q) \in Nat
        /\ \A i \in 1 .. Len(q) : a[i] = q[i]
        /\ a[Len(q) + 1] = n
    OBVIOUS
  <2> HIDE DEF a
  <2>2. DOMAIN a = DOMAIN q \cup {Len(q) + 1}
    BY <2>1
  <2>3. CyclesIn(a) = CyclesIn(q) \cup {<<"cycle", n>>}
    BY <2>1, <2>2, Zenon DEF CyclesIn
  <2> QED BY <2>3 DEF a
<1>3. ASSUME q # <<>>
      PROVE  /\ Tail(q) \in Seq(Nat) /\ Head(q) \in Nat
             /\ CyclesIn(q) = CyclesIn(Tail(q)) \cup {<<"cycle", Head(q)>>}
  <2> DEFINE t == Tail(q)
  <2>1. /\ t \in Seq(Nat) /\ Head(q) = q[1] /\ Head(q) \in Nat
        /\ Len(q) \in Nat /\ Len(q) >= 1 /\ DOMAIN q = 1 .. Len(q)
        /\ DOMAIN t = 1 .. (Len(q) - 1)
        /\ \A i \in 1 .. (Len(q) - 1) : t[i] = q[i + 1]
    BY <1>3
  <2> HIDE DEF t
  <2>2. CyclesIn(t) \subseteq CyclesIn(q)
    <3> SUFFICES ASSUME NEW i \in DOMAIN t PROVE <<"cycle", t[i]>> \in CyclesIn(q)
      BY DEF CyclesIn
    <3>1. i + 1 \in DOMAIN q /\ t[i] = q[i + 1]
      BY <2>1
    <3> QED BY <3>1 DEF CyclesIn
  <2>3. <<"cycle", q[1]>> \in CyclesIn(q)
    <3>1. 1 \in DOMAIN q
      BY <2>1
    <3> QED BY <3>1 DEF CyclesIn
  <2>4. CyclesIn(q) \subseteq CyclesIn(t) \cup {<<"cycle", q[1]>>}
    <3> SUFFICES ASSUME NEW i \in DOMAIN q, i # 1 PROVE <<"cycle", q[i]>> \in CyclesIn(t)
      BY DEF CyclesIn
    <3>1. i - 1 \in DOMAIN t /\ t[i - 1] = q[i]
      BY <2>1
    <3> QED BY <3>1 DEF CyclesIn
  <2> QED BY <2>1, <2>2, <2>3, <2>4 DEF t
<1> QED BY <1>1, <1>2, <1>3

LEMMA FramesInFacts ==
  ASSUME NEW q, NEW f
  PROVE  /\ q.frame = <<>> => FramesIn(q) = {}
         /\ q.frame = <<f>> => FramesIn(q) = {<<"frame", f.seq>>}
<1>1. q.frame = <<>> => FramesIn(q) = {}
  BY DEF FramesIn
<1>2. ASSUME q.frame = <<f>> PROVE FramesIn(q) = {<<"frame", f.seq>>}
  <2>1. DOMAIN q.frame = {1} /\ q.frame[1] = f
    BY <1>2
  <2> QED BY <2>1 DEF FramesIn
<1> QED BY <1>1, <1>2

\* A worker that records when a recording runs pays what it holds, and a recording
\* that breaks is owed nothing.
LEMMA PublishingPays ==
  ASSUME TypeInv, OwedInv, NEW p, NEW live, NEW record \in BOOLEAN, NEW id,
         Publishing(p, live, record, id), ~record => ~Active("mcap")
  PROVE  /\ owed' \subseteq owed \ {id}
         /\ Active("mcap")' => Active("mcap")
         /\ owed' # {} => Active("mcap")'
<1> DEFINE attempted == [s \in Sinks |-> Active(s) /\ IF s = "live" THEN live # {} ELSE record]
<1>1. PICK errors \in [Sinks -> ErrorKinds] :
        /\ output' = OutputAfter(errors)
        /\ owed' = IF errors["mcap"] = "fatal" THEN {}
                   ELSE IF attempted["mcap"] THEN owed \ {id} ELSE owed
  BY DEF Publishing
<1>2. attempted["mcap"] <=> Active("mcap") /\ record
  BY DEF Sinks
<1>3. owed # {} => attempted["mcap"]
  BY <1>2 DEF OwedInv
<1>4. output'["mcap"] = IF errors["mcap"] = "fatal" THEN "off" ELSE output["mcap"]
  BY <1>1 DEF OutputAfter, Sinks
<1> HIDE DEF attempted
<1>5. CASE errors["mcap"] = "fatal"
  BY <1>1, <1>4, <1>5 DEF Active
<1>6. CASE errors["mcap"] # "fatal"
  <2>1. \/ owed' = owed \ {id}
        \/ owed = {} /\ owed' = {}
    BY <1>1, <1>3, <1>6
  <2>2. Active("mcap")' <=> Active("mcap")
    BY <1>4, <1>6 DEF Active
  <2> QED BY <2>1, <2>2 DEF OwedInv
<1> QED BY <1>5, <1>6

\* Once both workers are joined nothing waits any longer.
LEMMA NothingIsLeft ==
  ASSUME Placed, OwedInv, stage \in VisionJoined
  PROVE  owed = {}
<1>1. Joinable(frameWorker) /\ Joinable(controlWorker)
  BY StagesDiffer DEF Placed, StageInv
<1>2. frames.frame = <<>> /\ samples = <<>>
  BY <1>1 DEF Placed, VisionInv, ControlInv
<1>3. FramesIn(frames) = {} /\ CyclesIn(samples) = {}
  BY <1>2 DEF FramesIn, CyclesIn
<1>4. FrameInHand = {} /\ CycleInHand = {}
  BY <1>1 DEF FrameInHand, CycleInHand, Joinable
<1> QED BY <1>3, <1>4 DEF OwedInv

LEMMA SessionStepsOwed ==
  ASSUME TypeInv, Placed, OwedInv,
         \/ VisionChannels \/ ControlChannels \/ SessionStart \/ WorkersStart
         \/ \E c \in Topics : ClientSubscribes(c) \/ ClientUnsubscribes(c)
  PROVE  OwedInv'
<1>1. CASE VisionChannels \/ ControlChannels \/ SessionStart \/ WorkersStart
  <2>1. stage \in Starting /\ owed' = owed
    BY <1>1 DEF VisionChannels, ControlChannels, CreateChannels, SessionStart, WorkersStart,
                Starting
  <2>2. owed' = {}
    BY <2>1 DEF Placed, StageInv
  <2>3. frameWorker'.pc \notin {"impact", "publish"}
    <3>1. CASE WorkersStart
      <4>1. PICK started : frameWorker' = Idle(IF "vision" \in started THEN "wait" ELSE "none")
        BY <3>1 DEF WorkersStart
      <4> QED BY <4>1, IdleFacts
    <3>2. CASE ~WorkersStart
      <4>1. frameWorker' = frameWorker
        BY <1>1, <3>2 DEF VisionChannels, ControlChannels, CreateChannels, SessionStart,
                          workerVars
      <4> QED BY <2>1, <4>1 DEF Placed, StageInv
    <3> QED BY <3>1, <3>2
  <2> QED BY <2>2, <2>3 DEF OwedInv
<1>2. ASSUME NEW c \in Topics, ClientSubscribes(c) \/ ClientUnsubscribes(c)
      PROVE  OwedInv'
  BY <1>2 DEF ClientSubscribes, ClientUnsubscribes, Subscribe, Unsubscribe, workerVars, OwedInv,
              FrameInHand, CycleInHand, Active
<1> QED BY <1>1, <1>2

LEMMA ThreadStepsOwed ==
  ASSUME TypeInv, Placed, OwedInv,
         VisionFrame \/ VisionPublish \/ CycleSelect \/ CycleQueue \/ ThreadsEnd
  PROVE  OwedInv'
<1>1. output' = output /\ frameWorker' = frameWorker
  BY DEF VisionFrame, VisionPublish, CycleSelect, CycleQueue, ThreadsEnd, sessionVars, workerVars
<1>2. FrameInHand' = FrameInHand /\ (Active("mcap")' <=> Active("mcap"))
  BY <1>1 DEF FrameInHand, Active
<1>3. CASE VisionFrame \/ CycleSelect \/ ThreadsEnd
  BY <1>1, <1>2, <1>3 DEF VisionFrame, CycleSelect, ThreadsEnd, workerVars, OwedInv, CycleInHand
<1>4. CASE VisionPublish
  <2>1. samples' = samples /\ CycleInHand' = CycleInHand
    BY <1>4 DEF VisionPublish, CycleInHand
  <2> DEFINE s == IF SelectionFits(selection, prediction) THEN selection ELSE NoSelection
             item == [seq |-> prediction.seq, gen |-> prediction.gen, selection |-> s]
  <2>2. s \in Selections
    BY DEF TypeInv, ThreadType, Selections
  <2> HIDE DEF s
  <2>3. item \in Items
    BY <2>2 DEF TypeInv, ThreadType, Predictions, Items
  <2> HIDE DEF item
  <2>4. CASE Wanted("vision") /\ Accepts(frames, now)
    <3>1. /\ frames' = Push(frames, item, now)
          /\ owed' = (owed \ FramesIn(frames))
                       \cup IF Active("mcap") THEN {<<"frame", item.seq>>} ELSE {}
      BY <1>4, <2>4 DEF VisionPublish, item, s
    <3>2. frames'.frame = <<item>>
      BY <2>3, <2>4, <3>1, PushFacts DEF TypeInv, ThreadType, WorkerType
    <3>3. FramesIn(frames') = {<<"frame", item.seq>>}
      BY <3>2, FramesInFacts
    <3> QED BY <1>1, <1>2, <2>1, <3>1, <3>3 DEF OwedInv
  <2>5. CASE ~(Wanted("vision") /\ Accepts(frames, now))
    <3>1. owed' = owed
      BY <1>4, <2>5 DEF VisionPublish
    <3>2. \/ frames' = frames
          \/ ~Accepts(frames, now) /\ frames' = Push(frames, item, now)
      BY <1>4, <2>5 DEF VisionPublish, item, s
    <3>3. frames' = frames
      BY <3>2 DEF Push
    <3> QED BY <1>1, <1>2, <2>1, <3>1, <3>3 DEF OwedInv
  <2> QED BY <2>4, <2>5
<1>5. CASE CycleQueue
  <2>1. frames' = frames
    BY <1>5 DEF CycleQueue
  <2>2. CASE Wanted("control")
    <3> DEFINE full == Len(samples) = Capacity
               kept == IF full THEN Tail(samples) ELSE samples
               lost == IF full THEN {<<"cycle", Head(samples)>>} ELSE {}
    <3>1. /\ samples' = Append(kept, cycles)
          /\ owed' = (owed \ lost) \cup IF Active("mcap") THEN {<<"cycle", cycles>>} ELSE {}
          /\ controlWorker' = Notified(controlWorker)
      BY <1>5, <2>2 DEF CycleQueue
    <3>2. samples \in Seq(Nat) /\ cycles \in Nat /\ controlWorker \in ControlWorkers
      BY DEF TypeInv, ThreadType, WorkerType
    <3>3. full => samples # <<>>
      BY <3>2, PublisherAssumption
    <3>4. kept \in Seq(Nat) /\ CyclesIn(samples) = CyclesIn(kept) \cup lost
      BY <3>2, <3>3, CyclesInFacts
    <3> HIDE DEF kept, lost, full
    <3>5. CyclesIn(samples') = CyclesIn(kept) \cup {<<"cycle", cycles>>}
      BY <3>1, <3>2, <3>4, CyclesInFacts
    <3>6. CycleInHand' = CycleInHand
      BY <3>1, <3>2, NotifiedFacts, IdleFacts DEF CycleInHand
    <3> QED BY <1>1, <1>2, <2>1, <3>1, <3>4, <3>5, <3>6 DEF OwedInv
  <2>3. CASE ~Wanted("control")
    BY <1>1, <1>2, <1>5, <2>1, <2>3 DEF CycleQueue, OwedInv, CycleInHand
  <2> QED BY <2>2, <2>3
<1> QED BY <1>3, <1>4, <1>5

LEMMA FrameWorkerOwed ==
  ASSUME TypeInv, Placed, OwedInv, FrameWorker \/ FrameEncodeFails
  PROVE  OwedInv'
<1>1. frameWorker \in FrameWorkers /\ frames \in Queues
  BY DEF TypeInv, WorkerType
<1>2. samples' = samples /\ controlWorker' = controlWorker /\ CycleInHand' = CycleInHand
  BY DEF FrameWorker, FrameTake, FrameDemand, FrameImpact, FramePublish, FrameEncodeFails,
         CycleInHand
<1>3. CASE FrameTake
  <2>1. output' = output /\ owed' = owed /\ FrameInHand = {}
    BY <1>3 DEF FrameTake, sessionVars, FrameInHand
  <2>2. CASE frames.frame # <<>>
    <3>1. /\ frameWorker' = [pc |-> "demand", item |-> frames.frame[1]]
          /\ frames.frame = <<frames.frame[1]>> /\ frames'.frame = <<>>
      BY <1>1, <1>3, <2>2, PopFacts DEF FrameTake
    <3>2. FramesIn(frames) = {<<"frame", frames.frame[1].seq>>} /\ FramesIn(frames') = {}
      BY <3>1, FramesInFacts
    <3>3. FrameInHand' = {<<"frame", frames.frame[1].seq>>} /\ frameWorker'.pc = "demand"
      BY <3>1 DEF FrameInHand
    <3> QED BY <1>2, <2>1, <3>2, <3>3 DEF OwedInv, Active
  <2>3. CASE frames.frame = <<>>
    <3>1. frames' = frames /\ frameWorker'.pc = "done"
      BY <1>3, <2>3, IdleFacts DEF FrameTake
    <3> QED BY <1>2, <2>1, <3>1 DEF OwedInv, Active
  <2> QED BY <2>2, <2>3
<1>4. CASE FrameDemand
  <2>1. output' = output /\ owed' = owed /\ frames' = frames /\ frameWorker.pc = "demand"
    BY <1>4 DEF FrameDemand, sessionVars
  <2>2. FrameInHand = {<<"frame", frameWorker.item.seq>>}
    BY <2>1 DEF FrameInHand
  <2> DEFINE live == LiveDemand("vision")
             record == Active("mcap")
  <2>3. \/ ~record /\ frameWorker' = Idle("wait")
        \/ \E pc \in {"impact", "publish"} :
             frameWorker' = [pc |-> pc, item |-> frameWorker.item, live |-> live, record |-> record]
    BY <1>4 DEF FrameDemand
  <2> HIDE DEF live
  <2>4. CASE ~record /\ frameWorker' = Idle("wait")
    <3>1. owed = {}
      BY <2>4 DEF OwedInv
    <3>2. frameWorker'.pc = "wait"
      BY <2>4, IdleFacts
    <3> QED BY <2>1, <3>1, <3>2 DEF OwedInv
  <2>5. ASSUME NEW pc \in {"impact", "publish"},
               frameWorker' = [pc |-> pc, item |-> frameWorker.item, live |-> live, record |-> record]
        PROVE  OwedInv'
    <3>1. frameWorker'.pc = pc /\ frameWorker'.item = frameWorker.item
          /\ frameWorker'.record = record
      BY <2>5
    <3>2. FrameInHand' = FrameInHand
      BY <2>2, <3>1 DEF FrameInHand
    <3>3. (Active("mcap")' <=> record) /\ (~frameWorker'.record => ~record)
      BY <2>1, <3>1 DEF Active
    <3> QED BY <1>2, <2>1, <3>2, <3>3 DEF OwedInv
  <2> QED BY <2>3, <2>4, <2>5
<1>5. CASE FrameImpact
  <2>1. output' = output /\ owed' = owed /\ frames' = frames /\ frameWorker.pc = "impact"
        /\ frameWorker' = [frameWorker EXCEPT !.pc = "publish"]
    BY <1>5 DEF FrameImpact, sessionVars
  <2>2. frameWorker \in [pc : {"impact", "publish"}, item : Items,
                         live : SUBSET Topics, record : BOOLEAN]
    BY <1>1, <2>1, FrameWorkerFacts
  <2>3. /\ frameWorker'.pc = "publish" /\ frameWorker'.item = frameWorker.item
        /\ frameWorker'.record = frameWorker.record
    BY <2>1, <2>2
  <2>4. FrameInHand' = FrameInHand
    BY <2>1, <2>3 DEF FrameInHand
  <2> QED BY <1>2, <2>1, <2>3, <2>4 DEF OwedInv, Active
<1>6. CASE FramePublish \/ FrameEncodeFails
  <2> DEFINE id == <<"frame", frameWorker.item.seq>>
  <2>1. frames' = frames /\ frameWorker'.pc = "wait" /\ frameWorker.pc = "publish"
    BY <1>6, IdleFacts DEF FramePublish, FrameEncodeFails
  <2>2. FrameInHand = {id} /\ FrameInHand' = {}
    BY <2>1 DEF FrameInHand
  <2>3. /\ owed' \subseteq owed \ {id}
        /\ owed' # {} => Active("mcap")'
    <3>1. CASE FramePublish
      <4>1. frameWorker.record \in BOOLEAN /\ (~frameWorker.record => ~Active("mcap"))
        BY <1>1, <2>1, FrameWorkerFacts DEF OwedInv
      <4>2. Publishing("vision", frameWorker.live, frameWorker.record, id)
        BY <3>1 DEF FramePublish
      <4> HIDE DEF id
      <4> QED BY <4>1, <4>2, PublishingPays
    <3>2. CASE FrameEncodeFails
      <4>1. output' = output /\ owed' = owed \ {id}
        BY <3>2 DEF FrameEncodeFails, sessionVars
      <4> QED BY <4>1 DEF OwedInv, Active
    <3> QED BY <1>6, <3>1, <3>2
  <2> QED BY <1>2, <2>1, <2>2, <2>3 DEF OwedInv
<1> QED BY <1>3, <1>4, <1>5, <1>6 DEF FrameWorker

LEMMA ControlWorkerOwed ==
  ASSUME TypeInv, Placed, OwedInv, ControlWorker \/ ControlSpuriousWake \/ ControlEncodeFails
  PROVE  OwedInv'
<1>1. samples \in Seq(Nat) /\ controlWorker \in ControlWorkers
  BY DEF TypeInv, WorkerType
<1>2. frames' = frames /\ frameWorker' = frameWorker /\ FrameInHand' = FrameInHand
  BY DEF ControlWorker, ControlCheck, ControlBlock, ControlPublish, ControlSpuriousWake,
         ControlEncodeFails, FrameInHand
<1>3. CASE ControlCheck
  <2>1. output' = output /\ owed' = owed /\ CycleInHand = {}
    BY <1>3 DEF ControlCheck, sessionVars, CycleInHand
  <2>2. CASE samples # <<>>
    <3>1. controlWorker' = [pc |-> "publish", item |-> Head(samples)] /\ samples' = Tail(samples)
      BY <1>3, <2>2 DEF ControlCheck
    <3>2. CyclesIn(samples) = CyclesIn(samples') \cup {<<"cycle", Head(samples)>>}
      BY <1>1, <2>2, <3>1, CyclesInFacts
    <3>3. CycleInHand' = {<<"cycle", Head(samples)>>}
      BY <3>1 DEF CycleInHand
    <3> QED BY <1>2, <2>1, <3>2, <3>3 DEF OwedInv, Active
  <2>3. CASE samples = <<>>
    <3>1. samples' = samples /\ controlWorker'.pc \in {"done", "deciding"}
      BY <1>3, <2>3, IdleFacts DEF ControlCheck
    <3>2. CycleInHand' = {}
      BY <3>1 DEF CycleInHand
    <3> QED BY <1>2, <2>1, <3>1, <3>2 DEF OwedInv, Active
  <2> QED BY <2>2, <2>3
<1>4. CASE ControlBlock \/ ControlSpuriousWake
  <2>1. /\ output' = output /\ owed' = owed /\ samples' = samples
        /\ controlWorker.pc # "publish" /\ controlWorker'.pc # "publish"
    BY <1>4, IdleFacts DEF ControlBlock, ControlSpuriousWake, sessionVars
  <2>2. CycleInHand' = CycleInHand
    BY <2>1 DEF CycleInHand
  <2> QED BY <1>2, <2>1, <2>2 DEF OwedInv, Active
<1>5. CASE ControlPublish \/ ControlEncodeFails
  <2> DEFINE id == <<"cycle", controlWorker.item>>
  <2>1. samples' = samples /\ controlWorker'.pc = "check" /\ controlWorker.pc = "publish"
    BY <1>5, IdleFacts DEF ControlPublish, ControlEncodeFails
  <2>2. CycleInHand = {id} /\ CycleInHand' = {}
    BY <2>1 DEF CycleInHand
  <2>3. /\ owed' \subseteq owed \ {id}
        /\ Active("mcap")' => Active("mcap")
        /\ owed' # {} => Active("mcap")'
    <3>1. CASE ControlPublish
      <4>1. PICK live : Publishing("control", live, TRUE, id)
        BY <3>1 DEF ControlPublish
      <4> HIDE DEF id
      <4> QED BY <4>1, PublishingPays
    <3>2. CASE ControlEncodeFails
      <4>1. output' = output /\ owed' = owed \ {id}
        BY <3>2 DEF ControlEncodeFails, sessionVars
      <4> QED BY <4>1 DEF OwedInv, Active
    <3> QED BY <1>5, <3>1, <3>2
  <2> QED BY <1>2, <2>1, <2>2, <2>3 DEF OwedInv
<1> QED BY <1>3, <1>4, <1>5 DEF ControlWorker

LEMMA StoppingOwed ==
  ASSUME TypeInv, Placed, OwedInv, Stopping
  PROVE  OwedInv'
<1>1. /\ UNCHANGED <<owed, samples, frameWorker>>
      /\ \/ controlWorker' = controlWorker
         \/ controlWorker' = Notified(controlWorker)
      /\ frames' = frames \/ frames' = StopQueue(frames)
  BY DEF Stopping, StopControl, NotifyControl, JoinControl, StopVision, StopFrames, JoinVision,
         SessionStop, workerVars
<1>2. FrameInHand' = FrameInHand
  BY <1>1 DEF FrameInHand
<1>3. CycleInHand' = CycleInHand
  <2>1. \/ controlWorker' = controlWorker
        \/ controlWorker.pc = "blocked" /\ controlWorker' = Idle("check")
    BY <1>1, NotifiedFacts DEF TypeInv, WorkerType
  <2> QED BY <2>1, IdleFacts DEF CycleInHand
<1>4. FramesIn(frames') = FramesIn(frames)
  BY <1>1, PopFacts DEF FramesIn, TypeInv, WorkerType
<1>5. CASE output' = output
  BY <1>1, <1>2, <1>3, <1>4, <1>5 DEF OwedInv, Active
<1>6. CASE SessionStop
  <2>1. owed' = {}
    <3>1. stage \in VisionJoined
      BY <1>6 DEF SessionStop, VisionJoined
    <3> QED BY <1>1, <3>1, NothingIsLeft
  <2>2. ~Active("mcap")'
    BY <1>6 DEF SessionStop, StopSession, Sinks, Active
  <2> QED BY <2>1, <2>2 DEF OwedInv
<1> QED BY <1>5, <1>6 DEF Stopping, StopControl, NotifyControl, JoinControl, StopVision,
                          StopFrames, JoinVision, sessionVars

\* VisionDebugPublisher::Stop: all that was queued for the recording while it was sound
\* is in the file when it is closed, or was given up and counted.
THEOREM TheTapeIsComplete == Spec => []OwedIsTaped
<1>1. Init => OwedInv
  <2> SUFFICES ASSUME Init PROVE OwedInv
    OBVIOUS
  <2>1. owed = {} /\ frameWorker.pc = "none"
    BY IdleFacts DEF Init
  <2> QED BY <2>1 DEF OwedInv
<1>2. TypeInv /\ Placed /\ OwedInv /\ [Next]_vars => OwedInv'
  <2> SUFFICES ASSUME TypeInv, Placed, OwedInv, [Next]_vars PROVE OwedInv'
    OBVIOUS
  <2>1. CASE UNCHANGED vars
    BY <2>1 DEF vars, OwedInv, FrameInHand, CycleInHand, Active
  <2>2. CASE \/ VisionChannels \/ ControlChannels \/ SessionStart \/ WorkersStart
             \/ \E c \in Topics : ClientSubscribes(c) \/ ClientUnsubscribes(c)
    BY <2>2, SessionStepsOwed
  <2>3. CASE VisionFrame \/ VisionPublish \/ CycleSelect \/ CycleQueue \/ ThreadsEnd
    BY <2>3, ThreadStepsOwed
  <2>4. CASE FrameWorker \/ FrameEncodeFails
    BY <2>4, FrameWorkerOwed
  <2>5. CASE ControlWorker \/ ControlSpuriousWake \/ ControlEncodeFails
    BY <2>5, ControlWorkerOwed
  <2>6. CASE Stopping
    BY <2>6, StoppingOwed
  <2> QED BY <2>1, <2>2, <2>3, <2>4, <2>5, <2>6 DEF Next
<1>3. Placed /\ OwedInv => OwedIsTaped
  BY NothingIsLeft DEF OwedIsTaped, VisionJoined
<1> QED BY <1>1, <1>2, <1>3, InitPlaced, NextPlaced, TypeCorrect, PTL DEF Spec
=============================================================================
