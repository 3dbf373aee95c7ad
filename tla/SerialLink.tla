------------------------------ MODULE SerialLink ------------------------------
(***************************************************************************)
(* The serial command path of the real machine: the control thread         *)
(* (SerialGimbalControlAdapter and SerialGimbalCommandSink), the mailbox   *)
(* and worker thread of ControllerLink, and SerialImu's view of the link.  *)
(*                                                                         *)
(* Each variable is guarded by one mutex or owned by one thread; a step    *)
(* ends where a thread releases a mutex or blocks.  The controller board   *)
(* is external: it may answer, be late or be silent, and the cable may be  *)
(* pulled at any moment.  Timers run out at any moment too: an age is only *)
(* within its limit or over it.                                            *)
(***************************************************************************)
EXTENDS Integers

CONSTANTS
  SyncsNeeded,    \* clock replies that make a session synchronized (3)
  FramesPerRead,  \* bound: frames one read of 512 bytes may hold
  FireOutput,     \* fire_output_enabled
  MaxSession,     \* bound: sessions
  MaxQueued       \* bound: commands queued

ASSUME SerialAssumption ==
  /\ {SyncsNeeded, FramesPerRead, MaxSession, MaxQueued} \subseteq Nat \ {0}
  /\ FireOutput \in BOOLEAN

VARIABLES
  link,     \* the worker's session with the board
  worker,   \* where the worker is
  mailbox,  \* command, guarded by command_mutex
  imu,      \* SerialImu::Impl, guarded by its mutex
  caller,   \* the control thread inside Send
  sink,     \* what the sink remembers of the last command
  wire      \* history: the last command frame written, and over which session

vars == <<link, worker, mailbox, imu, caller, sink, wire>>

Stops == {"STOP", "COAST"}   \* no motion; COAST keeps the friction wheels
Aims == {"AIM", "FIRE"}      \* command.valid
Kinds == Stops \cup Aims
Sessions == 0 .. MaxSession

\* rxOut, syncOut: no frame, no clock reply, for timeout_ms.
Link == [open : BOOLEAN, session : Sessions, acknowledged : BOOLEAN,
         request : {"NONE", "HELLO", "SYNC"}, awaiting : BOOLEAN,
         syncs : 0 .. SyncsNeeded, rxOut : BOOLEAN, syncOut : BOOLEAN]

Synchronized == link.syncs = SyncsNeeded

\* History: the session the caller's check saw, and the worker's when queued.
Command == [kind : Kinds, generation : 0 .. MaxQueued, seen : Sessions, session : Sessions]
NoCommand == [kind |-> "STOP", generation |-> 0, seen |-> 0, session |-> 0]

Mailbox == [command : Command, pending : BOOLEAN, sent : 0 .. MaxQueued]

\* left: frames of the last read; next: where Reset returns to.
Worker == [pc : {"closed", "head", "snapshot", "written", "poll", "beat", "reset"},
           next : {"closed", "head", "poll", "beat"}, left : 0 .. FramesPerRead, snapshot : Command]

\* sample: the newest attitude, of session from; have: one was accepted in this
\* session; bad: how long the samples have been unusable.
Imu == [connected : BOOLEAN, synchronized : BOOLEAN, session : Sessions,
        sample : {"none", "fresh", "stale"}, from : Sessions, have : BOOLEAN,
        bad : {"no", "since", "due"}]

Caller == [pc : {"idle", "rate", "check", "queue"}, kind : Kinds, rated : BOOLEAN,
           healthy : BOOLEAN, seen : Sessions]
Returned == [pc |-> "idle", kind |-> "STOP", rated |-> FALSE, healthy |-> FALSE, seen |-> 0]

Init ==
  /\ link = [open |-> FALSE, session |-> 0, acknowledged |-> FALSE, request |-> "NONE",
             awaiting |-> FALSE, syncs |-> 0, rxOut |-> FALSE, syncOut |-> FALSE]
  /\ worker = [pc |-> "closed", next |-> "closed", left |-> 0, snapshot |-> NoCommand]
  /\ mailbox = [command |-> NoCommand, pending |-> FALSE, sent |-> 0]
  /\ imu = [connected |-> FALSE, synchronized |-> FALSE, session |-> 0,
            sample |-> "none", from |-> 0, have |-> FALSE, bad |-> "no"]
  /\ caller = Returned
  /\ sink = [kind |-> "STOP", valid |-> FALSE]
  /\ wire = [command |-> NoCommand, over |-> 0]

-----------------------------------------------------------------------------
(* SerialImu::OnUpdate, in the worker's thread and under the IMU's mutex. *)

Unusable(i) == i.synchronized /\ i.sample # "fresh"

\* Samples outlive the session they were taken in.
Viewed_KeepsSamples(open) ==
  [imu EXCEPT !.connected = open, !.synchronized = Synchronized, !.session = link.session]

\* Every update copies the link's state; a new session forgets the samples.
Viewed(open) ==
  LET copied == [imu EXCEPT !.connected = open, !.synchronized = Synchronized,
                            !.session = link.session]
  IN IF imu.session = link.session THEN copied
     ELSE [copied EXCEPT !.sample = "none", !.have = FALSE, !.bad = "no"]

\* Every update without a frame restarts the wait for a usable sample.
Waited_Restarts(i) == [i EXCEPT !.bad = IF Unusable(i) THEN "since" ELSE "no"]

\* An update without a frame watches how long the samples have been unusable.
Waited(i) ==
  [i EXCEPT !.bad = IF ~Unusable(i) THEN "no" ELSE IF @ = "no" THEN "since" ELSE @]

\* What an attitude frame does to the samples: a new one; none, for a frame that
\* says the attitude is not to be used; or nothing, for a repeated sample or a
\* payload that is none.
Sampled(i, content) ==
  CASE content = "good" ->
         [i EXCEPT !.sample = "fresh", !.from = link.session, !.have = TRUE]
    [] content = "rejected" -> [i EXCEPT !.sample = "none"]
    [] content = "ignored"  -> i

-----------------------------------------------------------------------------
(* The worker: ControllerLink::Impl::Run. *)

WorkerAt(pc) == worker.pc = pc
WorkerTo(pc) == worker' = [worker EXCEPT !.pc = pc, !.snapshot = NoCommand]

\* Reset forgets the mailbox only in its own books: the pending command stays.
Reset_KeepsCommand(open, next, left) ==
  /\ link.session < MaxSession
  /\ link' = [open |-> open, session |-> link.session + 1, acknowledged |-> FALSE,
              request |-> "NONE", awaiting |-> FALSE, syncs |-> 0,
              rxOut |-> FALSE, syncOut |-> FALSE]
  /\ UNCHANGED mailbox
  /\ worker' = [pc |-> "reset", next |-> next, left |-> left, snapshot |-> NoCommand]

\* Reset up to its callback.  A generation of the mailbox only tells commands apart,
\* so clearing the mailbox is to mark its command as sent.
Reset(open, next, left) ==
  /\ link.session < MaxSession
  /\ link' = [open |-> open, session |-> link.session + 1, acknowledged |-> FALSE,
              request |-> "NONE", awaiting |-> FALSE, syncs |-> 0,
              rxOut |-> FALSE, syncOut |-> FALSE]
  /\ mailbox' = [mailbox EXCEPT !.pending = FALSE, !.sent = mailbox.command.generation]
  /\ worker' = [pc |-> "reset", next |-> next, left |-> left, snapshot |-> NoCommand]

\* The callback that ends Reset; its answer is ignored.
ResetCallback ==
  /\ WorkerAt("reset")
  /\ imu' = Waited(Viewed(link.open))
  /\ WorkerTo(worker.next)
  /\ UNCHANGED <<link, mailbox, caller, sink, wire>>

Reconnect == Reset(FALSE, "closed", 0)

\* The device is opened, or cannot be, once the retry is due.
Open ==
  /\ WorkerAt("closed")
  /\ Reset(TRUE, "head", 0) \/ Reset(FALSE, "closed", 0)
  /\ UNCHANGED <<imu, caller, sink, wire>>

TimedOut == link.rxOut \/ (Synchronized /\ link.syncOut)

Timeout ==
  /\ WorkerAt("head")
  /\ TimedOut
  /\ Reconnect
  /\ UNCHANGED <<imu, caller, sink, wire>>

\* A request is sent if one is due; then a command if the link is synchronized.
Request ==
  /\ WorkerAt("head")
  /\ ~TimedOut
  /\ \/ UNCHANGED link
     \/ link' = [link EXCEPT !.request = IF link.acknowledged THEN "SYNC" ELSE "HELLO",
                             !.awaiting = link.acknowledged]
  /\ WorkerTo(IF Synchronized THEN "snapshot" ELSE "poll")
  /\ UNCHANGED <<mailbox, imu, caller, sink, wire>>

\* A command is written only if it is the next one.
WriteCommand_NextOnly ==
  /\ WorkerAt("snapshot")
  /\ IF mailbox.pending /\ mailbox.command.generation = mailbox.sent + 1
     THEN /\ worker' = [worker EXCEPT !.pc = "written", !.snapshot = mailbox.command]
          /\ wire' = [command |-> mailbox.command, over |-> link.session]
     ELSE WorkerTo("poll") /\ UNCHANGED wire
  /\ UNCHANGED <<link, mailbox, imu, caller, sink>>

\* SendPendingCommand: the copy, and the write outside the mutex, ...
WriteCommand ==
  /\ WorkerAt("snapshot")
  /\ IF mailbox.pending /\ mailbox.command.generation # mailbox.sent
     THEN /\ worker' = [worker EXCEPT !.pc = "written", !.snapshot = mailbox.command]
          /\ wire' = [command |-> mailbox.command, over |-> link.session]
     ELSE WorkerTo("poll") /\ UNCHANGED wire
  /\ UNCHANGED <<link, mailbox, imu, caller, sink>>

\* The command in the mailbox by now, not the one written, is marked as sent.
MarkSent_Latest ==
  /\ WorkerAt("written")
  /\ mailbox' = [mailbox EXCEPT !.sent = mailbox.command.generation]
  /\ WorkerTo("poll")
  /\ UNCHANGED <<link, imu, caller, sink, wire>>

\* ... then what was written is marked as sent.
MarkSent ==
  /\ WorkerAt("written")
  /\ mailbox' = [mailbox EXCEPT !.sent = worker.snapshot.generation]
  /\ WorkerTo("poll")
  /\ UNCHANGED <<link, imu, caller, sink, wire>>

\* The write of a request or of a command, the poll or the read failed.
Disconnect ==
  /\ worker.pc \in {"snapshot", "written", "poll"} /\ worker.left = 0
  /\ Reconnect
  /\ UNCHANGED <<imu, caller, sink, wire>>

\* The read: no bytes, or some frames.
Read ==
  /\ WorkerAt("poll") /\ worker.left = 0
  /\ \/ WorkerTo("beat")
     \/ \E n \in 1 .. FramesPerRead : worker' = [worker EXCEPT !.left = n]
  /\ UNCHANGED <<link, mailbox, imu, caller, sink, wire>>

\* Where the worker goes after a frame, and after a frame that resets the session.
AfterFrame == IF worker.left = 1 THEN "beat" ELSE "poll"
FrameDone == worker' = [worker EXCEPT !.pc = AfterFrame, !.left = @ - 1]
FrameResets == Reset(link.open, AfterFrame, worker.left - 1)

\* Dispatch.  A frame of another session is dropped.
DropOther ==
  /\ WorkerAt("poll") /\ worker.left > 0
  /\ FrameDone
  /\ UNCHANGED <<link, mailbox, imu, caller, sink, wire>>

\* Frames of the board answer the latest request or an earlier one; an earlier one's
\* answer is dropped too.
Acknowledge ==
  /\ WorkerAt("poll") /\ worker.left > 0
  /\ link.request = "HELLO"
  /\ link' = [link EXCEPT !.acknowledged = TRUE, !.rxOut = FALSE]
  /\ FrameDone
  /\ UNCHANGED <<mailbox, imu, caller, sink, wire>>

\* A clock reply with a round trip beyond the limit, or a negative one, only ends
\* the request.
SyncReply ==
  /\ WorkerAt("poll") /\ worker.left > 0
  /\ link.acknowledged /\ link.request = "SYNC" /\ link.awaiting
  /\ \/ link' = [link EXCEPT !.awaiting = FALSE]
     \/ link' = [link EXCEPT !.awaiting = FALSE, !.rxOut = FALSE, !.syncOut = FALSE,
                             !.syncs = IF @ < SyncsNeeded THEN @ + 1 ELSE @]
  /\ FrameDone
  /\ UNCHANGED <<mailbox, imu, caller, sink, wire>>

\* The board's clock jumped.  The session is new from here on; the frames left in
\* the read are of the old one.
ClockJump ==
  /\ WorkerAt("poll") /\ worker.left > 0
  /\ Synchronized /\ link.request = "SYNC" /\ link.awaiting
  /\ FrameResets
  /\ UNCHANGED <<imu, caller, sink, wire>>

\* An attitude frame counts as received whatever it holds, any other frame does not.
Attitude(content) ==
  /\ WorkerAt("poll") /\ worker.left > 0
  /\ link.acknowledged
  /\ imu' = Sampled(Viewed(link.open), content)
  /\ \/ link' = [link EXCEPT !.rxOut = FALSE]
     \/ content = "ignored" /\ UNCHANGED link
  /\ FrameDone
  /\ UNCHANGED <<mailbox, caller, sink, wire>>

\* The board restarted: OnUpdate refuses the frame and Dispatch resets the session.
Rewound ==
  /\ WorkerAt("poll") /\ worker.left > 0
  /\ link.acknowledged
  /\ imu.have
  /\ imu' = [Viewed(link.open) EXCEPT !.sample = "none", !.synchronized = FALSE]
  /\ FrameResets
  /\ UNCHANGED <<caller, sink, wire>>

\* The update that ends every cycle asks for a reconnection when the samples have
\* been unusable for too long.
Beat ==
  /\ WorkerAt("beat")
  /\ imu' = Waited(Viewed(link.open))
  /\ IF Unusable(imu') /\ imu'.bad = "due"
     THEN Reconnect
     ELSE WorkerTo("head") /\ UNCHANGED <<link, mailbox>>
  /\ UNCHANGED <<caller, sink, wire>>

WorkerStep ==
  \/ ResetCallback \/ Open \/ Timeout \/ Request \/ WriteCommand \/ MarkSent \/ Disconnect
  \/ Read \/ DropOther \/ Acknowledge \/ SyncReply \/ ClockJump
  \/ \E content \in {"good", "rejected", "ignored"} : Attitude(content)
  \/ Rewound \/ Beat

-----------------------------------------------------------------------------
(* The control thread: SerialGimbalControlAdapter::Send and the sink below. *)

CallerAt(pc) == caller.pc = pc

Healthy == imu.connected /\ imu.synchronized /\ imu.sample = "fresh"

\* fire_output_enabled FALSE takes the launcher out of a command.
Output(kind) ==
  IF FireOutput THEN kind
  ELSE IF kind \in Aims THEN "AIM" ELSE "STOP"

\* Send computes a rate for a command that can be followed.  It gives up when the
\* actual pose is gone again by then.
Send(kind) ==
  /\ CallerAt("idle") /\ mailbox.command.generation < MaxQueued
  /\ \/ caller' = [Returned EXCEPT !.pc = "rate", !.kind = kind,
                                   !.rated = Healthy /\ kind \in Aims]
     \/ Healthy /\ kind \in Aims /\ UNCHANGED caller
  /\ UNCHANGED <<link, worker, mailbox, imu, sink, wire>>

\* SendRate looks at the health again: a stop takes the command's place, a command
\* without a rate is refused.
SendRate ==
  /\ CallerAt("rate")
  /\ caller' = IF ~Healthy
               THEN [caller EXCEPT !.pc = "check", !.kind = "STOP"]
               ELSE IF caller.kind \in Stops \/ caller.rated
               THEN [caller EXCEPT !.pc = "check", !.healthy = TRUE, !.kind = Output(@)]
               ELSE Returned
  /\ UNCHANGED <<link, worker, mailbox, imu, sink, wire>>

\* An aiming command is remembered whether or not it was queued.
Remembers_Unsent(sent) ==
  sink' = IF ~caller.healthy THEN [kind |-> "STOP", valid |-> FALSE]
          ELSE [kind |-> caller.kind, valid |-> caller.kind \in Aims]

\* The sink after SendRate: a healthy command that could not be queued is not
\* remembered, unless it is a stop.
Remembers(sent) ==
  sink' = IF ~caller.healthy THEN [kind |-> "STOP", valid |-> FALSE]
          ELSE IF caller.kind \in Stops
          THEN [kind |-> IF sent THEN caller.kind ELSE "STOP", valid |-> FALSE]
          ELSE IF sent THEN [kind |-> caller.kind, valid |-> TRUE]
          ELSE sink

\* SerialImu::QueueGimbalCommand: the check under the IMU's mutex, ...
CheckSynchronized ==
  /\ CallerAt("check")
  /\ IF imu.connected /\ imu.synchronized
     THEN /\ caller' = [caller EXCEPT !.pc = "queue", !.seen = imu.session]
          /\ UNCHANGED sink
     ELSE /\ caller' = Returned
          /\ Remembers(FALSE)
  /\ UNCHANGED <<link, worker, mailbox, imu, wire>>

\* ... then the mailbox under its own.
QueueCommand ==
  /\ CallerAt("queue")
  /\ mailbox' = [mailbox EXCEPT !.pending = TRUE,
       !.command = [kind |-> caller.kind, generation |-> @.generation + 1,
                    seen |-> caller.seen, session |-> link.session]]
  /\ Remembers(TRUE)
  /\ caller' = Returned
  /\ UNCHANGED <<link, worker, imu, wire>>

CallerStep ==
  \/ \E kind \in Kinds : Send(kind)
  \/ SendRate \/ CheckSynchronized \/ QueueCommand

-----------------------------------------------------------------------------
(* Time. *)

RxRunsOut ==
  /\ link.open /\ ~link.rxOut
  /\ link' = [link EXCEPT !.rxOut = TRUE]
  /\ UNCHANGED <<worker, mailbox, imu, caller, sink, wire>>

SyncRunsOut ==
  /\ Synchronized /\ ~link.syncOut
  /\ link' = [link EXCEPT !.syncOut = TRUE]
  /\ UNCHANGED <<worker, mailbox, imu, caller, sink, wire>>

SampleAges ==
  /\ imu.sample = "fresh"
  /\ imu' = [imu EXCEPT !.sample = "stale"]
  /\ UNCHANGED <<link, worker, mailbox, caller, sink, wire>>

BadRunsOut ==
  /\ imu.bad = "since"
  /\ imu' = [imu EXCEPT !.bad = "due"]
  /\ UNCHANGED <<link, worker, mailbox, caller, sink, wire>>

Next == WorkerStep \/ CallerStep \/ RxRunsOut \/ SyncRunsOut \/ SampleAges \/ BadRunsOut

\* The worker's blocking calls all have a timeout (poll 5 ms, write 20 ms, sleep
\* 20 ms), and time passes.
Fairness == WF_vars(WorkerStep) /\ WF_vars(BadRunsOut)

Spec == Init /\ [][Next]_vars
FairSpec == Spec /\ Fairness

-----------------------------------------------------------------------------
TypeOK ==
  /\ link \in Link
  /\ worker \in Worker
  /\ mailbox \in Mailbox
  /\ imu \in Imu
  /\ caller \in Caller
  /\ sink \in [kind : Kinds, valid : BOOLEAN]
  /\ wire \in [command : Command, over : Sessions]

\* controller_link.cpp 96-101: a command that was in the mailbox when a session ended
\* is never written in a later one.
QueuedCommandsDie == wire.command.generation > 0 => wire.command.session = wire.over

\* controller_link.cpp 105, "never replay a command from the old session": a command
\* is written only in the session its sender saw.
NoReplay == wire.command.generation > 0 => wire.command.seen = wire.over

\* controller_link.cpp 150-173: a command the worker believes sent was the last one
\* written, unless a reset threw it away.  So a stop that is queued while the worker
\* writes an older command is not taken for sent.
SentIsWritten ==
  mailbox.pending /\ mailbox.sent = mailbox.command.generation /\ mailbox.sent > 0
    => wire.command = mailbox.command

\* serial_imu.cpp 90-110: samples are never of another session than the clock offset
\* they are read with.
SamplesOfOneSession == imu.sample # "none" => imu.from = imu.session

\* serial_gimbal_command_sink.cpp 90-131: when no call is under way and the sink says
\* that an aiming command is in force, that command is the last one queued.
FeedbackIsQueued ==
  CallerAt("idle") /\ sink.valid => mailbox.command.kind = sink.kind

\* serial_imu.cpp 118-140: a synchronized link whose samples stay unusable is given
\* up, unless a usable one arrives.
UnusableFeedIsDropped ==
  Unusable(imu) ~> ~Unusable(imu) \/ link.session = MaxSession

\* controller_link.cpp 150-173, 228-296: while the link stays synchronized, every
\* queued command is written or replaced by a later one that is.
QueuedIsWritten ==
  \A g \in 1 .. MaxQueued :
    Synchronized /\ mailbox.command.generation = g
      ~> mailbox.sent >= g \/ ~Synchronized \/ link.session = MaxSession

\* What the link believes of its commands and its samples is true (see SentIsWritten
\* and SamplesOfOneSession).
BooksAreTrue == SentIsWritten /\ SamplesOfOneSession

\* A synchronized session writes what is queued, and one without usable samples does
\* not last (see QueuedIsWritten and UnusableFeedIsDropped).
SessionsGoOn == QueuedIsWritten /\ UnusableFeedIsDropped
===============================================================================
