--------------------------- MODULE SerialLinkProofs ---------------------------
(***************************************************************************)
(* What holds of the serial link for every number of sessions, commands,   *)
(* clock replies and frames: nothing that was queued before a reset is     *)
(* written after it, commands are written once and in order, what is       *)
(* marked as sent was written, the telemetry names the last command        *)
(* queued, and samples belong to the session they are read with.           *)
(***************************************************************************)
EXTENDS SerialLink, TLAPS

USE SerialAssumption

\* A pending command was queued in the worker's session, and nothing later than the
\* mailbox's command was ever marked as sent.
MailboxInv ==
  /\ mailbox.pending => mailbox.command.session = link.session
  /\ mailbox.sent <= mailbox.command.generation

\* Between the write and the mark the worker holds the command it wrote, which is the
\* mailbox's unless a later one was queued; at any other time what was written is
\* marked.
WrittenInv ==
  IF WorkerAt("written")
  THEN /\ wire.command = worker.snapshot
       /\ \/ worker.snapshot = mailbox.command
          \/ worker.snapshot.generation < mailbox.command.generation
  ELSE wire.command.generation <= mailbox.sent

\* The sink only says that an aiming command is in force if it is the last one queued.
SinkInv == sink.valid => mailbox.command.kind = sink.kind

\* A call that is under way found room in the bounded mailbox.
CallerInv == ~CallerAt("idle") => mailbox.command.generation < MaxQueued

IInv ==
  /\ TypeOK /\ CallerInv
  /\ MailboxInv /\ WrittenInv /\ SinkInv
  /\ SentIsWritten /\ QueuedCommandsDie /\ SamplesOfOneSession

-----------------------------------------------------------------------------
(* The parts the actions are built from. *)

LEMMA NoCommandTyped == NoCommand \in Command
BY DEF NoCommand, Command, Kinds, Stops, Sessions

\* A reset starts a session nobody knows of yet, and marks the mailbox's command.
LEMMA ResetSteps ==
  ASSUME TypeOK, NEW open \in BOOLEAN, NEW next \in {"closed", "head", "poll", "beat"},
         NEW left \in 0 .. FramesPerRead, Reset(open, next, left)
  PROVE  /\ link' \in Link /\ worker' \in Worker /\ mailbox' \in Mailbox
         /\ ~mailbox'.pending /\ mailbox'.command = mailbox.command
         /\ mailbox'.sent = mailbox.command.generation
         /\ worker'.pc = "reset"
<1>1. mailbox' \in Mailbox
  BY DEF Reset, TypeOK, Mailbox, Command
<1>2. link' \in Link
  BY DEF Reset, TypeOK, Link, Sessions
<1>3. worker' \in Worker
  BY NoCommandTyped DEF Reset, Worker
<1>4. /\ ~mailbox'.pending /\ mailbox'.command = mailbox.command
      /\ mailbox'.sent = mailbox.command.generation
      /\ worker'.pc = "reset"
  BY DEF Reset, TypeOK, Mailbox
<1> QED
  BY <1>1, <1>2, <1>3, <1>4

\* An update of the IMU keeps its type, and forgets the samples of another session.
LEMMA ViewedIsSound ==
  ASSUME TypeOK, SamplesOfOneSession, NEW open \in BOOLEAN
  PROVE  /\ Viewed(open) \in Imu
         /\ Viewed(open).session = link.session
         /\ Viewed(open).sample # "none" => Viewed(open).from = Viewed(open).session
BY DEF TypeOK, Link, Imu, Viewed, Synchronized, SamplesOfOneSession

LEMMA WaitedIsSound ==
  ASSUME NEW i \in Imu
  PROVE  /\ Waited(i) \in Imu
         /\ Waited(i).sample = i.sample /\ Waited(i).from = i.from
         /\ Waited(i).session = i.session
BY DEF Waited, Imu

LEMMA SampledIsSound ==
  ASSUME TypeOK, NEW i \in Imu, i.session = link.session,
         i.sample # "none" => i.from = i.session,
         NEW content \in {"good", "rejected", "ignored"}
  PROVE  /\ Sampled(i, content) \in Imu
         /\ Sampled(i, content).sample # "none"
              => Sampled(i, content).from = Sampled(i, content).session
BY DEF Sampled, Imu, TypeOK, Link

LEMMA WorkerToSteps ==
  ASSUME TypeOK, NEW pc \in {"closed", "head", "snapshot", "poll", "beat"}, WorkerTo(pc)
  PROVE  worker' \in Worker /\ worker'.pc = pc
BY NoCommandTyped DEF WorkerTo, TypeOK, Worker

LEMMA FrameDoneSteps ==
  ASSUME TypeOK, worker.left > 0
  PROVE  /\ worker.left - 1 \in 0 .. FramesPerRead
         /\ AfterFrame \in {"beat", "poll"}
         /\ FrameDone => worker' \in Worker /\ worker'.pc \in {"beat", "poll"}
<1>1. worker.left - 1 \in 0 .. FramesPerRead
  BY DEF TypeOK, Worker
<1>2. AfterFrame \in {"beat", "poll"}
  BY DEF AfterFrame
<1> DEFINE n == worker.left - 1
<1>3. FrameDone => worker' = [worker EXCEPT !.pc = AfterFrame, !.left = n]
  BY DEF FrameDone
<1>4. n \in 0 .. FramesPerRead
  BY <1>1
<1> HIDE DEF n
<1>5. FrameDone => worker' \in Worker /\ worker'.pc = AfterFrame
  BY <1>2, <1>3, <1>4 DEF TypeOK, Worker
<1> QED
  BY <1>1, <1>2, <1>5

-----------------------------------------------------------------------------
(* The steps, by what they touch. *)

\* A reset keeps the invariant whatever the worker was doing, in the middle of a write
\* too: it marks the mailbox's command, which is not older than the one written.
LEMMA ResetsKeep ==
  ASSUME IInv, NEW open \in BOOLEAN, NEW next \in {"closed", "head", "poll", "beat"},
         NEW left \in 0 .. FramesPerRead, Reset(open, next, left),
         imu' \in Imu, SamplesOfOneSession', UNCHANGED <<caller, sink, wire>>
  PROVE  IInv'
<1> USE DEF IInv
<1>1. /\ link' \in Link /\ worker' \in Worker /\ mailbox' \in Mailbox
      /\ ~mailbox'.pending /\ mailbox'.command = mailbox.command
      /\ mailbox'.sent = mailbox.command.generation
      /\ worker'.pc = "reset"
  BY ResetSteps
<1>2. TypeOK' /\ CallerInv'
  BY <1>1 DEF TypeOK, CallerInv, CallerAt
<1>3. mailbox.command \in Command /\ mailbox.sent \in Nat
  BY DEF TypeOK, Mailbox
<1>4. MailboxInv' /\ SinkInv' /\ SentIsWritten' /\ QueuedCommandsDie'
  BY <1>1, <1>3 DEF MailboxInv, SinkInv, SentIsWritten, QueuedCommandsDie, Command
<1>5. wire.command.generation <= mailbox.command.generation
  <2>1. wire.command.generation \in Nat /\ mailbox.command.generation \in Nat
    BY <1>3 DEF TypeOK, Command
  <2> QED
    BY <1>3, <2>1 DEF WrittenInv, MailboxInv
<1>6. WrittenInv'
  BY <1>1, <1>5 DEF WrittenInv, WorkerAt
<1> QED
  BY <1>2, <1>4, <1>6

\* So does a step that touches neither the mailbox nor the wire and stays in its
\* session.
LEMMA QuietStepsKeep ==
  ASSUME IInv, UNCHANGED <<mailbox, sink, wire>>,
         link' \in Link, link'.session = link.session,
         worker' \in Worker, WorkerAt("written")' <=> WorkerAt("written"),
         WorkerAt("written") => worker'.snapshot = worker.snapshot,
         imu' \in Imu, SamplesOfOneSession',
         caller' \in Caller, CallerInv'
  PROVE  IInv'
<1>1. TypeOK'
  BY DEF IInv, TypeOK
<1>2. WrittenInv'
  BY DEF IInv, WrittenInv
<1> QED
  BY <1>1, <1>2 DEF IInv, MailboxInv, SinkInv, SentIsWritten, QueuedCommandsDie

-----------------------------------------------------------------------------
(* The worker. *)

\* The steps that start a session: a lost device, a timeout, a clock that jumped, a
\* board that restarted, samples that stay unusable.
LEMMA ReconnectionsKeep ==
  ASSUME IInv,
         \/ Open \/ Timeout \/ Disconnect \/ ClockJump \/ Rewound
         \/ Beat /\ Reconnect
  PROVE  IInv'
<1> USE DEF IInv
<1>1. 0 \in 0 .. FramesPerRead
  OBVIOUS
<1>2. SamplesOfOneSession /\ UNCHANGED imu => imu' \in Imu /\ SamplesOfOneSession'
  BY DEF TypeOK, SamplesOfOneSession
<1>3. CASE Open
  BY <1>1, <1>2, <1>3, ResetsKeep DEF Open
<1>4. CASE Timeout
  BY <1>1, <1>2, <1>4, ResetsKeep DEF Timeout, Reconnect
<1>5. CASE Disconnect
  BY <1>1, <1>2, <1>5, ResetsKeep DEF Disconnect, Reconnect
<1>6. link.open \in BOOLEAN
  BY DEF TypeOK, Link
<1>7. CASE ClockJump
  <2>1. worker.left - 1 \in 0 .. FramesPerRead /\ AfterFrame \in {"beat", "poll"}
    BY <1>7, FrameDoneSteps DEF ClockJump
  <2>2. Reset(link.open, AfterFrame, worker.left - 1) /\ UNCHANGED <<imu, caller, sink, wire>>
    BY <1>7 DEF ClockJump, FrameResets
  <2> QED
    BY <1>2, <1>6, <2>1, <2>2, ResetsKeep
<1>8. CASE Rewound
  <2>1. worker.left - 1 \in 0 .. FramesPerRead /\ AfterFrame \in {"beat", "poll"}
    BY <1>8, FrameDoneSteps DEF Rewound
  <2>2. Reset(link.open, AfterFrame, worker.left - 1) /\ UNCHANGED <<caller, sink, wire>>
    BY <1>8 DEF Rewound, FrameResets
  <2>3. imu' \in Imu /\ SamplesOfOneSession'
    BY <1>6, <1>8, ViewedIsSound DEF Rewound, SamplesOfOneSession, Imu
  <2> QED
    BY <1>6, <2>1, <2>2, <2>3, ResetsKeep
<1>9. CASE Beat /\ Reconnect
  <2>1. imu' \in Imu /\ SamplesOfOneSession'
    BY <1>6, <1>9, ViewedIsSound, WaitedIsSound DEF Beat, SamplesOfOneSession
  <2> QED
    BY <1>1, <1>9, <2>1, ResetsKeep DEF Beat, Reconnect
<1> QED
  BY <1>3, <1>4, <1>5, <1>7, <1>8, <1>9

\* The steps of the worker that only read the link, or move within the session.
LEMMA SessionStepsKeep ==
  ASSUME IInv,
         \/ ResetCallback \/ Request \/ Read \/ DropOther \/ Acknowledge \/ SyncReply
         \/ \E content \in {"good", "rejected", "ignored"} : Attitude(content)
         \/ Beat /\ ~Reconnect
  PROVE  IInv'
<1> USE DEF IInv
<1>1. UNCHANGED caller => caller' \in Caller
  BY DEF TypeOK
<1>2. UNCHANGED <<caller, mailbox>> => CallerInv'
  BY DEF CallerInv, CallerAt
<1>3. UNCHANGED imu => imu' \in Imu /\ SamplesOfOneSession'
  BY DEF TypeOK, SamplesOfOneSession
<1>4. UNCHANGED link => link' \in Link
  BY DEF TypeOK
<1>5. link.open \in BOOLEAN
  BY DEF TypeOK, Link
<1>6. CASE ResetCallback
  <2>1. imu' \in Imu /\ SamplesOfOneSession'
    BY <1>5, <1>6, ViewedIsSound, WaitedIsSound DEF ResetCallback, SamplesOfOneSession
  <2>2. worker' \in Worker /\ worker'.pc # "written" /\ worker.pc # "written"
    BY <1>6, WorkerToSteps DEF ResetCallback, TypeOK, Worker, WorkerAt
  <2> QED
    BY <1>1, <1>2, <1>4, <1>6, <2>1, <2>2, QuietStepsKeep DEF ResetCallback, WorkerAt
<1>7. CASE Request
  <2>1. link' \in Link /\ link'.session = link.session
    BY <1>7 DEF Request, TypeOK, Link
  <2>2. worker' \in Worker /\ worker'.pc # "written" /\ worker.pc # "written"
    BY <1>7, WorkerToSteps DEF Request, WorkerAt
  <2> QED
    BY <1>1, <1>2, <1>3, <1>7, <2>1, <2>2, QuietStepsKeep DEF Request, WorkerAt
<1>8. CASE Read
  <2>1. worker' \in Worker /\ worker'.pc # "written" /\ worker.pc # "written"
    <3>1. CASE WorkerTo("beat")
      BY <1>8, <3>1, WorkerToSteps DEF Read, WorkerAt
    <3>2. CASE \E n \in 1 .. FramesPerRead : worker' = [worker EXCEPT !.left = n]
      BY <1>8, <3>2 DEF Read, WorkerAt, TypeOK, Worker
    <3> QED
      BY <1>8, <3>1, <3>2 DEF Read
  <2> QED
    BY <1>1, <1>2, <1>3, <1>4, <1>8, <2>1, QuietStepsKeep DEF Read, WorkerAt
<1>9. ASSUME WorkerAt("poll"), worker.left > 0, FrameDone
      PROVE  /\ worker' \in Worker
             /\ worker'.pc # "written" /\ worker.pc # "written"
  BY <1>9, FrameDoneSteps DEF WorkerAt
<1>10. CASE DropOther
  BY <1>1, <1>2, <1>3, <1>4, <1>9, <1>10, QuietStepsKeep DEF DropOther, WorkerAt
<1>11. CASE Acknowledge
  <2>1. link' \in Link /\ link'.session = link.session
    BY <1>11 DEF Acknowledge, TypeOK, Link
  <2> QED
    BY <1>1, <1>2, <1>3, <1>9, <1>11, <2>1, QuietStepsKeep DEF Acknowledge, WorkerAt
<1>12. CASE SyncReply
  <2>1. link' \in Link /\ link'.session = link.session
    <3> DEFINE n == IF link.syncs < SyncsNeeded THEN link.syncs + 1 ELSE link.syncs
    <3>1. n \in 0 .. SyncsNeeded
      BY DEF TypeOK, Link
    <3>2. \/ link' = [link EXCEPT !.awaiting = FALSE]
          \/ link' = [link EXCEPT !.awaiting = FALSE, !.rxOut = FALSE, !.syncOut = FALSE,
                                  !.syncs = n]
      BY <1>12 DEF SyncReply
    <3> HIDE DEF n
    <3> QED
      BY <3>1, <3>2 DEF TypeOK, Link
  <2> QED
    BY <1>1, <1>2, <1>3, <1>9, <1>12, <2>1, QuietStepsKeep DEF SyncReply, WorkerAt
<1>13. ASSUME NEW content \in {"good", "rejected", "ignored"}, Attitude(content)
       PROVE  IInv'
  <2>1. link' \in Link /\ link'.session = link.session
    BY <1>13 DEF Attitude, TypeOK, Link
  <2>2. imu' \in Imu /\ SamplesOfOneSession'
    BY <1>5, <1>13, ViewedIsSound, SampledIsSound DEF Attitude, SamplesOfOneSession
  <2> QED
    BY <1>1, <1>2, <1>9, <1>13, <2>1, <2>2, QuietStepsKeep DEF Attitude, WorkerAt
<1>14. CASE Beat /\ ~Reconnect
  <2>1. imu' \in Imu /\ SamplesOfOneSession'
    BY <1>5, <1>14, ViewedIsSound, WaitedIsSound DEF Beat, SamplesOfOneSession
  <2>2. /\ WorkerTo("head") /\ UNCHANGED <<link, mailbox>>
        /\ worker' \in Worker /\ worker'.pc # "written" /\ worker.pc # "written"
    BY <1>14, WorkerToSteps DEF Beat, WorkerAt
  <2> QED
    BY <1>1, <1>2, <1>4, <1>14, <2>1, <2>2, QuietStepsKeep DEF Beat, WorkerAt
<1> QED
  BY <1>6, <1>7, <1>8, <1>10, <1>11, <1>12, <1>13, <1>14

\* SendPendingCommand copies the mailbox's command, which is newer than any that was
\* written, and of this session.
LEMMA WriteCommandKeeps ==
  ASSUME IInv, WriteCommand
  PROVE  /\ IInv'
         /\ wire'.command # wire.command => wire'.command.generation > wire.command.generation
<1> USE DEF IInv
<1>1. /\ mailbox.command \in Command /\ mailbox.sent \in Nat /\ link.session \in Sessions
      /\ wire.command.generation \in Nat /\ mailbox.command.generation \in Nat
  BY DEF TypeOK, Mailbox, Command, Link
<1>2. worker.pc = "snapshot" /\ wire.command.generation <= mailbox.sent
  BY DEF WriteCommand, WrittenInv, WorkerAt
<1>3. UNCHANGED <<link, mailbox, imu, caller, sink>>
  BY DEF WriteCommand
<1>4. CASE mailbox.pending /\ mailbox.command.generation # mailbox.sent
  <2>1. /\ worker' = [worker EXCEPT !.pc = "written", !.snapshot = mailbox.command]
        /\ wire' = [command |-> mailbox.command, over |-> link.session]
    BY <1>4 DEF WriteCommand
  <2>2. TypeOK' /\ CallerInv'
    BY <1>1, <1>3, <2>1 DEF TypeOK, Worker, CallerInv, CallerAt
  <2>3. WrittenInv'
    BY <1>3, <2>1 DEF WrittenInv, WorkerAt, TypeOK, Worker
  <2>4. QueuedCommandsDie' /\ SentIsWritten'
    BY <1>3, <1>4, <2>1 DEF QueuedCommandsDie, SentIsWritten, MailboxInv
  <2>5. wire'.command.generation > wire.command.generation
    BY <1>1, <1>2, <1>4, <2>1 DEF MailboxInv
  <2> QED
    BY <1>3, <2>2, <2>3, <2>4, <2>5 DEF MailboxInv, SinkInv, SamplesOfOneSession
<1>5. CASE ~(mailbox.pending /\ mailbox.command.generation # mailbox.sent)
  <2>1. WorkerTo("poll") /\ UNCHANGED wire
    BY <1>5 DEF WriteCommand
  <2>2. worker' \in Worker /\ worker'.pc = "poll"
    BY <2>1, WorkerToSteps
  <2>3. /\ link' \in Link /\ imu' \in Imu /\ caller' \in Caller
        /\ SamplesOfOneSession' /\ CallerInv'
    BY <1>3 DEF TypeOK, SamplesOfOneSession, CallerInv, CallerAt
  <2> QED
    BY <1>2, <1>3, <2>1, <2>2, <2>3, QuietStepsKeep DEF WorkerAt
<1> QED
  BY <1>4, <1>5

\* What is marked as sent is the command that was written: if it is the mailbox's, by
\* its generation, nothing was queued meanwhile.
LEMMA MarkSentKeeps ==
  ASSUME IInv, MarkSent
  PROVE  IInv'
<1> USE DEF IInv
<1>1. /\ UNCHANGED <<link, imu, caller, sink, wire>>
      /\ mailbox' = [mailbox EXCEPT !.sent = worker.snapshot.generation]
      /\ WorkerTo("poll")
  BY DEF MarkSent
<1>2. worker' \in Worker /\ worker'.pc = "poll"
  BY <1>1, WorkerToSteps
<1>3. /\ worker.snapshot.generation \in 0 .. MaxQueued
      /\ mailbox.command.generation \in 0 .. MaxQueued
  BY DEF TypeOK, Worker, Mailbox, Command
<1>4. /\ wire.command = worker.snapshot
      /\ worker.snapshot = mailbox.command
           \/ worker.snapshot.generation < mailbox.command.generation
  BY DEF MarkSent, WrittenInv
<1>5. /\ mailbox'.command = mailbox.command /\ mailbox'.pending = mailbox.pending
      /\ mailbox'.sent = worker.snapshot.generation /\ mailbox' \in Mailbox
  BY <1>1, <1>3 DEF TypeOK, Mailbox
<1>6. TypeOK' /\ CallerInv'
  BY <1>1, <1>2, <1>5 DEF TypeOK, CallerInv, CallerAt
<1>7. MailboxInv' /\ WrittenInv' /\ SentIsWritten'
  BY <1>1, <1>2, <1>3, <1>4, <1>5 DEF MailboxInv, WrittenInv, SentIsWritten, WorkerAt
<1> QED
  BY <1>1, <1>5, <1>6, <1>7 DEF SinkInv, QueuedCommandsDie, SamplesOfOneSession

-----------------------------------------------------------------------------
(* The control thread and time. *)

\* Until it queues, the caller only looks.
LEMMA CallersKeep ==
  ASSUME IInv,
         \/ \E kind \in Kinds : Send(kind)
         \/ SendRate \/ CheckSynchronized
  PROVE  IInv'
<1> USE DEF IInv
<1>1. UNCHANGED <<link, worker, mailbox, imu, wire>>
  BY DEF Send, SendRate, CheckSynchronized
<1>2. "STOP" \in Kinds /\ "AIM" \in Kinds /\ Returned \in Caller
  BY DEF Kinds, Stops, Aims, Returned, Caller, Sessions
<1>3. \A kind \in Kinds : Output(kind) \in Kinds
  BY DEF Output, Kinds, Stops, Aims
<1>4. imu.session \in Sessions
  BY DEF TypeOK, Imu
<1>5. caller' \in Caller
  <2>1. ASSUME NEW kind \in Kinds, Send(kind)
        PROVE  caller' \in Caller
    <3>1. ASSUME NEW b \in BOOLEAN
          PROVE  [Returned EXCEPT !.pc = "rate", !.kind = kind, !.rated = b] \in Caller
      BY <1>2, <3>1 DEF Caller
    <3>2. (Healthy /\ kind \in Aims) \in BOOLEAN
      OBVIOUS
    <3>3. \/ caller' = [Returned EXCEPT !.pc = "rate", !.kind = kind,
                                        !.rated = Healthy /\ kind \in Aims]
          \/ UNCHANGED caller
      BY <2>1 DEF Send
    <3>4. [Returned EXCEPT !.pc = "rate", !.kind = kind,
                           !.rated = Healthy /\ kind \in Aims] \in Caller
      BY <3>1, <3>2, Zenon
    <3> QED
      BY <3>3, <3>4 DEF TypeOK
  <2>2. CASE SendRate
    <3> DEFINE k == Output(caller.kind)
    <3>1. k \in Kinds
      BY <1>3 DEF TypeOK, Caller
    <3>2. \/ caller' = [caller EXCEPT !.pc = "check", !.kind = "STOP"]
          \/ caller' = [caller EXCEPT !.pc = "check", !.healthy = TRUE, !.kind = k]
          \/ caller' = Returned
      BY <2>2 DEF SendRate
    <3> HIDE DEF k
    <3> QED
      BY <1>2, <3>1, <3>2 DEF TypeOK, Caller
  <2>3. CASE CheckSynchronized
    <3>1. \/ caller' = [caller EXCEPT !.pc = "queue", !.seen = imu.session]
          \/ caller' = Returned
      BY <2>3 DEF CheckSynchronized
    <3> QED
      BY <1>2, <1>4, <3>1 DEF TypeOK, Caller
  <2> QED
    BY <2>1, <2>2, <2>3
<1>6. CallerInv'
  BY <1>1 DEF CallerInv, CallerAt, Send, SendRate, CheckSynchronized
<1>7. sink' \in [kind : Kinds, valid : BOOLEAN] /\ (sink'.valid => sink' = sink)
  <2> DEFINE none == [kind |-> "STOP", valid |-> FALSE]
  <2>1. sink' = sink \/ sink' = none
    BY DEF Send, SendRate, CheckSynchronized, Remembers
  <2>2. none \in [kind : Kinds, valid : BOOLEAN] /\ ~none.valid
    BY <1>2
  <2>3. sink \in [kind : Kinds, valid : BOOLEAN]
    BY DEF TypeOK
  <2> HIDE DEF none
  <2> QED
    BY <2>1, <2>2, <2>3
<1>8. TypeOK'
  BY <1>1, <1>5, <1>7 DEF TypeOK
<1>9. SinkInv'
  BY <1>1, <1>7 DEF SinkInv
<1> QED
  BY <1>1, <1>6, <1>8, <1>9
     DEF MailboxInv, WrittenInv, WorkerAt, SentIsWritten, QueuedCommandsDie, SamplesOfOneSession

\* What is queued is newer than what is being written, and is what the sink remembers.
LEMMA QueueCommandKeeps ==
  ASSUME IInv, QueueCommand
  PROVE  IInv'
<1> USE DEF IInv
<1> DEFINE g == mailbox.command.generation + 1
           c == [kind |-> caller.kind, generation |-> g, seen |-> caller.seen,
                 session |-> link.session]
<1>1. UNCHANGED <<link, worker, imu, wire>> /\ caller' = Returned
  BY DEF QueueCommand
<1>2. mailbox.command.generation \in Nat /\ mailbox.command.generation < MaxQueued
  BY DEF QueueCommand, CallerInv, CallerAt, TypeOK, Mailbox, Command
<1>3. c \in Command
  BY <1>2 DEF TypeOK, Caller, Link, Command
<1>4. mailbox' = [mailbox EXCEPT !.pending = TRUE, !.command = c]
  BY DEF QueueCommand
<1>5. /\ c.generation = mailbox.command.generation + 1
      /\ c.session = link.session /\ c.kind = caller.kind
  OBVIOUS
<1> HIDE DEF c, g
<1>6. /\ mailbox' \in Mailbox
      /\ mailbox'.command = c /\ mailbox'.sent = mailbox.sent
  BY <1>3, <1>4 DEF TypeOK, Mailbox
<1>7. sink' \in [kind : Kinds, valid : BOOLEAN] /\ (sink'.valid => sink'.kind = caller.kind)
  BY DEF QueueCommand, Remembers, TypeOK, Caller, Kinds, Stops
<1>8. Returned \in Caller
  BY DEF Returned, Caller, Kinds, Stops, Sessions
<1>9. TypeOK' /\ CallerInv'
  BY <1>1, <1>6, <1>7, <1>8 DEF TypeOK, CallerInv, CallerAt, Returned
<1>10. MailboxInv' /\ SinkInv' /\ SentIsWritten'
  <2>1. mailbox.sent \in Nat
    BY DEF TypeOK, Mailbox
  <2> QED
    BY <1>1, <1>2, <1>5, <1>6, <1>7, <2>1 DEF MailboxInv, SinkInv, SentIsWritten
<1>11. WrittenInv'
  <2>1. worker.snapshot.generation \in Nat
    BY DEF TypeOK, Worker, Command
  <2> QED
    BY <1>1, <1>2, <1>5, <1>6, <2>1 DEF WrittenInv, WorkerAt
<1> QED
  BY <1>1, <1>9, <1>10, <1>11 DEF QueuedCommandsDie, SamplesOfOneSession

\* Time only ages what the link and the IMU hold.
LEMMA TimeKeeps ==
  ASSUME IInv, RxRunsOut \/ SyncRunsOut \/ SampleAges \/ BadRunsOut
  PROVE  IInv'
<1> USE DEF IInv
<1>1. UNCHANGED <<worker, mailbox, caller, sink, wire>>
  BY DEF RxRunsOut, SyncRunsOut, SampleAges, BadRunsOut
<1>2. link' \in Link /\ link'.session = link.session
  BY DEF RxRunsOut, SyncRunsOut, SampleAges, BadRunsOut, TypeOK, Link
<1>3. imu' \in Imu /\ SamplesOfOneSession'
  BY DEF RxRunsOut, SyncRunsOut, SampleAges, BadRunsOut, TypeOK, Imu, SamplesOfOneSession
<1>4. worker' \in Worker /\ caller' \in Caller /\ CallerInv'
  BY <1>1 DEF TypeOK, CallerInv, CallerAt
<1> QED
  BY <1>1, <1>2, <1>3, <1>4, QuietStepsKeep DEF WorkerAt

-----------------------------------------------------------------------------
(* The theorems. *)

LEMMA InitIsSound == Init => IInv
<1> SUFFICES ASSUME Init PROVE IInv
  OBVIOUS
<1>1. 0 \in 0 .. SyncsNeeded /\ 0 \in 0 .. MaxQueued /\ 0 \in Sessions
      /\ 0 \in 0 .. FramesPerRead /\ "STOP" \in Kinds
  BY DEF Sessions, Kinds, Stops
<1>2. TypeOK
  BY <1>1, NoCommandTyped DEF Init, TypeOK, Link, Worker, Mailbox, Imu, Caller, Returned
<1> QED
  BY <1>2 DEF Init, IInv, CallerInv, CallerAt, Returned, MailboxInv, WrittenInv, WorkerAt, SinkInv,
              SentIsWritten, QueuedCommandsDie, SamplesOfOneSession, NoCommand

LEMMA StepsKeep == IInv /\ [Next]_vars => IInv'
<1> SUFFICES ASSUME IInv, [Next]_vars PROVE IInv'
  OBVIOUS
<1>1. CASE WorkerStep
  BY <1>1, ReconnectionsKeep, SessionStepsKeep, WriteCommandKeeps, MarkSentKeeps DEF WorkerStep
<1>2. CASE CallerStep
  BY <1>2, CallersKeep, QueueCommandKeeps DEF CallerStep
<1>3. CASE RxRunsOut \/ SyncRunsOut \/ SampleAges \/ BadRunsOut
  BY <1>3, TimeKeeps
<1>4. CASE UNCHANGED vars
  BY <1>4 DEF vars, IInv, TypeOK, CallerInv, CallerAt, MailboxInv, WrittenInv, WorkerAt, SinkInv,
              SentIsWritten, QueuedCommandsDie, SamplesOfOneSession
<1> QED
  BY <1>1, <1>2, <1>3, <1>4 DEF Next

\* IInv is inductive.
THEOREM Soundness == Spec => []IInv
BY InitIsSound, StepsKeep, PTL DEF Spec

\* Every variable keeps its type.
THEOREM TypeCorrect == Spec => []TypeOK
<1>1. IInv => TypeOK
  BY DEF IInv
<1> QED
  BY <1>1, Soundness, PTL

\* controller_link.cpp 96-101: no command that was in the mailbox when a session ended
\* is written in a later one, however the resets fall among the writes.
THEOREM QueuedCommandsDieWithTheirSession == Spec => []QueuedCommandsDie
<1>1. IInv => QueuedCommandsDie
  BY DEF IInv
<1> QED
  BY <1>1, Soundness, PTL

\* controller_link.cpp 150-173, serial_imu.cpp 90-110: what is marked as sent was
\* written, and samples are read with the offset of their own session.
THEOREM TheBooksAreTrue == Spec => []BooksAreTrue
<1>1. IInv => BooksAreTrue
  BY DEF IInv, BooksAreTrue
<1> QED
  BY <1>1, Soundness, PTL

\* serial_gimbal_command_sink.cpp 90-131: an aiming command the sink says is in force
\* is the last one queued.
THEOREM TelemetryNamesTheLastQueued == Spec => []FeedbackIsQueued
<1>1. IInv => FeedbackIsQueued
  BY DEF IInv, SinkInv, FeedbackIsQueued
<1> QED
  BY <1>1, Soundness, PTL

\* controller_link.cpp 150-173: commands are written in the order in which they were
\* queued, and none twice, although the write is made outside the mutex and a command
\* may be queued, or the session reset, before it is marked.
WrittenOnceInOrder ==
  [][wire'.command # wire.command => wire'.command.generation > wire.command.generation]_wire

LEMMA OnlyOneStepWrites ==
  IInv /\ [Next]_vars
    => [wire'.command # wire.command
          => wire'.command.generation > wire.command.generation]_wire
<1> SUFFICES ASSUME IInv, [Next]_vars, wire' # wire
             PROVE  wire'.command # wire.command
                      => wire'.command.generation > wire.command.generation
  OBVIOUS
<1>1. WriteCommand
  BY DEF vars, Next, WorkerStep, CallerStep, ResetCallback, Open, Timeout, Request, MarkSent,
         Disconnect, Read, DropOther, Acknowledge, SyncReply, ClockJump, Attitude, Rewound, Beat,
         Send, SendRate, CheckSynchronized, QueueCommand,
         RxRunsOut, SyncRunsOut, SampleAges, BadRunsOut
<1> QED
  BY <1>1, WriteCommandKeeps

THEOREM CommandsAreWrittenOnceInOrder == Spec => WrittenOnceInOrder
BY OnlyOneStepWrites, Soundness, PTL DEF Spec, WrittenOnceInOrder
===============================================================================
