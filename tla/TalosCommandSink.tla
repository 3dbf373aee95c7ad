---------------------------- MODULE TalosCommandSink ----------------------------
(***************************************************************************)
(* Commands from the control thread to the Talos simulator, and the state  *)
(* of the gimbal back.  The sink fills its slot of the command buffer and  *)
(* offers it as the simulator offers frames (TripleBuffer), and reads the  *)
(* runtime state field by field between two looks at its time.  Every      *)
(* access to shared memory is a step.  A mutex makes the sink's calls one  *)
(* at a time.  The vision process may be killed, but not within Send's     *)
(* exchange, and started again.                                            *)
(***************************************************************************)
EXTENDS TripleBuffer

CONSTANTS
  MaxCommands, \* bound: commands that are sent
  MaxStates    \* bound: states of the gimbal the simulator publishes

VARIABLES
  buffer,  \* indices of the command triple buffer
  slots,   \* the command in each slot
  sink,    \* the sink of the vision process
  reader,  \* the simulator's end of the command buffer
  runtime, \* the runtime state in shared memory
  hist     \* history only

vars == <<buffer, slots, sink, reader, runtime, hist>>

\* A command has a number; valid: it asks the gimbal to follow.
Command == [id : Nat, valid : BOOLEAN]
Torn == [id |-> 0, valid |-> FALSE]

Attempts == 3

\* old: what the exchange returned; read: the attempts left at a snapshot, and what was
\* read of the state so far; snapshot: what the last call has read.
NoRead == [left |-> 0, before |-> 0, early |-> 0, late |-> 0]
ClosedSink ==
  [pc |-> "CLOSED", closing |-> FALSE, command |-> Torn, old |-> 0, read |-> NoRead,
   snapshot |-> NoRead]

SinkAt(pc) == sink.pc = pc

-----------------------------------------------------------------------------
(* The mapping. *)

\* The file must be there, of this protocol and complete; else nothing is kept.
Open ==
  /\ SinkAt("CLOSED")
  /\ sink' = [ClosedSink EXCEPT !.pc = "READY"]
  /\ UNCHANGED <<buffer, slots, reader, runtime, hist>>

Stop == [id |-> hist.sent + 1, valid |-> FALSE]

\* The mapping is closed without a last command.
Close_Silently ==
  /\ SinkAt("READY")
  /\ sink' = ClosedSink
  /\ hist' = [hist EXCEPT !.stopped = TRUE]
  /\ UNCHANGED <<buffer, slots, reader, runtime>>

\* Close sends a stop while the mapping is still there.  It gives the mutex back before
\* it unmaps, but only the destructor calls it, after the thread that sends was joined.
Close ==
  /\ SinkAt("READY")
  /\ hist.sent < MaxCommands
  /\ sink' = [ClosedSink EXCEPT !.pc = "WRITE", !.closing = TRUE, !.command = Stop]
  /\ hist' = [hist EXCEPT !.sent = @ + 1]
  /\ UNCHANGED <<buffer, slots, reader, runtime>>

CloseMapping ==
  /\ SinkAt("CLOSING")
  /\ sink' = ClosedSink
  /\ hist' = [hist EXCEPT !.stopped = TRUE]
  /\ UNCHANGED <<buffer, slots, reader, runtime>>

\* The process is killed outside of the exchange; a slot it was writing stays its own.
Kill ==
  /\ ~SinkAt("CLOSED") /\ ~SinkAt("STORE")
  /\ sink' = ClosedSink
  /\ UNCHANGED <<buffer, slots, reader, runtime, hist>>

-----------------------------------------------------------------------------
(* Send. *)

BeginSend(valid) ==
  /\ SinkAt("READY")
  /\ hist.sent < MaxCommands
  /\ sink' = [ClosedSink EXCEPT !.pc = "WRITE",
                               !.command = [id |-> hist.sent + 1, valid |-> valid]]
  /\ hist' = [hist EXCEPT !.sent = @ + 1, !.stopped = FALSE]
  /\ UNCHANGED <<buffer, slots, reader, runtime>>

\* The slot is cleared, then filled field by field.
ClearSlot ==
  /\ SinkAt("WRITE")
  /\ slots' = [slots EXCEPT ![buffer.write] = Torn]
  /\ sink' = [sink EXCEPT !.pc = "FILL"]
  /\ UNCHANGED <<buffer, reader, runtime, hist>>

FillSlot ==
  /\ SinkAt("FILL")
  /\ slots' = [slots EXCEPT ![buffer.write] = sink.command]
  /\ sink' = [sink EXCEPT !.pc = "EXCHANGE"]
  /\ UNCHANGED <<buffer, reader, runtime, hist>>

Exchange ==
  /\ SinkAt("EXCHANGE")
  /\ buffer' = Offered(buffer)
  /\ sink' = [sink EXCEPT !.pc = "STORE", !.old = buffer.state]
  /\ hist' = [hist EXCEPT !.offered = sink.command.id]
  /\ UNCHANGED <<slots, reader, runtime>>

\* The index stays the one that was just given away.
StoreIndex_Forgotten ==
  /\ SinkAt("STORE")
  /\ sink' = [ClosedSink EXCEPT !.pc = IF sink.closing THEN "CLOSING" ELSE "READY"]
  /\ UNCHANGED <<buffer, slots, reader, runtime, hist>>

StoreIndex ==
  /\ SinkAt("STORE")
  /\ buffer' = Rewound(buffer, sink.old)
  /\ sink' = [ClosedSink EXCEPT !.pc = IF sink.closing THEN "CLOSING" ELSE "READY"]
  /\ UNCHANGED <<slots, reader, runtime, hist>>

Send ==
  \/ \E valid \in BOOLEAN : BeginSend(valid)
  \/ ClearSlot \/ FillSlot \/ Exchange \/ StoreIndex

-----------------------------------------------------------------------------
(* ActuatorTelemetry and ExternalControlEnabled read the runtime state. *)

BeginRead ==
  /\ SinkAt("READY")
  /\ sink' = [ClosedSink EXCEPT !.pc = "BEFORE", !.read.left = Attempts]
  /\ UNCHANGED <<buffer, slots, reader, runtime, hist>>

\* After the last attempt there is no snapshot: the telemetry is not valid.
TryAgain ==
  sink' = IF sink.read.left = 1 THEN [ClosedSink EXCEPT !.pc = "READY"]
          ELSE [sink EXCEPT !.pc = "BEFORE", !.read = [NoRead EXCEPT !.left = sink.read.left - 1]]

Written_AnyTime == TRUE

\* A state without a time is being written.
Written == runtime.at # 0

LoadBefore ==
  /\ SinkAt("BEFORE")
  /\ IF Written THEN sink' = [sink EXCEPT !.pc = "EARLY", !.read.before = runtime.at]
     ELSE TryAgain
  /\ UNCHANGED <<buffer, slots, reader, runtime, hist>>

LoadEarly ==
  /\ SinkAt("EARLY")
  /\ sink' = [sink EXCEPT !.pc = "LATE", !.read.early = runtime.early]
  /\ UNCHANGED <<buffer, slots, reader, runtime, hist>>

LoadLate ==
  /\ SinkAt("LATE")
  /\ sink' = [sink EXCEPT !.pc = "AFTER", !.read.late = runtime.late]
  /\ UNCHANGED <<buffer, slots, reader, runtime, hist>>

\* The state is only accepted if its time has not changed.
LoadAfter ==
  /\ SinkAt("AFTER")
  /\ IF runtime.at = sink.read.before
     THEN sink' = [ClosedSink EXCEPT !.pc = "READY", !.snapshot = sink.read]
     ELSE TryAgain
  /\ UNCHANGED <<buffer, slots, reader, runtime, hist>>

ReadRuntimeState == BeginRead \/ LoadBefore \/ LoadEarly \/ LoadLate \/ LoadAfter

-----------------------------------------------------------------------------
(* The simulator (external).  It takes commands as the camera takes frames, *)
(* and publishes a state by clearing its time first and setting it last.    *)

ReaderAt(pc) == reader.pc = pc

TakeCommand ==
  /\ ReaderAt("IDLE") /\ buffer.fresh
  /\ reader' = [reader EXCEPT !.pc = "STORE", !.ready = buffer.state, !.due = hist.offered]
  /\ buffer' = Taken(buffer)
  /\ UNCHANGED <<slots, sink, runtime, hist>>

StoreReadIndex ==
  /\ ReaderAt("STORE")
  /\ reader' = [reader EXCEPT !.pc = "COPY"]
  /\ buffer' = Advanced(buffer, reader.ready)
  /\ UNCHANGED <<slots, sink, runtime, hist>>

BeginCopy ==
  /\ ReaderAt("COPY")
  /\ reader' = [reader EXCEPT !.pc = "COPIED", !.copy = slots[reader.ready]]
  /\ UNCHANGED <<buffer, slots, sink, runtime, hist>>

\* A command that was overwritten in between is torn.
EndCopy ==
  /\ ReaderAt("COPIED")
  /\ reader' = [reader EXCEPT !.pc = "IDLE",
                  !.copy = IF slots[reader.ready] = reader.copy THEN @ ELSE Torn]
  /\ UNCHANGED <<buffer, slots, sink, runtime, hist>>

PublishState ==
  /\ \/ /\ runtime.at = runtime.late /\ runtime.at < MaxStates
        /\ runtime' = [runtime EXCEPT !.at = 0, !.next = runtime.at + 1]
     \/ /\ runtime.early # runtime.next
        /\ runtime' = [runtime EXCEPT !.early = runtime.next]
     \/ /\ runtime.early = runtime.next /\ runtime.late # runtime.next
        /\ runtime' = [runtime EXCEPT !.late = runtime.next]
     \/ /\ runtime.late = runtime.next /\ runtime.at # runtime.next
        /\ runtime' = [runtime EXCEPT !.at = runtime.next]
  /\ UNCHANGED <<buffer, slots, sink, reader, hist>>

-----------------------------------------------------------------------------
Init ==
  /\ buffer = FreshBuffer
  /\ slots = [i \in Index |-> Torn]
  /\ sink = ClosedSink
  /\ reader = [pc |-> "IDLE", ready |-> 0, copy |-> Torn, due |-> 0]
  /\ runtime = [at |-> 0, early |-> 0, late |-> 0, next |-> 0]
  /\ hist = [sent |-> 0, offered |-> 0, stopped |-> FALSE]

Next ==
  \/ Open \/ Close \/ CloseMapping \/ Kill \/ Send \/ ReadRuntimeState
  \/ TakeCommand \/ StoreReadIndex \/ BeginCopy \/ EndCopy \/ PublishState

Spec == Init /\ [][Next]_vars

-----------------------------------------------------------------------------
(* Properties *)

\* What the simulator has read is the command that was the newest when it took it, whole:
\* no command is written over while it is read, be the vision process killed over a
\* half-written slot and started again.
CommandsAreWhole ==
  ReaderAt("IDLE") => reader.copy.id = reader.due

\* Once the sink was closed in order and the simulator has read all there is, the last
\* command it knows is the stop.
ClosedGimbalIsStopped ==
  hist.stopped /\ SinkAt("CLOSED") /\ ReaderAt("IDLE") /\ ~buffer.fresh =>
    ~reader.copy.valid /\ reader.due = hist.offered

\* A snapshot of the runtime state is one state, published as a whole.
SnapshotsAreWhole ==
  /\ sink.snapshot.early = sink.snapshot.before
  /\ sink.snapshot.late = sink.snapshot.before

\* Commands and states cross the shared memory whole, and the last word is a stop.
SinkIsSound == CommandsAreWhole /\ ClosedGimbalIsStopped /\ SnapshotsAreWhole
================================================================================
