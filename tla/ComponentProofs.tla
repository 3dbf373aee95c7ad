----------------------------- MODULE ComponentProofs -----------------------------
(***************************************************************************)
(* Theorems about the components that MCPrograms runs one at a time, each  *)
(* for every value of its constants and under its own variables: the Talos *)
(* command sink, the web page, the reload of the gimbal tuning, the        *)
(* application, the three calibrations, the gimbal feedback estimator, the *)
(* MindVision camera, the three stages of the vision front end and the     *)
(* evaluator of the simulation.                                            *)
(* Every part has the inductive invariant of one component, that its steps *)
(* keep it, and the theorem.  The sink's definitions go by their own       *)
(* names; `poll` is the reader of the reload, for the sink has one too.    *)
(***************************************************************************)
EXTENDS TalosCommandSink, Integers, FiniteSetTheorems, SequenceTheorems, WellFoundedInduction, TLAPS

-----------------------------------------------------------------------------
\* The indices of a sequence are finitely many, as many as its length; several parts count by it.
LEMMA IndicesAreCounted ==
  ASSUME NEW n \in Nat
  PROVE  IsFiniteSet(1 .. n) /\ Cardinality(1 .. n) = n
<1>1. 1 \in Int /\ n \in Int
  OBVIOUS
<1>2. IsFiniteSet(1 .. n) /\ Cardinality(1 .. n) = IF 1 > n THEN 0 ELSE n - 1 + 1
  BY <1>1, FS_Interval, SMTT(60)
<1> QED BY <1>2

-----------------------------------------------------------------------------
(* The Talos command sink: the inductive invariant. *)

Writing == {"WRITE", "FILL", "EXCHANGE", "STORE"}
Reading == {"BEFORE", "EARLY", "LATE", "AFTER"}
Read == [left : Nat, before : Nat, early : Nat, late : Nat]

Sinks ==
  [pc : {"CLOSED", "READY", "CLOSING"} \cup Writing \cup Reading, closing : BOOLEAN,
   command : Command, old : Index, read : Read, snapshot : Read]

Readers ==
  [pc : {"IDLE", "STORE", "COPY", "COPIED"}, ready : Index, copy : Command, due : Nat]

TypeInv ==
  /\ buffer \in Buffer /\ slots \in [Index -> Command]
  /\ sink \in Sinks /\ reader \in Readers
  /\ runtime \in [at : Nat, early : Nat, late : Nat, next : Nat]
  /\ hist \in [sent : Nat, offered : Nat, stopped : BOOLEAN]
  /\ sink.pc \in Reading => sink.read.left # 0

\* The slot each side owns; within its exchange the index it has stored is stale.
Producers == IF SinkAt("STORE") THEN sink.old ELSE buffer.write
Consumers == IF ReaderAt("STORE") THEN reader.ready ELSE buffer.read

SlotsApart == Apart(Producers, buffer.state, Consumers)

\* What the slots hold: the command that is due where the simulator reads, and the one
\* offered last in the state while it is new.
ContentInv ==
  /\ SinkAt("EXCHANGE") => slots[buffer.write] = sink.command
  /\ buffer.fresh => slots[buffer.state].id = hist.offered
  /\ ~buffer.fresh => reader.due = hist.offered
  /\ ReaderAt("IDLE") => reader.copy.id = reader.due
  /\ ~ReaderAt("IDLE") =>
       reader.ready = Consumers /\ slots[reader.ready].id = reader.due
  /\ ReaderAt("COPIED") => reader.copy = slots[reader.ready]

\* The command offered last, wherever it is by now.
Latest ==
  IF buffer.fresh THEN slots[buffer.state]
  ELSE IF ReaderAt("IDLE") THEN reader.copy ELSE slots[reader.ready]

\* A sink that is closing offers nothing but its stop, and after it nothing.
StopInv ==
  /\ sink.closing => sink.pc \in Writing /\ ~sink.command.valid
  /\ hist.stopped /\ sink.pc \in Writing => ~sink.command.valid
  /\ hist.stopped \/ SinkAt("CLOSING") \/ (SinkAt("STORE") /\ sink.closing) => ~Latest.valid

\* The simulator's writing of a state, whose times never return.
RuntimeInv ==
  /\ runtime.late <= runtime.next /\ runtime.next <= runtime.late + 1
  /\ runtime.at # 0 =>
       runtime.at = runtime.next /\ runtime.early = runtime.next /\ runtime.late = runtime.next
  /\ runtime.late = runtime.next => runtime.early = runtime.next

\* While the time it looked at first is that of the newest state, what the sink has read
\* since is of that state.
ReadInv ==
  /\ SnapshotsAreWhole
  /\ sink.pc \in {"EARLY", "LATE", "AFTER"} =>
       /\ sink.read.before # 0 /\ sink.read.before <= runtime.next
       /\ sink.read.before = runtime.next =>
            /\ runtime.at = runtime.next
            /\ SinkAt("LATE") => sink.read.early = sink.read.before
            /\ SinkAt("AFTER") =>
                 sink.read.early = sink.read.before /\ sink.read.late = sink.read.before

IInv == TypeInv /\ SlotsApart /\ ContentInv /\ StopInv /\ RuntimeInv /\ ReadInv

-----------------------------------------------------------------------------
(* Type correctness. *)

LEMMA ClosedSinkFacts ==
  /\ ClosedSink \in Sinks /\ Torn \in Command /\ NoRead \in Read
  /\ ClosedSink.pc = "CLOSED" /\ ClosedSink.closing = FALSE /\ ClosedSink.command = Torn
  /\ ClosedSink.read = NoRead /\ ClosedSink.snapshot = NoRead
  BY DEF ClosedSink, Sinks, Torn, Command, NoRead, Read, Index

LEMMA InitType == Init => TypeInv
<1> SUFFICES ASSUME Init PROVE TypeInv
  OBVIOUS
<1>1. buffer \in Buffer
  BY DEF Init, FreshBuffer, Buffer, Index
<1>2. slots \in [Index -> Command] /\ sink \in Sinks
  BY ClosedSinkFacts DEF Init
<1>3. reader \in Readers
  BY ClosedSinkFacts DEF Init, Readers, Index
<1> QED BY <1>1, <1>2, <1>3, ClosedSinkFacts DEF TypeInv, Init, Reading

LEMMA BufferFacts ==
  ASSUME NEW b \in Buffer, NEW i \in Index
  PROVE  /\ Offered(b) \in Buffer /\ Offered(b).state = b.write /\ Offered(b).fresh
         /\ Offered(b).write = b.write /\ Offered(b).read = b.read
         /\ Rewound(b, i) \in Buffer /\ Rewound(b, i).write = i /\ Rewound(b, i).state = b.state
         /\ Rewound(b, i).read = b.read /\ (Rewound(b, i).fresh <=> b.fresh)
         /\ Taken(b) \in Buffer /\ Taken(b).state = b.read /\ ~Taken(b).fresh
         /\ Taken(b).write = b.write /\ Taken(b).read = b.read
         /\ Advanced(b, i) \in Buffer /\ Advanced(b, i).read = i
         /\ Advanced(b, i).state = b.state /\ Advanced(b, i).write = b.write
         /\ (Advanced(b, i).fresh <=> b.fresh)
<1>1. /\ Offered(b) \in Buffer /\ Offered(b).state = b.write /\ Offered(b).fresh = TRUE
      /\ Offered(b).write = b.write /\ Offered(b).read = b.read
  BY DEF Offered, Buffer
<1>2. /\ Rewound(b, i) \in Buffer /\ Rewound(b, i).write = i /\ Rewound(b, i).state = b.state
      /\ Rewound(b, i).read = b.read /\ Rewound(b, i).fresh = b.fresh
  BY DEF Rewound, Buffer
<1>3. /\ Taken(b) \in Buffer /\ Taken(b).state = b.read /\ Taken(b).fresh = FALSE
      /\ Taken(b).write = b.write /\ Taken(b).read = b.read
  BY DEF Taken, Buffer
<1>4. /\ Advanced(b, i) \in Buffer /\ Advanced(b, i).read = i
      /\ Advanced(b, i).state = b.state /\ Advanced(b, i).write = b.write
      /\ Advanced(b, i).fresh = b.fresh
  BY DEF Advanced, Buffer
<1> QED BY <1>1, <1>2, <1>3, <1>4

\* The sink's calls that touch no shared memory.
Local == Open \/ Close \/ CloseMapping \/ Kill \/ (\E valid \in BOOLEAN : BeginSend(valid))

\* What such a call leaves of the sink.
LEMMA LocalFacts ==
  ASSUME TypeInv, Local
  PROVE  /\ UNCHANGED <<buffer, slots, reader, runtime>>
         /\ ~SinkAt("STORE") /\ sink' \in Sinks
         /\ sink'.read = NoRead /\ sink'.snapshot = NoRead
         /\ hist' \in [sent : Nat, offered : Nat, stopped : BOOLEAN]
         /\ hist'.offered = hist.offered
         /\ \/ /\ sink'.pc \in {"CLOSED", "READY"} /\ sink'.closing = FALSE
               /\ hist'.stopped = hist.stopped \/ SinkAt("CLOSING")
            \/ /\ sink'.pc = "WRITE"
               /\ sink'.closing = TRUE => ~sink'.command.valid /\ hist'.stopped = hist.stopped
               /\ sink'.closing = FALSE => hist'.stopped = FALSE
<1> DEFINE sent == hist.sent + 1
<1>1. sent \in Nat
  BY DEF TypeInv
<1>2. CASE Open
  <2>1. sink' = [ClosedSink EXCEPT !.pc = "READY"] /\ UNCHANGED <<buffer, slots, reader, runtime, hist>>
        /\ ~SinkAt("STORE")
    BY <1>2 DEF Open, SinkAt
  <2> QED BY <2>1, ClosedSinkFacts DEF Sinks, TypeInv
<1>3. CASE Close
  <2>1. Stop \in Command /\ Stop.valid = FALSE
    BY <1>1 DEF Stop, Command
  <2>2. /\ sink' = [ClosedSink EXCEPT !.pc = "WRITE", !.closing = TRUE, !.command = Stop]
        /\ hist' = [hist EXCEPT !.sent = sent]
        /\ UNCHANGED <<buffer, slots, reader, runtime>> /\ ~SinkAt("STORE")
    BY <1>3 DEF Close, SinkAt, TypeInv
  <2>3. /\ sink' \in Sinks /\ sink'.pc = "WRITE" /\ sink'.closing = TRUE /\ sink'.command = Stop
        /\ sink'.read = NoRead /\ sink'.snapshot = NoRead
    BY <2>1, <2>2, ClosedSinkFacts DEF Sinks, Writing
  <2> HIDE DEF sent
  <2>4. /\ hist' \in [sent : Nat, offered : Nat, stopped : BOOLEAN]
        /\ hist'.offered = hist.offered /\ hist'.stopped = hist.stopped
    BY <1>1, <2>2 DEF TypeInv
  <2> QED BY <2>1, <2>2, <2>3, <2>4
<1>4. CASE CloseMapping
  <2>1. /\ sink' = ClosedSink /\ hist' = [hist EXCEPT !.stopped = TRUE]
        /\ SinkAt("CLOSING") /\ ~SinkAt("STORE") /\ UNCHANGED <<buffer, slots, reader, runtime>>
    BY <1>4 DEF CloseMapping, SinkAt
  <2>2. /\ hist' \in [sent : Nat, offered : Nat, stopped : BOOLEAN]
        /\ hist'.offered = hist.offered /\ hist'.stopped = TRUE
    BY <2>1 DEF TypeInv
  <2> QED BY <2>1, <2>2, ClosedSinkFacts
<1>5. CASE Kill
  <2>1. sink' = ClosedSink /\ UNCHANGED <<buffer, slots, reader, runtime, hist>> /\ ~SinkAt("STORE")
    BY <1>5 DEF Kill
  <2> QED BY <2>1, ClosedSinkFacts DEF TypeInv
<1>6. ASSUME NEW valid \in BOOLEAN, BeginSend(valid)
      PROVE  /\ UNCHANGED <<buffer, slots, reader, runtime>>
             /\ ~SinkAt("STORE") /\ sink' \in Sinks
             /\ sink'.read = NoRead /\ sink'.snapshot = NoRead
             /\ hist' \in [sent : Nat, offered : Nat, stopped : BOOLEAN]
             /\ hist'.offered = hist.offered /\ hist'.stopped = FALSE
             /\ sink'.pc = "WRITE" /\ sink'.closing = FALSE
  <2> DEFINE c == [id |-> hist.sent + 1, valid |-> valid]
  <2>1. c \in Command
    BY <1>1 DEF Command
  <2>2. /\ sink' = [ClosedSink EXCEPT !.pc = "WRITE", !.command = c]
        /\ hist' = [hist EXCEPT !.sent = sent, !.stopped = FALSE]
        /\ UNCHANGED <<buffer, slots, reader, runtime>> /\ ~SinkAt("STORE")
    BY <1>6 DEF BeginSend, SinkAt, TypeInv
  <2> HIDE DEF c, sent
  <2>3. /\ sink' \in Sinks /\ sink'.pc = "WRITE" /\ sink'.closing = FALSE
        /\ sink'.read = NoRead /\ sink'.snapshot = NoRead
    BY <2>1, <2>2, ClosedSinkFacts DEF Sinks, Writing
  <2>4. /\ hist' \in [sent : Nat, offered : Nat, stopped : BOOLEAN]
        /\ hist'.offered = hist.offered /\ hist'.stopped = FALSE
    BY <1>1, <2>2 DEF TypeInv
  <2> QED BY <2>2, <2>3, <2>4
<1> HIDE DEF sent
<1> QED BY <1>2, <1>3, <1>4, <1>5, <1>6 DEF Local

\* What a step of a reading call leaves: the attempt given up or begun, or one more field
\* of it read.
LEMMA ReadingFacts ==
  ASSUME TypeInv, ReadRuntimeState, sink.closing => sink.pc \in Writing
  PROVE  /\ UNCHANGED <<buffer, slots, reader, runtime, hist>>
         /\ sink.pc \in {"READY"} \cup Reading
         /\ sink' \in Sinks /\ sink'.closing = FALSE
         /\ \/ sink'.pc = "READY" /\ sink'.snapshot = NoRead
            \/ /\ SinkAt("AFTER") /\ sink.read.before = runtime.at
               /\ sink'.pc = "READY" /\ sink'.snapshot = sink.read
            \/ /\ sink'.pc = "BEFORE" /\ sink'.read.left # 0
               /\ sink'.snapshot \in {NoRead, sink.snapshot}
            \/ /\ sink.pc \in Reading /\ sink'.snapshot = sink.snapshot
               /\ sink'.read.left = sink.read.left
               /\ \/ /\ Written /\ sink'.pc = "EARLY" /\ sink'.read.before = runtime.at
                  \/ /\ SinkAt("EARLY") /\ sink'.pc = "LATE"
                     /\ sink'.read.before = sink.read.before /\ sink'.read.early = runtime.early
                  \/ /\ SinkAt("LATE") /\ sink'.pc = "AFTER"
                     /\ sink'.read.before = sink.read.before
                     /\ sink'.read.early = sink.read.early /\ sink'.read.late = runtime.late
<1>1. /\ UNCHANGED <<buffer, slots, reader, runtime, hist>>
      /\ sink.pc \in {"READY"} \cup Reading
  BY DEF ReadRuntimeState, BeginRead, LoadBefore, LoadEarly, LoadLate, LoadAfter, SinkAt, Reading
<1>2. /\ sink \in Sinks /\ runtime \in [at : Nat, early : Nat, late : Nat, next : Nat]
      /\ sink.pc \in Reading => sink.read.left # 0
  BY DEF TypeInv
<1>3. sink.read \in Read /\ sink.snapshot \in Read
  BY <1>2 DEF Sinks
<1>4. sink.closing = FALSE
  BY <1>1, <1>2 DEF Reading, Writing, Sinks
<1>5. ASSUME BeginRead
      PROVE  /\ sink' \in Sinks /\ sink'.pc = "BEFORE" /\ sink'.closing = FALSE
             /\ sink'.read.left # 0 /\ sink'.snapshot = NoRead
  <2> DEFINE r == [NoRead EXCEPT !.left = Attempts]
  <2>1. r \in Read /\ r.left # 0
    BY ClosedSinkFacts DEF Read, Attempts
  <2>2. sink' = [ClosedSink EXCEPT !.pc = "BEFORE", !.read = r]
    BY <1>5, ClosedSinkFacts DEF BeginRead, ClosedSink
  <2> HIDE DEF r
  <2> QED BY <2>1, <2>2, ClosedSinkFacts DEF Sinks, Reading
<1>6. ASSUME TryAgain, sink.pc \in Reading
      PROVE  /\ sink' \in Sinks /\ sink'.closing = FALSE
             /\ \/ sink'.pc = "READY" /\ sink'.snapshot = NoRead
                \/ /\ sink'.pc = "BEFORE" /\ sink'.read.left # 0
                   /\ sink'.snapshot = sink.snapshot
  <2>1. CASE sink.read.left = 1
    <3>1. sink' = [ClosedSink EXCEPT !.pc = "READY"]
      BY <1>6, <2>1 DEF TryAgain
    <3> QED BY <3>1, ClosedSinkFacts DEF Sinks
  <2>2. CASE sink.read.left # 1
    <3> DEFINE left == sink.read.left - 1
               r == [NoRead EXCEPT !.left = left]
    <3>1. left \in Nat /\ left # 0
      BY <1>2, <1>3, <1>6, <2>2 DEF Read
    <3>2. sink' = [sink EXCEPT !.pc = "BEFORE", !.read = r]
      BY <1>6, <2>2 DEF TryAgain
    <3> HIDE DEF left
    <3>3. r \in Read /\ r.left # 0
      BY <3>1, ClosedSinkFacts DEF Read
    <3> HIDE DEF r
    <3> QED BY <3>2, <3>3, <1>2, <1>4 DEF Sinks, Reading
  <2> QED BY <2>1, <2>2
<1>7. CASE LoadBefore
  <2>1. CASE Written
    <3> DEFINE at == runtime.at
               r == [sink.read EXCEPT !.before = at]
    <3>1. at \in Nat
      BY <1>2
    <3>2. sink' = [sink EXCEPT !.pc = "EARLY", !.read = r] /\ SinkAt("BEFORE")
      BY <1>7, <2>1, <1>2 DEF LoadBefore, Sinks
    <3> HIDE DEF at
    <3>3. r \in Read /\ r.before = at /\ r.left = sink.read.left
      BY <3>1, <1>3 DEF Read
    <3> HIDE DEF r
    <3>4. /\ sink' \in Sinks /\ sink'.pc = "EARLY" /\ sink'.closing = FALSE /\ sink'.read = r
          /\ sink'.snapshot = sink.snapshot
      BY <3>2, <3>3, <1>2, <1>4 DEF Sinks, Reading
    <3> QED BY <3>2, <3>3, <3>4, <1>1, <2>1 DEF at, SinkAt, Reading
  <2>2. CASE ~Written
    <3>1. TryAgain /\ sink.pc \in Reading
      BY <1>7, <2>2 DEF LoadBefore, SinkAt, Reading
    <3> QED BY <3>1, <1>1, <1>6
  <2> QED BY <2>1, <2>2
<1>8. CASE LoadEarly
  <2> DEFINE early == runtime.early
             r == [sink.read EXCEPT !.early = early]
  <2>1. early \in Nat
    BY <1>2
  <2>2. sink' = [sink EXCEPT !.pc = "LATE", !.read = r] /\ SinkAt("EARLY")
    BY <1>8, <1>2 DEF LoadEarly, Sinks
  <2> HIDE DEF early
  <2>3. r \in Read /\ r.early = early /\ r.before = sink.read.before /\ r.left = sink.read.left
    BY <2>1, <1>3 DEF Read
  <2> HIDE DEF r
  <2>4. /\ sink' \in Sinks /\ sink'.pc = "LATE" /\ sink'.closing = FALSE /\ sink'.read = r
        /\ sink'.snapshot = sink.snapshot
    BY <2>2, <2>3, <1>2, <1>4 DEF Sinks, Reading
  <2> QED BY <2>2, <2>3, <2>4, <1>1 DEF early, SinkAt, Reading
<1>9. CASE LoadLate
  <2> DEFINE late == runtime.late
             r == [sink.read EXCEPT !.late = late]
  <2>1. late \in Nat
    BY <1>2
  <2>2. sink' = [sink EXCEPT !.pc = "AFTER", !.read = r] /\ SinkAt("LATE")
    BY <1>9, <1>2 DEF LoadLate, Sinks
  <2> HIDE DEF late
  <2>3. /\ r \in Read /\ r.late = late /\ r.before = sink.read.before
        /\ r.early = sink.read.early /\ r.left = sink.read.left
    BY <2>1, <1>3 DEF Read
  <2> HIDE DEF r
  <2>4. /\ sink' \in Sinks /\ sink'.pc = "AFTER" /\ sink'.closing = FALSE /\ sink'.read = r
        /\ sink'.snapshot = sink.snapshot
    BY <2>2, <2>3, <1>2, <1>4 DEF Sinks, Reading
  <2> QED BY <2>2, <2>3, <2>4, <1>1 DEF late, SinkAt, Reading
<1>10. CASE LoadAfter
  <2>1. CASE runtime.at = sink.read.before
    <3>1. sink' = [ClosedSink EXCEPT !.pc = "READY", !.snapshot = sink.read] /\ SinkAt("AFTER")
      BY <1>10, <2>1 DEF LoadAfter
    <3>2. /\ sink' \in Sinks /\ sink'.pc = "READY" /\ sink'.closing = FALSE
          /\ sink'.snapshot = sink.read
      BY <3>1, <1>3, ClosedSinkFacts DEF Sinks
    <3> QED BY <3>1, <3>2, <1>1, <2>1
  <2>2. CASE runtime.at # sink.read.before
    <3>1. TryAgain /\ sink.pc \in Reading
      BY <1>10, <2>2 DEF LoadAfter, SinkAt, Reading
    <3> QED BY <3>1, <1>1, <1>6
  <2> QED BY <2>1, <2>2
<1> QED BY <1>1, <1>5, <1>7, <1>8, <1>9, <1>10 DEF ReadRuntimeState
-----------------------------------------------------------------------------
(* The parts of the invariant, step by step. *)

LEMMA InitIInv == Init => IInv
<1> SUFFICES ASSUME Init PROVE IInv
  OBVIOUS
<1>1. TypeInv
  BY InitType
<1>2. SlotsApart
  BY DEF Init, FreshBuffer, ClosedSink, SlotsApart, Apart, Producers, Consumers, SinkAt, ReaderAt
<1>3. ContentInv
  BY DEF Init, FreshBuffer, ClosedSink, Torn, ContentInv, SinkAt, ReaderAt
<1>4. StopInv
  BY DEF Init, ClosedSink, StopInv, SinkAt, Writing
<1>5. RuntimeInv
  BY DEF Init, RuntimeInv
<1>6. ReadInv
  BY ClosedSinkFacts DEF Init, ReadInv, SnapshotsAreWhole, NoRead
<1> QED BY <1>1, <1>2, <1>3, <1>4, <1>5, <1>6 DEF IInv

\* The sink's steps away from the slots move nothing of what the slots hold.
LEMMA AwayFromTheSlots ==
  ASSUME IInv, UNCHANGED <<buffer, slots, reader, runtime>>, ~SinkAt("STORE"),
         sink'.pc \notin {"STORE", "EXCHANGE"}, hist'.offered = hist.offered
  PROVE  SlotsApart' /\ ContentInv' /\ RuntimeInv' /\ Latest' = Latest
<1>1. SlotsApart'
  BY DEF IInv, SlotsApart, Producers, Consumers, SinkAt, ReaderAt
<1>2. ContentInv'
  BY DEF IInv, ContentInv, Consumers, SinkAt, ReaderAt
<1>3. RuntimeInv'
  BY DEF IInv, RuntimeInv
<1>4. Latest' = Latest
  BY DEF Latest, ReaderAt
<1> QED BY <1>1, <1>2, <1>3, <1>4

LEMMA LocalStep == IInv /\ Local => IInv'
<1> SUFFICES ASSUME IInv, Local PROVE IInv'
  OBVIOUS
<1>1. /\ UNCHANGED <<buffer, slots, reader, runtime>>
      /\ ~SinkAt("STORE") /\ sink' \in Sinks
      /\ sink'.read = NoRead /\ sink'.snapshot = NoRead
      /\ hist' \in [sent : Nat, offered : Nat, stopped : BOOLEAN]
      /\ hist'.offered = hist.offered
      /\ \/ /\ sink'.pc \in {"CLOSED", "READY"} /\ sink'.closing = FALSE
            /\ hist'.stopped = hist.stopped \/ SinkAt("CLOSING")
         \/ /\ sink'.pc = "WRITE"
            /\ sink'.closing = TRUE => ~sink'.command.valid /\ hist'.stopped = hist.stopped
            /\ sink'.closing = FALSE => hist'.stopped = FALSE
  BY LocalFacts DEF IInv
<1>2. TypeInv'
  BY <1>1 DEF IInv, TypeInv, Reading
<1>3. SlotsApart' /\ ContentInv' /\ RuntimeInv' /\ Latest' = Latest
  BY <1>1, AwayFromTheSlots
<1>4. sink'.closing \in BOOLEAN
  BY <1>1 DEF Sinks
<1>5. StopInv'
  <2>1. CASE sink'.pc \in {"CLOSED", "READY"} /\ sink'.closing = FALSE
             /\ (hist'.stopped = hist.stopped \/ SinkAt("CLOSING"))
    BY <2>1, <1>3 DEF IInv, StopInv, SinkAt, Writing
  <2>2. CASE /\ sink'.pc = "WRITE"
             /\ sink'.closing = TRUE => ~sink'.command.valid /\ hist'.stopped = hist.stopped
             /\ sink'.closing = FALSE => hist'.stopped = FALSE
    BY <2>2, <1>3, <1>4 DEF IInv, StopInv, SinkAt, Writing
  <2> QED BY <1>1, <2>1, <2>2
<1>6. ReadInv'
  BY <1>1, ClosedSinkFacts DEF ReadInv, SnapshotsAreWhole, NoRead
<1> QED BY <1>2, <1>3, <1>5, <1>6 DEF IInv

LEMMA ReadingStep == IInv /\ ReadRuntimeState => IInv'
<1> SUFFICES ASSUME IInv, ReadRuntimeState PROVE IInv'
  OBVIOUS
<1> DEFINE GaveUp == sink'.pc = "READY" /\ sink'.snapshot = NoRead
           Accepted == /\ SinkAt("AFTER") /\ sink.read.before = runtime.at
                       /\ sink'.pc = "READY" /\ sink'.snapshot = sink.read
           Tries == /\ sink'.pc = "BEFORE" /\ sink'.read.left # 0
                    /\ sink'.snapshot \in {NoRead, sink.snapshot}
           Goes == /\ sink.pc \in Reading /\ sink'.snapshot = sink.snapshot
                   /\ sink'.read.left = sink.read.left
           Before == Written /\ sink'.pc = "EARLY" /\ sink'.read.before = runtime.at
           Early == /\ SinkAt("EARLY") /\ sink'.pc = "LATE"
                    /\ sink'.read.before = sink.read.before /\ sink'.read.early = runtime.early
           Late == /\ SinkAt("LATE") /\ sink'.pc = "AFTER"
                   /\ sink'.read.before = sink.read.before
                   /\ sink'.read.early = sink.read.early /\ sink'.read.late = runtime.late
<1>1. /\ UNCHANGED <<buffer, slots, reader, runtime, hist>>
      /\ sink.pc \in {"READY"} \cup Reading
      /\ sink' \in Sinks /\ sink'.closing = FALSE
      /\ GaveUp \/ Accepted \/ Tries \/ (Goes /\ (Before \/ Early \/ Late))
  <2>1. TypeInv /\ (sink.closing => sink.pc \in Writing)
    BY DEF IInv, StopInv
  <2> QED BY <2>1, ReadingFacts
<1>2. ~SinkAt("STORE") /\ ~SinkAt("CLOSING") /\ sink'.pc \in {"READY"} \cup Reading
  BY <1>1 DEF SinkAt, Reading
<1>3. TypeInv'
  <2>1. sink'.pc \in Reading => sink'.read.left # 0
    BY <1>1 DEF IInv, TypeInv, Reading
  <2> QED BY <1>1, <2>1 DEF IInv, TypeInv
<1>4. SlotsApart' /\ ContentInv' /\ RuntimeInv' /\ Latest' = Latest
  BY <1>1, <1>2, AwayFromTheSlots DEF Reading
<1>5. StopInv'
  BY <1>1, <1>2, <1>4 DEF IInv, StopInv, SinkAt, Writing, Reading
<1>6. runtime' = runtime /\ runtime \in [at : Nat, early : Nat, late : Nat, next : Nat]
  BY <1>1 DEF IInv, TypeInv
<1>7. /\ SnapshotsAreWhole
      /\ sink.pc \in {"EARLY", "LATE", "AFTER"} =>
           /\ sink.read.before # 0 /\ sink.read.before <= runtime.next
           /\ sink.read.before = runtime.next =>
                /\ runtime.at = runtime.next
                /\ SinkAt("LATE") => sink.read.early = sink.read.before
                /\ SinkAt("AFTER") =>
                     sink.read.early = sink.read.before /\ sink.read.late = sink.read.before
  BY DEF IInv, ReadInv
<1>8. runtime.at # 0 =>
        runtime.at = runtime.next /\ runtime.early = runtime.next /\ runtime.late = runtime.next
  BY DEF IInv, RuntimeInv
<1>9. ReadInv'
  <2>1. CASE GaveUp
    BY <2>1, ClosedSinkFacts DEF ReadInv, SnapshotsAreWhole, NoRead
  <2>2. CASE Accepted
    BY <2>2, <1>7, <1>8 DEF ReadInv, SnapshotsAreWhole, SinkAt
  <2>3. CASE Tries
    BY <2>3, <1>7 DEF ReadInv, SnapshotsAreWhole, NoRead
  <2>4. CASE Goes /\ Before
    BY <2>4, <1>6, <1>7, <1>8 DEF ReadInv, SnapshotsAreWhole, SinkAt, Written
  <2>5. CASE Goes /\ Early
    BY <2>5, <1>6, <1>7, <1>8 DEF ReadInv, SnapshotsAreWhole, SinkAt
  <2>6. CASE Goes /\ Late
    BY <2>6, <1>6, <1>7, <1>8 DEF ReadInv, SnapshotsAreWhole, SinkAt
  <2> QED BY <1>1, <2>1, <2>2, <2>3, <2>4, <2>5, <2>6
<1> QED BY <1>3, <1>4, <1>5, <1>9 DEF IInv

\* The sink fills its own slot: the state and the simulator's stay as they are.
LEMMA WriteStep == IInv /\ (ClearSlot \/ FillSlot) => IInv'
<1> SUFFICES ASSUME IInv, ClearSlot \/ FillSlot PROVE IInv'
  OBVIOUS
<1> DEFINE command == IF SinkAt("WRITE") THEN Torn ELSE sink.command
           pc == IF SinkAt("WRITE") THEN "FILL" ELSE "EXCHANGE"
<1>1. /\ sink \in Sinks /\ sink.command \in Command /\ slots \in [Index -> Command]
      /\ buffer \in Buffer /\ buffer.write \in Index /\ buffer.state \in Index
      /\ buffer.fresh \in BOOLEAN /\ reader \in Readers /\ Consumers \in Index
  BY DEF IInv, TypeInv, Sinks, Buffer, Readers, Consumers
<1>2. /\ slots' = [slots EXCEPT ![buffer.write] = command]
      /\ sink' = [sink EXCEPT !.pc = pc]
      /\ UNCHANGED <<buffer, reader, runtime, hist>>
      /\ sink.pc \in {"WRITE", "FILL"}
      /\ pc = "EXCHANGE" => command = sink.command
  BY <1>1 DEF ClearSlot, FillSlot, SinkAt, Sinks
<1>3. pc \in {"FILL", "EXCHANGE"} /\ command \in Command
  BY <1>1, ClosedSinkFacts
<1> HIDE DEF command, pc
<1>4. /\ sink' \in Sinks /\ sink'.pc = pc /\ sink'.closing = sink.closing
      /\ sink'.command = sink.command /\ sink'.snapshot = sink.snapshot
  BY <1>1, <1>2, <1>3 DEF Sinks, Writing
<1>5. /\ slots' \in [Index -> Command] /\ slots'[buffer.write] = command
      /\ \A i \in Index : i # buffer.write => slots'[i] = slots[i]
  BY <1>1, <1>2, <1>3
<1>6. Consumers' = Consumers /\ Producers = buffer.write /\ Producers' = buffer.write
  BY <1>2, <1>3, <1>4 DEF Consumers, Producers, SinkAt, ReaderAt
<1>7. buffer.write # buffer.state /\ buffer.write # Consumers
  BY <1>6 DEF IInv, SlotsApart, Apart
<1>8. slots'[buffer.state] = slots[buffer.state] /\ slots'[Consumers] = slots[Consumers]
  BY <1>1, <1>5, <1>7
<1>9. TypeInv'
  BY <1>2, <1>3, <1>4, <1>5 DEF IInv, TypeInv, Reading
<1>10. SlotsApart'
  BY <1>2, <1>6 DEF IInv, SlotsApart
<1>11. ~ReaderAt("IDLE") => slots'[reader.ready] = slots[reader.ready]
  BY <1>8 DEF IInv, ContentInv
<1>12. ContentInv'
  BY <1>2, <1>3, <1>4, <1>5, <1>6, <1>8, <1>11 DEF IInv, ContentInv, SinkAt, ReaderAt
<1>13. Latest' = Latest
  BY <1>2, <1>8, <1>11 DEF Latest, ReaderAt
<1>14. StopInv'
  BY <1>2, <1>3, <1>4, <1>13 DEF IInv, StopInv, SinkAt, Writing
<1>15. RuntimeInv' /\ ReadInv'
  BY <1>2, <1>3, <1>4 DEF IInv, RuntimeInv, ReadInv, SnapshotsAreWhole
<1> QED BY <1>9, <1>10, <1>12, <1>14, <1>15 DEF IInv

LEMMA ExchangeStep == IInv /\ Exchange => IInv'
<1> SUFFICES ASSUME IInv, Exchange PROVE IInv'
  OBVIOUS
<1> DEFINE offered == sink.command.id
           state == buffer.state
<1>1. /\ sink \in Sinks /\ slots \in [Index -> Command] /\ buffer \in Buffer
      /\ state \in Index /\ buffer.write \in Index /\ offered \in Nat
      /\ hist \in [sent : Nat, offered : Nat, stopped : BOOLEAN]
  BY DEF IInv, TypeInv, Sinks, Buffer, Command
<1>2. /\ buffer' = Offered(buffer) /\ sink' = [sink EXCEPT !.pc = "STORE", !.old = state]
      /\ hist' = [hist EXCEPT !.offered = offered]
      /\ UNCHANGED <<slots, reader, runtime>> /\ SinkAt("EXCHANGE")
  BY DEF Exchange
<1>3. slots[buffer.write] = sink.command
  BY <1>2 DEF IInv, ContentInv
<1>4. Producers = buffer.write
  BY <1>2 DEF Producers, SinkAt
<1> HIDE DEF offered, state
<1>5. /\ sink' \in Sinks /\ sink'.pc = "STORE" /\ sink'.closing = sink.closing
      /\ sink'.command = sink.command /\ sink'.snapshot = sink.snapshot /\ sink'.old = state
  BY <1>1, <1>2 DEF Sinks, Writing
<1>6. /\ hist' \in [sent : Nat, offered : Nat, stopped : BOOLEAN]
      /\ hist'.offered = offered /\ hist'.stopped = hist.stopped
  BY <1>1, <1>2
<1>7. /\ buffer' \in Buffer /\ buffer'.state = buffer.write /\ buffer'.fresh
      /\ buffer'.write = buffer.write /\ buffer'.read = buffer.read
  BY <1>1, <1>2, BufferFacts
<1>8. TypeInv'
  BY <1>2, <1>5, <1>6, <1>7 DEF IInv, TypeInv, Reading
<1>9. Consumers' = Consumers /\ Producers' = state
  BY <1>2, <1>5, <1>7 DEF Consumers, Producers, SinkAt, ReaderAt
<1>10. SlotsApart'
  BY <1>4, <1>7, <1>9 DEF IInv, SlotsApart, Apart, state
<1>11. ContentInv'
  BY <1>2, <1>3, <1>5, <1>6, <1>7, <1>9 DEF IInv, ContentInv, SinkAt, ReaderAt, offered
<1>12. Latest' = sink.command
  BY <1>2, <1>3, <1>7 DEF Latest
<1>13. StopInv'
  BY <1>2, <1>5, <1>6, <1>12 DEF IInv, StopInv, SinkAt, Writing
<1>14. RuntimeInv' /\ ReadInv'
  BY <1>2, <1>5 DEF IInv, RuntimeInv, ReadInv, SnapshotsAreWhole
<1> QED BY <1>8, <1>10, <1>11, <1>13, <1>14 DEF IInv

LEMMA StoreIndexStep == IInv /\ StoreIndex => IInv'
<1> SUFFICES ASSUME IInv, StoreIndex PROVE IInv'
  OBVIOUS
<1> DEFINE pc == IF sink.closing THEN "CLOSING" ELSE "READY"
           old == sink.old
<1>1. /\ sink \in Sinks /\ buffer \in Buffer /\ old \in Index
  BY DEF IInv, TypeInv, Sinks
<1>2. /\ buffer' = Rewound(buffer, old) /\ sink' = [ClosedSink EXCEPT !.pc = pc]
      /\ UNCHANGED <<slots, reader, runtime, hist>> /\ SinkAt("STORE")
      /\ pc \in {"CLOSING", "READY"} /\ (pc = "CLOSING" => sink.closing)
  BY DEF StoreIndex
<1>3. Producers = old
  BY <1>2 DEF Producers
<1> HIDE DEF pc, old
<1>4. /\ sink' \in Sinks /\ sink'.pc = pc /\ sink'.closing = FALSE /\ sink'.snapshot = NoRead
  BY <1>2, ClosedSinkFacts DEF Sinks
<1>5. /\ buffer' \in Buffer /\ buffer'.state = buffer.state /\ (buffer'.fresh <=> buffer.fresh)
      /\ buffer'.write = old /\ buffer'.read = buffer.read
  BY <1>1, <1>2, BufferFacts
<1>6. TypeInv'
  BY <1>2, <1>4, <1>5 DEF IInv, TypeInv, Reading
<1>7. Consumers' = Consumers /\ Producers' = Producers
  BY <1>2, <1>3, <1>4, <1>5 DEF Consumers, Producers, SinkAt, ReaderAt
<1>8. SlotsApart'
  BY <1>5, <1>7 DEF IInv, SlotsApart
<1>9. ContentInv'
  BY <1>2, <1>4, <1>5, <1>7 DEF IInv, ContentInv, SinkAt, ReaderAt
<1>10. Latest' = Latest
  BY <1>2, <1>5 DEF Latest, ReaderAt
<1>11. StopInv'
  BY <1>2, <1>4, <1>10 DEF IInv, StopInv, SinkAt, Writing
<1>12. RuntimeInv' /\ ReadInv'
  BY <1>2, <1>4, ClosedSinkFacts DEF IInv, RuntimeInv, ReadInv, SnapshotsAreWhole, NoRead
<1> QED BY <1>6, <1>8, <1>9, <1>11, <1>12 DEF IInv

\* The simulator takes the new slot: what was offered last is now what is due.
LEMMA TakeStep == IInv /\ TakeCommand => IInv'
<1> SUFFICES ASSUME IInv, TakeCommand PROVE IInv'
  OBVIOUS
<1> DEFINE ready == buffer.state
           due == hist.offered
<1>1. /\ reader \in Readers /\ buffer \in Buffer /\ ready \in Index /\ due \in Nat
  BY DEF IInv, TypeInv, Buffer
<1>2. /\ reader' = [reader EXCEPT !.pc = "STORE", !.ready = ready, !.due = due]
      /\ buffer' = Taken(buffer) /\ UNCHANGED <<slots, sink, runtime, hist>>
      /\ ReaderAt("IDLE") /\ buffer.fresh
  BY DEF TakeCommand
<1>3. slots[ready].id = due /\ Consumers = buffer.read /\ Latest = slots[ready]
  BY <1>2 DEF IInv, ContentInv, Consumers, Latest, ReaderAt
<1> HIDE DEF ready, due
<1>4. reader' \in Readers /\ reader'.pc = "STORE" /\ reader'.ready = ready /\ reader'.due = due
  BY <1>1, <1>2 DEF Readers
<1>5. /\ buffer' \in Buffer /\ buffer'.state = buffer.read /\ ~buffer'.fresh
      /\ buffer'.write = buffer.write /\ buffer'.read = buffer.read
  BY <1>1, <1>2, BufferFacts
<1>6. TypeInv'
  BY <1>2, <1>4, <1>5 DEF IInv, TypeInv
<1>7. Consumers' = ready /\ Producers' = Producers
  BY <1>2, <1>4, <1>5 DEF Consumers, Producers, SinkAt, ReaderAt
<1>8. SlotsApart'
  BY <1>3, <1>5, <1>7 DEF IInv, SlotsApart, Apart, ready
<1>9. ContentInv'
  BY <1>2, <1>3, <1>4, <1>5, <1>7 DEF IInv, ContentInv, SinkAt, ReaderAt, due
<1>10. Latest' = Latest
  BY <1>2, <1>3, <1>4, <1>5 DEF Latest, ReaderAt
<1>11. StopInv'
  BY <1>2, <1>10 DEF IInv, StopInv, SinkAt
<1>12. RuntimeInv' /\ ReadInv'
  BY <1>2 DEF IInv, RuntimeInv, ReadInv, SnapshotsAreWhole, SinkAt
<1> QED BY <1>6, <1>8, <1>9, <1>11, <1>12 DEF IInv

\* The rest of the simulator's reading moves no slot.
LEMMA CopyStep == IInv /\ (StoreReadIndex \/ BeginCopy \/ EndCopy) => IInv'
<1> SUFFICES ASSUME IInv, StoreReadIndex \/ BeginCopy \/ EndCopy PROVE IInv'
  OBVIOUS
<1> DEFINE read == IF ReaderAt("STORE") THEN reader.ready ELSE buffer.read
           pc == IF ReaderAt("STORE") THEN "COPY"
                 ELSE IF ReaderAt("COPY") THEN "COPIED" ELSE "IDLE"
           copy == IF ReaderAt("STORE") THEN reader.copy ELSE slots[reader.ready]
<1>1. /\ reader \in Readers /\ buffer \in Buffer /\ slots \in [Index -> Command]
      /\ reader.ready \in Index /\ buffer.read \in Index
  BY DEF IInv, TypeInv, Buffer, Readers
<1>2. /\ ~ReaderAt("IDLE") /\ reader.ready = Consumers /\ slots[reader.ready].id = reader.due
      /\ ReaderAt("COPIED") => reader.copy = slots[reader.ready]
  BY DEF StoreReadIndex, BeginCopy, EndCopy, IInv, ContentInv, ReaderAt
<1>3. reader' = [reader EXCEPT !.pc = pc, !.copy = copy] /\ UNCHANGED <<slots, sink, runtime, hist>>
  <2>1. CASE StoreReadIndex
    BY <2>1, <1>1 DEF StoreReadIndex, ReaderAt, Readers
  <2>2. CASE BeginCopy
    BY <2>2, <1>1 DEF BeginCopy, ReaderAt, Readers
  <2>3. CASE EndCopy
    BY <2>3, <1>1, <1>2 DEF EndCopy, ReaderAt, Readers
  <2> QED BY <2>1, <2>2, <2>3
<1>4. /\ buffer' \in Buffer /\ buffer'.state = buffer.state /\ (buffer'.fresh <=> buffer.fresh)
      /\ buffer'.write = buffer.write /\ buffer'.read = read /\ read = Consumers
  <2>1. CASE StoreReadIndex
    BY <2>1, <1>1, BufferFacts DEF StoreReadIndex, Consumers
  <2>2. CASE BeginCopy \/ EndCopy
    BY <2>2, <1>1 DEF BeginCopy, EndCopy, ReaderAt, Consumers
  <2> QED BY <2>1, <2>2
<1>5. /\ copy \in Command /\ pc \in {"IDLE", "COPY", "COPIED"}
      /\ pc \in {"IDLE", "COPIED"} => copy = slots[reader.ready]
  BY <1>1 DEF Readers
<1> HIDE DEF read, pc, copy
<1>6. /\ reader' \in Readers /\ reader'.pc = pc /\ reader'.copy = copy
      /\ reader'.ready = reader.ready /\ reader'.due = reader.due
  BY <1>1, <1>3, <1>5 DEF Readers
<1>7. TypeInv'
  BY <1>3, <1>4, <1>6 DEF IInv, TypeInv
<1>8. Consumers' = Consumers /\ Producers' = Producers
  BY <1>3, <1>4, <1>5, <1>6 DEF Consumers, Producers, SinkAt, ReaderAt
<1>9. SlotsApart'
  BY <1>4, <1>8 DEF IInv, SlotsApart
<1>10. ContentInv'
  BY <1>2, <1>3, <1>4, <1>5, <1>6, <1>8 DEF IInv, ContentInv, SinkAt, ReaderAt
<1>11. Latest' = Latest
  BY <1>2, <1>3, <1>4, <1>5, <1>6 DEF Latest, ReaderAt
<1>12. StopInv'
  BY <1>3, <1>11 DEF IInv, StopInv, SinkAt
<1>13. RuntimeInv' /\ ReadInv'
  BY <1>3 DEF IInv, RuntimeInv, ReadInv, SnapshotsAreWhole, SinkAt
<1> QED BY <1>7, <1>9, <1>10, <1>12, <1>13 DEF IInv

\* A state is written with its time out of sight, and its time is newer than any the sink
\* has looked at.
LEMMA PublishStep == IInv /\ PublishState => IInv'
<1> SUFFICES ASSUME IInv, PublishState PROVE IInv'
  OBVIOUS
<1> DEFINE next == runtime.at + 1
<1>1. /\ runtime \in [at : Nat, early : Nat, late : Nat, next : Nat] /\ sink \in Sinks
      /\ runtime.at \in Nat /\ runtime.early \in Nat /\ runtime.late \in Nat
      /\ runtime.next \in Nat /\ sink.read.before \in Nat /\ next \in Nat
  BY DEF IInv, TypeInv, Sinks, Read
<1>2. UNCHANGED <<buffer, slots, sink, reader, hist>>
  BY DEF PublishState
<1>3. /\ runtime.late <= runtime.next /\ runtime.next <= runtime.late + 1
      /\ runtime.at # 0 =>
           runtime.at = runtime.next /\ runtime.early = runtime.next /\ runtime.late = runtime.next
      /\ runtime.late = runtime.next => runtime.early = runtime.next
  BY DEF IInv, RuntimeInv
<1>4. sink.pc \in {"EARLY", "LATE", "AFTER"} =>
        /\ sink.read.before # 0 /\ sink.read.before <= runtime.next
        /\ sink.read.before = runtime.next => runtime.at = runtime.next
  BY DEF IInv, ReadInv
<1>5. /\ runtime' \in [at : Nat, early : Nat, late : Nat, next : Nat]
      /\ RuntimeInv'
      /\ sink.pc \in {"EARLY", "LATE", "AFTER"} => sink.read.before < runtime'.next
  <2>1. CASE runtime.at = runtime.late /\ runtime' = [runtime EXCEPT !.at = 0, !.next = next]
    <3> HIDE DEF next
    <3>1. /\ runtime' \in [at : Nat, early : Nat, late : Nat, next : Nat]
          /\ runtime'.at = 0 /\ runtime'.early = runtime.early /\ runtime'.late = runtime.late
          /\ runtime'.next = next
      BY <2>1, <1>1
    <3>2. next = runtime.late + 1
      BY <2>1 DEF next
    <3>3. RuntimeInv'
      BY <3>1, <3>2, <1>1 DEF RuntimeInv
    <3>4. runtime.next <= next /\ (runtime.next = next => runtime.at # runtime.next)
      BY <3>2, <2>1, <1>1, <1>3
    <3> QED BY <3>1, <3>3, <3>4, <1>1, <1>4
  <2>2. CASE runtime.early # runtime.next /\ runtime' = [runtime EXCEPT !.early = runtime.next]
    <3>1. /\ runtime' \in [at : Nat, early : Nat, late : Nat, next : Nat]
          /\ runtime'.at = runtime.at /\ runtime'.early = runtime.next
          /\ runtime'.late = runtime.late /\ runtime'.next = runtime.next
      BY <2>2, <1>1
    <3>2. RuntimeInv'
      BY <3>1, <2>2, <1>1, <1>3 DEF RuntimeInv
    <3> QED BY <3>1, <3>2, <2>2, <1>1, <1>3, <1>4
  <2>3. CASE /\ runtime.early = runtime.next /\ runtime.late # runtime.next
             /\ runtime' = [runtime EXCEPT !.late = runtime.next]
    <3>1. /\ runtime' \in [at : Nat, early : Nat, late : Nat, next : Nat]
          /\ runtime'.at = runtime.at /\ runtime'.early = runtime.early
          /\ runtime'.late = runtime.next /\ runtime'.next = runtime.next
      BY <2>3, <1>1
    <3>2. RuntimeInv'
      BY <3>1, <2>3, <1>1, <1>3 DEF RuntimeInv
    <3> QED BY <3>1, <3>2, <2>3, <1>1, <1>3, <1>4
  <2>4. CASE /\ runtime.late = runtime.next /\ runtime.at # runtime.next
             /\ runtime' = [runtime EXCEPT !.at = runtime.next]
    <3>1. /\ runtime' \in [at : Nat, early : Nat, late : Nat, next : Nat]
          /\ runtime'.at = runtime.next /\ runtime'.early = runtime.early
          /\ runtime'.late = runtime.late /\ runtime'.next = runtime.next
      BY <2>4, <1>1
    <3>2. RuntimeInv'
      BY <3>1, <2>4, <1>1, <1>3 DEF RuntimeInv
    <3> QED BY <3>1, <3>2, <2>4, <1>1, <1>3, <1>4
  <2> QED BY <2>1, <2>2, <2>3, <2>4 DEF PublishState
<1>6. TypeInv'
  BY <1>2, <1>5 DEF IInv, TypeInv
<1>7. SlotsApart' /\ ContentInv' /\ StopInv'
  BY <1>2 DEF IInv, SlotsApart, ContentInv, StopInv, Producers, Consumers, Latest, SinkAt, ReaderAt
<1>8. ReadInv'
  BY <1>1, <1>2, <1>5 DEF IInv, ReadInv, SnapshotsAreWhole, SinkAt
<1> QED BY <1>5, <1>6, <1>7, <1>8 DEF IInv

LEMMA StutteringStep == IInv /\ UNCHANGED vars => IInv'
  BY DEF IInv, TypeInv, SlotsApart, ContentInv, StopInv, RuntimeInv, ReadInv, SnapshotsAreWhole,
         Producers, Consumers, Latest, SinkAt, ReaderAt, vars

LEMMA IInvIsSound == IInv => SinkIsSound
<1> SUFFICES ASSUME IInv PROVE SinkIsSound
  OBVIOUS
<1>1. CommandsAreWhole
  BY DEF IInv, ContentInv, CommandsAreWhole
<1>2. ClosedGimbalIsStopped
  BY DEF IInv, ContentInv, StopInv, Latest, ClosedGimbalIsStopped
<1>3. SnapshotsAreWhole
  BY DEF IInv, ReadInv
<1> QED BY <1>1, <1>2, <1>3 DEF SinkIsSound

LEMMA NextStep == IInv /\ [Next]_vars => IInv'
<1> SUFFICES ASSUME IInv, [Next]_vars PROVE IInv'
  OBVIOUS
<1>1. CASE UNCHANGED vars
  BY <1>1, StutteringStep
<1>2. CASE Next
  BY <1>2, LocalStep, ReadingStep, WriteStep, ExchangeStep, StoreIndexStep, TakeStep, CopyStep,
     PublishStep DEF Next, Send, Local
<1> QED BY <1>1, <1>2

-----------------------------------------------------------------------------
(* The theorems. *)

\* The inductive invariant holds: each side writes and reads only in the slot it owns, also
\* within an exchange and after a kill, and the times of the runtime state never return.
THEOREM Soundness == Spec => []IInv
  BY InitIInv, NextStep, PTL DEF Spec

\* Every variable stays in its type, and a reading call never runs out of attempts while it
\* still tries (talos_command_sink.cpp, ReadRuntimeSnapshot).
THEOREM TypeCorrect == Spec => []TypeInv
<1>1. IInv => TypeInv
  BY DEF IInv
<1> QED BY <1>1, Soundness, PTL

\* What the simulator has read is, whole, the command that was the newest when it took it;
\* after a sink was closed in order the last one it knows is the stop; and a snapshot of the
\* runtime state is of one state.  For every number of commands, kills and states.
THEOREM SharedMemoryIsSound == Spec => []SinkIsSound
  BY IInvIsSound, Soundness, PTL

-----------------------------------------------------------------------------
(* Web tuning. *)

CONSTANTS Clients, Configs, Startup, Rejected, MaxRevision
VARIABLES mailbox, stage, preview, worker, vision, pipeline, page, wire, authors
Web == INSTANCE WebTuning

FrontEnds == Configs \cup {Startup, Rejected}
WebPending == [kind : {"edit"}, id : Nat, target : Nat, config : FrontEnds]
WebMailbox ==
  [config : FrontEnds, revision : Nat, pending : WebPending \cup {Web!None}, taken : BOOLEAN,
   nextId : Nat]

Gets == [kind : {"status", "config"}]
Edits == [kind : {"edit"}, authorized : BOOLEAN, base : Nat, from : FrontEnds, config : FrontEnds]
Replies ==
  [kind : {"statusReply", "configReply"}, revision : Nat, active : FrontEnds, pending : BOOLEAN]
Wires == {Web!None} \cup Gets \cup Edits \cup Replies
Pages == [revision : Nat, active : FrontEnds]

WebType ==
  /\ mailbox \in WebMailbox
  /\ page \in [Clients -> Pages] /\ wire \in [Clients -> Wires]

\* A configuration and its revision as they were read at some time: of the newest revision
\* there is only one.
IsSeen(revision, active) ==
  /\ revision <= mailbox.revision
  /\ revision = mailbox.revision => active = mailbox.config

SeenInv ==
  \A c \in Clients :
    /\ IsSeen(page[c].revision, page[c].active)
    /\ wire[c].kind = "edit" => IsSeen(wire[c].base, wire[c].from)
    /\ wire[c].kind = "configReply" => IsSeen(wire[c].revision, wire[c].active)

\* The author of a pending edit saw what it replaces, and the vision thread that holds it
\* is about to mark it applied.
PendingInv ==
  /\ Web!HasPending =>
       /\ mailbox.pending.target = mailbox.revision + 1
       /\ mailbox.pending.id = mailbox.nextId - 1
       /\ authors = mailbox.config
  /\ IF vision = "mark" THEN Web!HasPending /\ pipeline = mailbox.pending.config
     ELSE pipeline = mailbox.config

WebInv == WebType /\ SeenInv /\ PendingInv

LEMMA WebInit == Web!Init => WebInv
<1> SUFFICES ASSUME Web!Init PROVE WebInv
  OBVIOUS
<1>1. mailbox \in WebMailbox /\ mailbox.config = Startup /\ mailbox.revision = 1
      /\ mailbox.pending = Web!None
  BY DEF Web!Init, Web!NewMailbox, WebMailbox, FrontEnds
<1>2. Web!Blank \in Pages /\ Web!Blank.revision = 1 /\ Web!Blank.active = Startup
  BY DEF Web!Blank, Pages, FrontEnds
<1>3. page = [c \in Clients |-> Web!Blank] /\ wire = [c \in Clients |-> Web!None]
      /\ vision = "grab" /\ pipeline = Startup
  BY DEF Web!Init
<1>4. WebType
  BY <1>1, <1>2, <1>3 DEF WebType, Wires
<1>5. Web!None.kind = "none"
  BY DEF Web!None
<1>6. SeenInv
  BY <1>1, <1>2, <1>3, <1>5 DEF SeenInv, IsSeen
<1>7. PendingInv
  BY <1>1, <1>3 DEF PendingInv, Web!HasPending
<1> QED BY <1>4, <1>6, <1>7 DEF WebInv

\* What the kind of a message says of its other fields.
LEMMA WireFacts ==
  ASSUME NEW w \in Wires
  PROVE  /\ w.kind = "edit" => w \in Edits
         /\ w.kind = "configReply" => w \in Replies
         /\ Web!None.kind = "none"
         /\ \A r \in Gets : r.kind \in {"status", "config"}
<1>1. w = Web!None => w.kind = "none"
  BY DEF Web!None
<1>2. w \in Gets => w.kind \in {"status", "config"}
  BY DEF Gets
<1>3. w \in Edits => w.kind = "edit"
  BY DEF Edits
<1>4. w \in Replies => w.kind \in {"statusReply", "configReply"}
  BY DEF Replies
<1>5. w = Web!None \/ w \in Gets \/ w \in Edits \/ w \in Replies
  BY DEF Wires
<1> QED BY <1>1, <1>2, <1>3, <1>4, <1>5 DEF Web!None, Gets

\* A pending edit is not "none".
LEMMA PendingFacts ==
  ASSUME WebType
  PROVE  /\ mailbox.config \in FrontEnds /\ mailbox.revision \in Nat /\ mailbox.nextId \in Nat
         /\ mailbox.taken \in BOOLEAN
         /\ Web!HasPending =>
              /\ mailbox.pending \in WebPending /\ mailbox.pending.config \in FrontEnds
              /\ mailbox.pending.target \in Nat /\ mailbox.pending.id \in Nat
  BY DEF WebType, WebMailbox, WebPending, Web!HasPending

\* Messages that are lost, received or sent leave the invariant as far as what they carry
\* was seen.
LEMMA TabStep ==
  ASSUME WebInv, NEW c \in Clients, Web!Tab(c)
  PROVE  WebInv'
<1>1. wire \in [Clients -> Wires] /\ wire[c] \in Wires /\ page[c] \in Pages
      /\ page \in [Clients -> Pages] /\ Web!None \in Wires
  BY DEF WebInv, WebType, Wires
<1>2. page[c].revision \in Nat /\ page[c].active \in FrontEnds
      /\ IsSeen(page[c].revision, page[c].active)
  BY <1>1 DEF Pages, WebInv, SeenInv
<1>3. UNCHANGED <<mailbox, vision, pipeline, authors>>
  BY DEF Web!Tab, Web!Send, Web!LoadConfig, Web!ReadStatus, Web!Break
<1>4. PendingInv'
  BY <1>3 DEF WebInv, PendingInv, Web!HasPending
<1>5. ASSUME NEW w \in Wires, wire' = [wire EXCEPT ![c] = w], page' = page,
             w.kind = "edit" => IsSeen(w.base, w.from), w.kind # "configReply"
      PROVE  WebInv'
  <2>1. /\ wire' \in [Clients -> Wires] /\ wire'[c] = w
        /\ \A d \in Clients : d # c => wire'[d] = wire[d]
    BY <1>1, <1>5
  <2>2. WebType'
    BY <1>3, <1>5, <2>1 DEF WebInv, WebType
  <2>3. ASSUME NEW d \in Clients
        PROVE  /\ IsSeen(page[d].revision, page[d].active)'
               /\ wire'[d].kind = "edit" => IsSeen(wire[d].base, wire[d].from)'
               /\ wire'[d].kind = "configReply" => IsSeen(wire[d].revision, wire[d].active)'
    <3>1. CASE d = c
      BY <3>1, <2>1, <1>3, <1>5, <1>2 DEF IsSeen
    <3>2. CASE d # c
      BY <3>2, <2>1, <1>3, <1>5 DEF IsSeen, WebInv, SeenInv
    <3> QED BY <3>1, <3>2
  <2>4. SeenInv'
    BY <2>3 DEF SeenInv
  <2> QED BY <1>4, <2>2, <2>4 DEF WebInv
<1>6. Web!None.kind = "none"
  BY DEF Web!None
<1>7. ASSUME NEW x \in {"status", "config"}
      PROVE  Web!Get(x) \in Wires /\ Web!Get(x).kind = x
  BY DEF Web!Get, Wires, Gets
<1>8. ASSUME NEW x \in FrontEnds
      PROVE  /\ Web!Edit(c, x) \in Edits /\ Web!Edit(c, x).base = page[c].revision
             /\ Web!Edit(c, x).from = page[c].active
  BY <1>2 DEF Web!Edit, Edits
<1>9. CASE Web!Send(c)
  <2>1. PICK r \in {Web!Get("config"), Web!Get("status")} \cup Web!Strays(c)
              \cup {Web!Edit(c, x) : x \in
                      IF page[c].revision <= MaxRevision THEN Configs \ {page[c].active} ELSE {}} :
          wire' = [wire EXCEPT ![c] = r]
    BY <1>9 DEF Web!Send
  <2>2. page' = page
    BY <1>9 DEF Web!Send
  <2>3. CASE r \in {Web!Get("config"), Web!Get("status")}
    BY <2>1, <2>2, <2>3, <1>5, <1>7
  <2>4. CASE r \in Web!Strays(c)
    <3>1. Startup \in FrontEnds /\ Rejected \in FrontEnds
      BY DEF FrontEnds
    <3> DEFINE e == Web!Edit(c, Startup)
    <3>2. e \in Edits /\ e.base = page[c].revision /\ e.from = page[c].active
      BY <3>1, <1>8
    <3>3. r = [e EXCEPT !.authorized = FALSE] \/ r = Web!Edit(c, Rejected)
      BY <2>4 DEF Web!Strays
    <3> HIDE DEF e
    <3>4. r \in Edits /\ r.base = page[c].revision /\ r.from = page[c].active
      BY <3>1, <3>2, <3>3, <1>8 DEF Edits
    <3>5. r \in Wires /\ r.kind = "edit"
      BY <3>4 DEF Wires, Edits
    <3> QED BY <2>1, <2>2, <3>4, <3>5, <1>2, <1>5
  <2>5. ASSUME NEW x \in Configs, r = Web!Edit(c, x)
        PROVE  WebInv'
    <3>1. r \in Edits /\ r.base = page[c].revision /\ r.from = page[c].active
      BY <2>5, <1>8 DEF FrontEnds
    <3>2. r \in Wires /\ r.kind = "edit"
      BY <3>1 DEF Wires, Edits
    <3> QED BY <2>1, <2>2, <3>1, <3>2, <1>2, <1>5
  <2> QED BY <2>1, <2>3, <2>4, <2>5
<1>10. CASE Web!LoadConfig(c)
  <2> DEFINE p == [revision |-> wire[c].revision, active |-> wire[c].active]
  <2>1. /\ wire[c].kind = "configReply" /\ page' = [page EXCEPT ![c] = p]
        /\ wire' = [wire EXCEPT ![c] = Web!None]
    BY <1>10 DEF Web!LoadConfig
  <2>2. wire[c].revision \in Nat /\ wire[c].active \in FrontEnds
    BY <1>1, <2>1, WireFacts DEF Replies
  <2>3. IsSeen(p.revision, p.active) /\ p \in Pages
    BY <2>1, <2>2 DEF WebInv, SeenInv, Pages
  <2> HIDE DEF p
  <2>4. /\ wire' \in [Clients -> Wires] /\ wire'[c] = Web!None
        /\ \A d \in Clients : d # c => wire'[d] = wire[d]
        /\ page' \in [Clients -> Pages] /\ page'[c] = p
        /\ \A d \in Clients : d # c => page'[d] = page[d]
    BY <1>1, <2>1, <2>3
  <2>5. WebType'
    BY <1>3, <2>4 DEF WebInv, WebType
  <2>6. ASSUME NEW d \in Clients
        PROVE  /\ IsSeen(page[d].revision, page[d].active)'
               /\ wire'[d].kind = "edit" => IsSeen(wire[d].base, wire[d].from)'
               /\ wire'[d].kind = "configReply" => IsSeen(wire[d].revision, wire[d].active)'
    <3>1. CASE d = c
      BY <3>1, <2>3, <2>4, <1>3, <1>6 DEF IsSeen
    <3>2. CASE d # c
      BY <3>2, <2>4, <1>3 DEF IsSeen, WebInv, SeenInv
    <3> QED BY <3>1, <3>2
  <2>7. SeenInv'
    BY <2>6 DEF SeenInv
  <2> QED BY <1>4, <2>5, <2>7 DEF WebInv
<1>11. CASE Web!ReadStatus(c)
  <2>1. PICK w \in {Web!Get("config"), Web!None} : wire' = [wire EXCEPT ![c] = w]
    BY <1>11 DEF Web!ReadStatus
  <2>2. page' = page
    BY <1>11 DEF Web!ReadStatus
  <2> QED BY <2>1, <2>2, <1>1, <1>5, <1>6, <1>7
<1>12. CASE Web!Break(c)
  BY <1>12, <1>1, <1>5, <1>6 DEF Web!Break
<1> QED BY <1>9, <1>10, <1>11, <1>12 DEF Web!Tab

\* An edit that is accepted was made of the newest revision, and so of what it replaces.
LEMMA HandleStep ==
  ASSUME WebInv, NEW c \in Clients, Web!Handle(c)
  PROVE  WebInv'
<1>1. wire \in [Clients -> Wires] /\ wire[c] \in Wires /\ Web!None \in Wires
      /\ page \in [Clients -> Pages] /\ Web!None.kind = "none"
  BY DEF WebInv, WebType, Wires, Web!None
<1>2. UNCHANGED <<vision, pipeline, page>>
  BY DEF Web!Handle
<1>3. WebType
  BY DEF WebInv
<1>4. CASE wire[c].kind # "edit"
  <2>1. PICK k \in {"statusReply", "configReply"} : wire' = [wire EXCEPT ![c] = Web!Snapshot(k)]
    BY <1>4 DEF Web!Handle
  <2>2. UNCHANGED <<mailbox, authors>>
    BY <1>4 DEF Web!Handle
  <2> DEFINE w == Web!Snapshot(k)
  <2>3. w \in Wires /\ w.kind = k /\ w.revision = mailbox.revision /\ w.active = mailbox.config
    <3>1. Web!HasPending \in BOOLEAN
      BY DEF Web!HasPending
    <3> QED BY <3>1, <1>3, PendingFacts DEF Web!Snapshot, Wires, Replies
  <2> HIDE DEF w
  <2>4. /\ wire' \in [Clients -> Wires] /\ wire'[c] = w
        /\ \A d \in Clients : d # c => wire'[d] = wire[d]
    BY <1>1, <2>1, <2>3 DEF w
  <2>5. WebType'
    BY <1>2, <2>2, <2>4 DEF WebInv, WebType
  <2>6. ASSUME NEW d \in Clients
        PROVE  /\ IsSeen(page[d].revision, page[d].active)'
               /\ wire'[d].kind = "edit" => IsSeen(wire[d].base, wire[d].from)'
               /\ wire'[d].kind = "configReply" => IsSeen(wire[d].revision, wire[d].active)'
    <3>1. CASE d = c
      <4>1. mailbox.revision <= mailbox.revision
        BY <1>3, PendingFacts
      <4> QED BY <3>1, <4>1, <2>2, <2>3, <2>4, <1>2 DEF IsSeen, WebInv, SeenInv
    <3>2. CASE d # c
      BY <3>2, <2>2, <2>4, <1>2 DEF IsSeen, WebInv, SeenInv
    <3> QED BY <3>1, <3>2
  <2>7. SeenInv'
    BY <2>6 DEF SeenInv
  <2>8. PendingInv'
    BY <1>2, <2>2 DEF WebInv, PendingInv, Web!HasPending
  <2> QED BY <2>5, <2>7, <2>8 DEF WebInv
<1>5. CASE wire[c].kind = "edit"
  <2>1. /\ wire' = [wire EXCEPT ![c] = Web!None]
        /\ IF wire[c].authorized THEN Web!SubmitConfig(wire[c]) ELSE UNCHANGED <<mailbox, authors>>
    BY <1>5 DEF Web!Handle
  <2>2. /\ wire' \in [Clients -> Wires] /\ wire'[c] = Web!None
        /\ \A d \in Clients : d # c => wire'[d] = wire[d]
    BY <1>1, <2>1
  <2>3. mailbox' \in WebMailbox /\ mailbox'.config = mailbox.config
        /\ mailbox'.revision = mailbox.revision /\ PendingInv'
    <3>1. CASE UNCHANGED <<mailbox, authors>>
      BY <3>1, <1>2 DEF WebInv, WebType, PendingInv, Web!HasPending
    <3>2. CASE ~UNCHANGED <<mailbox, authors>>
      <4>1. /\ Web!SubmitStatus(wire[c].base) = "ACCEPTED" /\ wire[c].config \in Configs
            /\ Web!Submit(wire[c].config) /\ authors' = wire[c].from
        BY <3>2, <2>1 DEF Web!SubmitConfig, Web!ParseFrontendConfig
      <4>2. ~Web!HasPending /\ wire[c].base = mailbox.revision
        BY <4>1 DEF Web!SubmitStatus
      <4>3. authors' = mailbox.config
        BY <4>1, <4>2, <1>5 DEF WebInv, SeenInv, IsSeen
      <4> DEFINE p == [kind |-> "edit", id |-> mailbox.nextId, target |-> mailbox.revision + 1,
                       config |-> wire[c].config]
                 next == mailbox.nextId + 1
      <4>4. p \in WebPending /\ p.kind = "edit" /\ p.id = next - 1 /\ p.target = mailbox.revision + 1
            /\ next \in Nat
        BY <4>1, <1>3, PendingFacts DEF WebPending, FrontEnds
      <4>5. mailbox' = [mailbox EXCEPT !.pending = p, !.taken = FALSE, !.nextId = next]
        BY <4>1, <1>3 DEF Web!Submit, WebType, WebMailbox
      <4> HIDE DEF p, next
      <4>6. /\ mailbox' \in WebMailbox /\ mailbox'.config = mailbox.config
            /\ mailbox'.revision = mailbox.revision /\ mailbox'.pending = p
            /\ mailbox'.nextId = next
        BY <4>4, <4>5, <1>3 DEF WebType, WebMailbox
      <4>7. vision # "mark" /\ pipeline = mailbox.config
        BY <4>2 DEF WebInv, PendingInv
      <4>8. PendingInv'
        BY <4>3, <4>4, <4>6, <4>7, <1>2 DEF PendingInv
      <4> QED BY <4>6, <4>8
    <3> QED BY <3>1, <3>2
  <2>4. WebType'
    BY <1>1, <1>2, <2>2, <2>3 DEF WebType
  <2>5. ASSUME NEW d \in Clients
        PROVE  /\ IsSeen(page[d].revision, page[d].active)'
               /\ wire'[d].kind = "edit" => IsSeen(wire[d].base, wire[d].from)'
               /\ wire'[d].kind = "configReply" => IsSeen(wire[d].revision, wire[d].active)'
    <3>1. CASE d = c
      BY <3>1, <2>2, <2>3, <1>1, <1>2 DEF IsSeen, WebInv, SeenInv
    <3>2. CASE d # c
      BY <3>2, <2>2, <2>3, <1>2 DEF IsSeen, WebInv, SeenInv
    <3> QED BY <3>1, <3>2
  <2>6. SeenInv'
    BY <2>5 DEF SeenInv
  <2> QED BY <2>3, <2>4, <2>6 DEF WebInv
<1> QED BY <1>4, <1>5

\* The vision thread takes a pending edit and marks it before its next frame.
LEMMA VisionStep ==
  ASSUME WebInv, Web!Vision \/ Web!EndRun
  PROVE  WebInv'
<1>1. UNCHANGED <<page, wire, authors>> /\ WebType
  BY DEF Web!Vision, Web!Grab, Web!Tune, Web!Mark, Web!Process, Web!Push, Web!EndRun, WebInv
<1>2. CASE Web!Grab \/ Web!Process \/ Web!Push \/ Web!EndRun
  <2>1. UNCHANGED <<mailbox, pipeline>> /\ vision # "mark" /\ vision' # "mark"
    BY <1>2 DEF Web!Grab, Web!Process, Web!Push, Web!EndRun
  <2> QED BY <1>1, <2>1 DEF WebInv, WebType, SeenInv, IsSeen, PendingInv, Web!HasPending
<1>3. CASE Web!Tune /\ ~Web!CanTake
  <2>1. UNCHANGED <<mailbox, pipeline>> /\ vision # "mark" /\ vision' # "mark"
    BY <1>3 DEF Web!Tune
  <2> QED BY <1>1, <2>1 DEF WebInv, WebType, SeenInv, IsSeen, PendingInv, Web!HasPending
<1>4. CASE Web!Tune /\ Web!CanTake
  <2>1. /\ mailbox' = [mailbox EXCEPT !.taken = TRUE] /\ pipeline' = mailbox.pending.config
        /\ vision' = "mark" /\ Web!HasPending
    BY <1>4 DEF Web!Tune, Web!TryTakePending, Web!CanTake
  <2>2. /\ mailbox' \in WebMailbox /\ mailbox'.config = mailbox.config
        /\ mailbox'.revision = mailbox.revision /\ mailbox'.pending = mailbox.pending
        /\ mailbox'.nextId = mailbox.nextId
    BY <1>1, <2>1 DEF WebType, WebMailbox
  <2> QED BY <1>1, <2>1, <2>2 DEF WebInv, WebType, SeenInv, IsSeen, PendingInv, Web!HasPending
<1>5. CASE Web!Mark
  <2>1. vision = "mark" /\ vision' = "process" /\ pipeline' = pipeline
        /\ Web!MarkApplied(mailbox.nextId - 1)
    BY <1>5 DEF Web!Mark
  <2>2. /\ Web!HasPending /\ pipeline = mailbox.pending.config
        /\ mailbox.pending.id = mailbox.nextId - 1 /\ mailbox.pending.target = mailbox.revision + 1
    BY <2>1 DEF WebInv, PendingInv
  <2> DEFINE active == mailbox.pending.config
             target == mailbox.pending.target
  <2>3. mailbox' = [mailbox EXCEPT !.config = active, !.revision = target,
                                   !.pending = Web!None, !.taken = FALSE]
    BY <2>1, <2>2 DEF Web!MarkApplied
  <2>4. /\ active \in FrontEnds /\ target \in Nat /\ target = mailbox.revision + 1
        /\ mailbox.revision \in Nat /\ pipeline = active
    BY <2>2, <1>1, PendingFacts
  <2> HIDE DEF active, target
  <2>5. /\ mailbox' \in WebMailbox /\ mailbox'.config = active
        /\ mailbox'.revision = target /\ mailbox'.pending = Web!None
    BY <2>3, <2>4, <1>1 DEF WebType, WebMailbox
  <2>6. PendingInv'
    BY <2>1, <2>4, <2>5 DEF PendingInv, Web!HasPending
  <2>7. ASSUME NEW revision \in Nat, NEW x, IsSeen(revision, x)
        PROVE  revision <= mailbox'.revision /\ revision # mailbox'.revision
    BY <2>4, <2>5, <2>7 DEF IsSeen
  <2>8. SeenInv'
    <3> SUFFICES ASSUME NEW d \in Clients
                 PROVE  /\ IsSeen(page[d].revision, page[d].active)'
                        /\ wire'[d].kind = "edit" => IsSeen(wire[d].base, wire[d].from)'
                        /\ wire'[d].kind = "configReply" =>
                             IsSeen(wire[d].revision, wire[d].active)'
      BY DEF SeenInv
    <3>1. page[d].revision \in Nat /\ IsSeen(page[d].revision, page[d].active)
      BY DEF WebInv, WebType, Pages, SeenInv
    <3>2. wire[d] \in Wires
      BY DEF WebInv, WebType
    <3>3. wire[d].kind = "edit" => wire[d].base \in Nat /\ IsSeen(wire[d].base, wire[d].from)
      BY <3>2, WireFacts DEF Edits, WebInv, SeenInv
    <3>4. wire[d].kind = "configReply" =>
            wire[d].revision \in Nat /\ IsSeen(wire[d].revision, wire[d].active)
      BY <3>2, WireFacts DEF Replies, WebInv, SeenInv
    <3> QED BY <1>1, <2>7, <3>1, <3>3, <3>4 DEF IsSeen
  <2>9. WebType'
    BY <1>1, <2>5 DEF WebType
  <2> QED BY <2>6, <2>8, <2>9 DEF WebInv
<1> QED BY <1>2, <1>3, <1>4, <1>5 DEF Web!Vision

LEMMA WebInvIsKept == WebInv => Web!WebKeepsEdits
  BY DEF WebInv, PendingInv, Web!WebKeepsEdits, Web!NoLostUpdate, Web!PipelineMatchesMailbox

LEMMA WebStep == WebInv /\ [Web!Next]_Web!vars => WebInv'
<1> SUFFICES ASSUME WebInv, [Web!Next]_Web!vars PROVE WebInv'
  OBVIOUS
<1>1. CASE Web!Vision \/ Web!EndRun
  BY <1>1, VisionStep
<1>2. ASSUME NEW c \in Clients, Web!Handle(c) \/ Web!Tab(c)
      PROVE  WebInv'
  BY <1>2, HandleStep, TabStep
<1>3. CASE Web!PreviewWorker \/ Web!Start \/ Web!Stop \/ UNCHANGED Web!vars
  <2>1. UNCHANGED <<mailbox, vision, pipeline, page, wire, authors>>
    BY <1>3 DEF Web!PreviewWorker, Web!WorkerWakes, Web!WorkerEncodes, Web!Start, Web!Stop,
                Web!StopServer, Web!StopPreview, Web!JoinPreview, Web!vars
  <2> QED BY <2>1 DEF WebInv, WebType, SeenInv, IsSeen, PendingInv, Web!HasPending
<1> QED BY <1>1, <1>2, <1>3 DEF Web!Next

\* vision_tuning.cpp, web_debug_server.cpp: within one run of the program no page overwrites
\* what it has not seen, and the revision that is reported is the one frames go through, for
\* every number of tabs, configurations and edits.
THEOREM WebEditsAreKept == Web!Spec => []Web!WebKeepsEdits
  BY WebInit, WebStep, WebInvIsKept, PTL DEF Web!Spec

-----------------------------------------------------------------------------
(* Gimbal tuning reload. *)

CONSTANT MaxSaves
VARIABLES files, poll, pending, config, pid, shown, editor
Reload == INSTANCE GimbalTuningReload WITH reader <- poll

Files == {"common", "algorithm", "transport"}
Tuning == [kind : {"tuning"}, yaw : BOOLEAN, pitch : BOOLEAN]
Passes == [pc : Files \cup {"compare"}, texts : Reload!Texts, candidate : Reload!Texts \cup {Reload!None},
           attempted : Reload!Texts \cup {Reload!None}, lastGood : Tuning]
Editors == [saves : Nat, since : [Files -> BOOLEAN], twice : BOOLEAN]

ReloadType ==
  /\ files \in Reload!Texts /\ files \in shown /\ shown \subseteq Reload!Texts
  /\ poll \in Passes /\ editor \in Editors
  /\ pending \in Tuning \cup {Reload!None} /\ config \in Tuning

\* The poll has read this file in the pass it is in.
HasRead(f) ==
  \/ poll.pc = "compare"
  \/ poll.pc = "transport" /\ f # "transport"
  \/ poll.pc = "algorithm" /\ f = "common"

\* A file that was saved once since it was read is not what was read, and no other is.
LastReadInv ==
  editor.twice \/ \A f \in Files : editor.since[f] <=> files[f] # poll.texts[f]

\* The poll's last two readings of a file.
Agrees(f) == poll.texts[f] = poll.candidate[f]

\* At the end of the pass before, the files on disk were these: in what a file has kept
\* between its last two readings, they agree with it.
Between(whole) ==
  \A f \in Files :
    /\ ~HasRead(f) => Agrees(f) /\ (~editor.since[f] => whole[f] = poll.texts[f])
    /\ HasRead(f) /\ Agrees(f) => whole[f] = poll.texts[f]

\* A pass has not read this file, and cannot as it is.
Lost(f) == ~HasRead(f) /\ files[f] = "missing"

\* What a pass has read before it is given up agrees with nothing, but no later pass ends
\* before the file it missed is saved once more.
TwoReadingsInv ==
  \/ editor.twice \/ poll.candidate = Reload!None
  \/ \E f \in Files : Lost(f)
  \/ \E whole \in shown : Between(whole)

\* No reading is of a file that cannot be read.
ReadableInv == \A f \in Files : poll.texts[f] # "missing"

\* Parameters of a set of files that was on disk as a whole.
WasWhole(next) == \E texts \in shown : Reload!Tunable(texts) /\ next = Reload!Parsed(texts)

SourceInv ==
  editor.twice \/ (WasWhole(config) /\ (pending = Reload!None \/ WasWhole(pending)))

AxesInv == pid \in [Reload!Axes -> {"zero", "fresh"}]

ReloadInv ==
  ReloadType /\ LastReadInv /\ ReadableInv /\ TwoReadingsInv /\ SourceInv /\ AxesInv

\* A set of files has its texts by name.
LEMMA TextFacts ==
  ASSUME NEW t \in Reload!Texts
  PROVE  /\ DOMAIN t = Files
         /\ t["common"] = t.common /\ t["algorithm"] = t.algorithm /\ t["transport"] = t.transport
         /\ \A u \in Reload!Texts : (\A f \in Files : t[f] = u[f]) => t = u
         /\ Reload!Parsed(t) \in Tuning
         /\ t # Reload!None
<1>1. DOMAIN t = Files
  BY DEF Reload!Texts, Files
<1>2. ASSUME NEW u \in Reload!Texts, \A f \in Files : t[f] = u[f]
      PROVE  t = u
  BY <1>2 DEF Reload!Texts, Files
<1>3. Reload!Parsed(t) \in Tuning
  BY DEF Reload!Parsed, Tuning
<1>4. "common" \in DOMAIN t /\ "common" \notin DOMAIN Reload!None
  BY DEF Reload!Texts, Reload!None
<1> QED BY <1>1, <1>2, <1>3, <1>4

LEMMA ReloadInit == Reload!Init => ReloadInv
<1> SUFFICES ASSUME Reload!Init PROVE ReloadInv
  OBVIOUS
<1>1. Reload!StartupTexts \in Reload!Texts /\ Reload!Tunable(Reload!StartupTexts)
  BY DEF Reload!StartupTexts, Reload!Texts, Reload!Tunable, Reload!Readable
<1>2. Reload!Startup \in Tuning /\ DOMAIN Reload!StartupTexts = Files
  BY <1>1, TextFacts DEF Reload!Startup
<1>3. ReloadType
  BY <1>1, <1>2 DEF Reload!Init, ReloadType, Passes, Files, Editors
<1>4. LastReadInv
  BY <1>2 DEF Reload!Init, LastReadInv
<1>5. TwoReadingsInv
  BY DEF Reload!Init, TwoReadingsInv
<1>6. SourceInv
  BY <1>1 DEF Reload!Init, SourceInv, WasWhole, Reload!Startup
<1>7. AxesInv
  BY DEF Reload!Init, AxesInv
<1>8. ReadableInv
  BY DEF Reload!Init, ReadableInv, Reload!StartupTexts, Files
<1> QED BY <1>3, <1>4, <1>5, <1>6, <1>7, <1>8 DEF ReloadInv

LEMMA ReloadRanges ==
  ASSUME ReloadType
  PROVE  /\ poll.pc \in Files \cup {"compare"} /\ poll.texts \in Reload!Texts
         /\ poll.candidate \in Reload!Texts \cup {Reload!None}
         /\ poll.attempted \in Reload!Texts \cup {Reload!None} /\ poll.lastGood \in Tuning
         /\ editor.saves \in Nat /\ editor.since \in [Files -> BOOLEAN] /\ editor.twice \in BOOLEAN
         /\ files \in Reload!Texts
  BY DEF ReloadType, Passes, Editors

\* A save of a file leaves what the poll knows of it untrue, unless it was saved before.
LEMMA SaveStep == ReloadInv /\ Reload!Save => ReloadInv'
<1> SUFFICES ASSUME ReloadInv, Reload!Save PROVE ReloadInv'
  OBVIOUS
<1>1. PICK f \in DOMAIN files : \E t \in {u[f] : u \in Reload!Texts} \ {files[f]} :
        /\ files' = [files EXCEPT ![f] = t]
        /\ editor' = [editor EXCEPT !.saves = @ + 1, !.since[f] = TRUE,
                                    !.twice = @ \/ editor.since[f]]
  BY DEF Reload!Save
<1>2. PICK t \in {u[f] : u \in Reload!Texts} \ {files[f]} :
        /\ files' = [files EXCEPT ![f] = t]
        /\ editor' = [editor EXCEPT !.saves = @ + 1, !.since[f] = TRUE,
                                    !.twice = @ \/ editor.since[f]]
  BY <1>1
<1>3. UNCHANGED <<poll, pending, config, pid>> /\ shown' = shown \cup {files'}
  BY DEF Reload!Save
<1>4. /\ ReloadType /\ f \in Files /\ editor \in Editors /\ files \in Reload!Texts
      /\ editor.saves \in Nat /\ editor.since \in [Files -> BOOLEAN] /\ editor.twice \in BOOLEAN
  BY ReloadRanges, TextFacts DEF ReloadInv, ReloadType
<1>5. files' \in Reload!Texts /\ files'[f] = t /\ \A g \in Files : g # f => files'[g] = files[g]
  <2>1. PICK u \in Reload!Texts : t = u[f]
    BY <1>2
  <2> QED BY <2>1, <1>2, <1>4 DEF Reload!Texts, Files
<1> DEFINE saves == editor.saves + 1
           since == [editor.since EXCEPT ![f] = TRUE]
           twice == editor.twice \/ editor.since[f]
<1>6. editor' = [editor EXCEPT !.saves = saves, !.since = since, !.twice = twice]
  BY <1>2, <1>4 DEF Editors
<1>7. /\ saves \in Nat /\ since \in [Files -> BOOLEAN] /\ twice \in BOOLEAN
      /\ since[f] = TRUE /\ \A g \in Files : g # f => since[g] = editor.since[g]
      /\ ~twice => ~editor.twice /\ ~editor.since[f]
  BY <1>4
<1> HIDE DEF saves, since, twice
<1>8. editor' \in Editors /\ editor'.since = since /\ editor'.twice = twice
  BY <1>4, <1>6, <1>7 DEF Editors
<1>9. ReloadType'
  BY <1>3, <1>4, <1>5, <1>8 DEF ReloadType
<1>10. LastReadInv'
  <2> SUFFICES ASSUME ~editor'.twice, NEW g \in Files
               PROVE  editor'.since[g] <=> files'[g] # poll'.texts[g]
    BY DEF LastReadInv
  <2>1. \A h \in Files : editor.since[h] <=> files[h] # poll.texts[h]
    BY <1>7, <1>8 DEF ReloadInv, LastReadInv
  <2>2. CASE g = f
    <3>1. files[f] = poll.texts[f] /\ t # files[f]
      BY <2>1, <1>2, <1>4, <1>7, <1>8
    <3> QED BY <3>1, <2>2, <1>3, <1>5, <1>7, <1>8
  <2>3. CASE g # f
    BY <2>1, <2>3, <1>3, <1>5, <1>7, <1>8
  <2> QED BY <2>2, <2>3
<1>11. TwoReadingsInv'
  <2> SUFFICES ASSUME ~editor'.twice, poll'.candidate # Reload!None
               PROVE  \/ \E g \in Files : Lost(g)'
                      \/ \E whole \in shown' : Between(whole)'
    BY DEF TwoReadingsInv
  <2>1. \/ \E g \in Files : Lost(g)
        \/ \E whole \in shown : Between(whole)
    BY <1>3, <1>7, <1>8 DEF ReloadInv, TwoReadingsInv
  <2>2. ASSUME NEW g \in Files, Lost(g) PROVE Lost(g)'
    <3>1. editor.since[g]
      BY <2>2, <1>7, <1>8 DEF Lost, ReloadInv, LastReadInv, ReadableInv
    <3>2. g # f
      BY <3>1, <1>7, <1>8
    <3> QED BY <3>2, <2>2, <1>3, <1>5 DEF Lost, HasRead
  <2>3. ASSUME NEW whole \in shown, Between(whole) PROVE Between(whole)'
    BY <2>3, <1>3, <1>7, <1>8 DEF Between, Agrees, HasRead
  <2> QED BY <2>1, <2>2, <2>3, <1>3
<1>12. SourceInv'
  BY <1>3, <1>7, <1>8 DEF ReloadInv, SourceInv, WasWhole
<1>13. AxesInv' /\ ReadableInv'
  BY <1>3 DEF ReloadInv, AxesInv, ReadableInv
<1> QED BY <1>9, <1>10, <1>11, <1>12, <1>13 DEF ReloadInv

\* A reading of one file.
LEMMA ReadStep ==
  ASSUME ReloadInv, NEW f \in Files, NEW next \in Files \cup {"compare"},
         Reload!ReadFile(f, next),
         <<f, next>> \in {<<"common", "algorithm">>, <<"algorithm", "transport">>,
                          <<"transport", "compare">>}
  PROVE  ReloadInv'
<1>1. /\ poll.pc = f /\ files[f] # "missing"
      /\ poll' = [poll EXCEPT !.pc = next, !.texts[f] = files[f]]
      /\ editor' = [editor EXCEPT !.since[f] = FALSE]
      /\ UNCHANGED <<files, pending, config, pid, shown>>
  BY DEF Reload!ReadFile
<1>2. /\ ReloadType /\ poll \in Passes /\ editor \in Editors /\ files \in Reload!Texts
      /\ poll.texts \in Reload!Texts /\ editor.since \in [Files -> BOOLEAN]
  BY ReloadRanges DEF ReloadInv, ReloadType
<1> DEFINE texts == [poll.texts EXCEPT ![f] = files[f]]
           since == [editor.since EXCEPT ![f] = FALSE]
<1>3. poll' = [poll EXCEPT !.pc = next, !.texts = texts] /\ editor' = [editor EXCEPT !.since = since]
  BY <1>1, <1>2 DEF Passes, Editors
<1>4. texts \in Reload!Texts /\ texts[f] = files[f] /\ \A g \in Files : g # f => texts[g] = poll.texts[g]
  BY <1>2 DEF Reload!Texts, Files
<1>5. /\ since \in [Files -> BOOLEAN] /\ since[f] = FALSE
      /\ \A g \in Files : g # f => since[g] = editor.since[g]
  BY <1>2
<1> HIDE DEF texts, since
<1>6. /\ poll' \in Passes /\ poll'.pc = next /\ poll'.texts = texts
      /\ poll'.candidate = poll.candidate
  BY <1>2, <1>3, <1>4 DEF Passes
<1>7. editor' \in Editors /\ editor'.since = since /\ editor'.twice = editor.twice
  BY <1>2, <1>3, <1>5 DEF Editors
<1>8. ReloadType'
  BY <1>1, <1>2, <1>6, <1>7 DEF ReloadType
<1>9. LastReadInv'
  <2> SUFFICES ASSUME ~editor'.twice, NEW g \in Files
               PROVE  editor'.since[g] <=> files'[g] # poll'.texts[g]
    BY DEF LastReadInv
  <2>1. CASE g = f
    BY <2>1, <1>1, <1>4, <1>5, <1>6, <1>7
  <2>2. CASE g # f
    <3>1. editor.since[g] <=> files[g] # poll.texts[g]
      BY <1>7 DEF ReloadInv, LastReadInv
    <3> QED BY <3>1, <2>2, <1>1, <1>4, <1>5, <1>6, <1>7
  <2> QED BY <2>1, <2>2
<1>10. TwoReadingsInv'
  <2> SUFFICES ASSUME ~editor'.twice, poll'.candidate # Reload!None
               PROVE  \/ \E g \in Files : Lost(g)'
                      \/ \E whole \in shown' : Between(whole)'
    BY DEF TwoReadingsInv
  <2>1. ASSUME NEW g \in Files
        PROVE  HasRead(g)' <=> HasRead(g) \/ g = f
    BY <1>1, <1>6 DEF HasRead, Files
  <2>2. ASSUME NEW g \in Files, Lost(g) PROVE Lost(g)'
    BY <2>1, <2>2, <1>1 DEF Lost
  <2> SUFFICES ASSUME \A g \in Files : ~Lost(g) PROVE \E whole \in shown' : Between(whole)'
    BY <2>2
  <2>3. PICK whole \in shown : Between(whole)
    BY <1>6, <1>7 DEF ReloadInv, TwoReadingsInv
  <2>4. \A g \in Files : editor.since[g] <=> files[g] # poll.texts[g]
    BY <1>7 DEF ReloadInv, LastReadInv
  <2>5. ~HasRead(f)
    BY <1>1 DEF HasRead
  <2>6. ASSUME NEW g \in Files
        PROVE  /\ ~HasRead(g)' => Agrees(g)' /\ (~editor'.since[g] => whole[g] = poll'.texts[g])
               /\ HasRead(g)' /\ Agrees(g)' => whole[g] = poll'.texts[g]
    <3>1. CASE g = f
      <4>1. Agrees(f) /\ (~editor.since[f] => whole[f] = poll.texts[f])
        BY <2>3, <2>5 DEF Between
      <4>2. HasRead(g)'
        BY <2>1, <3>1
      <4>3. Agrees(g)' => files[f] = poll.candidate[f]
        BY <3>1, <1>4, <1>6 DEF Agrees
      <4>4. Agrees(g)' => ~editor.since[f]
        BY <4>1, <4>3, <2>4 DEF Agrees
      <4> QED BY <4>1, <4>2, <4>3, <4>4, <3>1, <1>4, <1>6 DEF Agrees
    <3>2. CASE g # f
      BY <3>2, <2>3, <2>1, <1>4, <1>5, <1>6, <1>7 DEF Between, Agrees
    <3> QED BY <3>1, <3>2
  <2>7. Between(whole)'
    BY <2>6 DEF Between
  <2> QED BY <2>3, <2>7, <1>1
<1>11. SourceInv' /\ AxesInv'
  BY <1>1, <1>7 DEF ReloadInv, SourceInv, WasWhole, AxesInv
<1>12. ReadableInv'
  BY <1>1, <1>4, <1>6 DEF ReloadInv, ReadableInv
<1> QED BY <1>8, <1>9, <1>10, <1>11, <1>12 DEF ReloadInv

\* A pass that is given up has missed a file.
LEMMA GiveUpStep == ReloadInv /\ Reload!GiveUpPass => ReloadInv'
<1> SUFFICES ASSUME ReloadInv, Reload!GiveUpPass PROVE ReloadInv'
  OBVIOUS
<1>1. ReloadType /\ poll \in Passes /\ files \in Reload!Texts
  BY ReloadRanges DEF ReloadInv, ReloadType
<1>2. /\ poll.pc \in Files /\ files[poll.pc] = "missing"
      /\ poll' = [poll EXCEPT !.pc = "common"]
      /\ UNCHANGED <<files, pending, config, pid, shown, editor>>
  BY <1>1, TextFacts DEF Reload!GiveUpPass
<1>3. /\ poll' \in Passes /\ poll'.pc = "common" /\ poll'.texts = poll.texts
      /\ poll'.candidate = poll.candidate
  BY <1>1, <1>2 DEF Passes, Files
<1>4. ReloadType'
  BY <1>1, <1>2, <1>3 DEF ReloadType
<1>5. LastReadInv' /\ ReadableInv'
  BY <1>2, <1>3 DEF ReloadInv, LastReadInv, ReadableInv
<1>6. TwoReadingsInv'
  <2>1. ~HasRead(poll.pc)'
    BY <1>2, <1>3 DEF HasRead, Files
  <2>2. \E f \in Files : Lost(f)'
    BY <2>1, <1>2 DEF Lost, HasRead
  <2> QED BY <2>2 DEF TwoReadingsInv
<1>7. SourceInv' /\ AxesInv'
  BY <1>2 DEF ReloadInv, SourceInv, WasWhole, AxesInv
<1> QED BY <1>4, <1>5, <1>6, <1>7 DEF ReloadInv

\* What is published was on disk as a whole when the pass before ended, and what is on disk
\* now is what the next two readings enclose.
LEMMA CompareStep == ReloadInv /\ Reload!Compare => ReloadInv'
<1> SUFFICES ASSUME ReloadInv, Reload!Compare PROVE ReloadInv'
  OBVIOUS
<1>1. /\ ReloadType /\ poll \in Passes /\ files \in Reload!Texts
      /\ poll.texts \in Reload!Texts /\ poll.lastGood \in Tuning
      /\ poll.attempted \in Reload!Texts \cup {Reload!None}
  BY ReloadRanges DEF ReloadInv, ReloadType
<1> DEFINE next == Reload!Parsed(poll.texts)
           publishes == Reload!Settled /\ Reload!Tunable(poll.texts) /\ Reload!IsNews(next)
           attempted == IF Reload!Settled THEN poll.texts ELSE poll.attempted
           lastGood == IF publishes THEN next ELSE poll.lastGood
           texts == poll.texts
<1>2. /\ poll.pc = "compare"
      /\ poll' = [poll EXCEPT !.pc = "common", !.candidate = texts,
                                  !.attempted = attempted, !.lastGood = lastGood]
      /\ pending' = IF publishes THEN next ELSE pending
      /\ UNCHANGED <<files, config, pid, shown, editor>>
  BY <1>1 DEF Reload!Compare, Passes
<1>3. /\ texts \in Reload!Texts /\ attempted \in Reload!Texts \cup {Reload!None}
      /\ lastGood \in Tuning /\ next \in Tuning /\ texts # Reload!None
  BY <1>1, TextFacts
<1>4. publishes => texts = poll.candidate /\ Reload!Tunable(texts)
  BY DEF Reload!Settled
<1> HIDE DEF publishes, attempted, lastGood, texts
<1>5. /\ poll' \in Passes /\ poll'.pc = "common" /\ poll'.texts = texts
      /\ poll'.candidate = texts
  BY <1>1, <1>2, <1>3 DEF Passes, Files, texts
<1>6. ReloadType'
  BY <1>1, <1>2, <1>3, <1>5 DEF ReloadType
<1>7. LastReadInv' /\ ReadableInv'
  BY <1>2, <1>5 DEF ReloadInv, LastReadInv, ReadableInv, texts
<1>8. TwoReadingsInv'
  <2> SUFFICES ASSUME ~editor'.twice PROVE \E whole \in shown' : Between(whole)'
    BY DEF TwoReadingsInv
  <2>1. \A g \in Files : editor.since[g] <=> files[g] # texts[g]
    BY <1>2 DEF ReloadInv, LastReadInv, texts
  <2>2. Between(files)'
    BY <2>1, <1>2, <1>5 DEF Between, Agrees, HasRead, Files
  <2>3. files' \in shown'
    BY <1>6 DEF ReloadType
  <2>4. files' = files
    BY <1>2
  <2> QED BY <2>2, <2>3, <2>4, <1>2
<1>9. SourceInv'
  <2> SUFFICES ASSUME ~editor.twice, publishes PROVE WasWhole(next)
    BY <1>2 DEF ReloadInv, SourceInv, WasWhole
  <2>1. poll.candidate # Reload!None
    BY <1>3, <1>4
  <2>2. PICK whole \in shown : Between(whole)
    BY <1>2, <2>1 DEF ReloadInv, TwoReadingsInv, Lost, HasRead
  <2>3. \A g \in Files : whole[g] = texts[g]
    BY <2>2, <1>2, <1>4 DEF Between, Agrees, HasRead, texts
  <2>4. whole = texts
    BY <2>3, <1>1, <1>3, TextFacts DEF ReloadType
  <2> QED BY <2>2, <2>4, <1>4 DEF WasWhole, texts
<1>10. AxesInv'
  BY <1>2 DEF ReloadInv, AxesInv
<1> QED BY <1>6, <1>7, <1>8, <1>9, <1>10 DEF ReloadInv

\* The control thread takes what is pending; no cycle leaves an integral of before a break.
LEMMA SendStep == ReloadInv /\ Reload!Send => ReloadInv'
<1> SUFFICES ASSUME ReloadInv, Reload!Send PROVE ReloadInv'
  OBVIOUS
<1>1. PICK c \in Reload!Cycles :
        pid' = Reload!AfterSend(IF pending = Reload!None THEN pid ELSE Reload!Tuned(pending), c)
  BY DEF Reload!Send
<1>2. /\ config' = IF pending = Reload!None THEN config ELSE pending
      /\ pending' = Reload!None /\ UNCHANGED <<files, poll, shown, editor>>
  BY DEF Reload!Send
<1> DEFINE memory == IF pending = Reload!None THEN pid ELSE Reload!Tuned(pending)
<1>3. memory \in [Reload!Axes -> {"zero", "fresh"}]
  BY DEF ReloadInv, AxesInv, Reload!Tuned
<1> HIDE DEF memory
<1>4. AxesInv'
  BY <1>1, <1>3 DEF AxesInv, Reload!AfterSend, Reload!Stepped, Reload!Zero, memory
<1>5. ReloadType'
  BY <1>2 DEF ReloadInv, ReloadType
<1>6. LastReadInv' /\ ReadableInv'
  BY <1>2 DEF ReloadInv, LastReadInv, ReadableInv
<1>7. TwoReadingsInv'
  BY <1>2 DEF ReloadInv, TwoReadingsInv, Between, Agrees, HasRead, Lost
<1>8. SourceInv'
  BY <1>2 DEF ReloadInv, SourceInv, WasWhole
<1> QED BY <1>4, <1>5, <1>6, <1>7, <1>8 DEF ReloadInv

LEMMA ReloadInvIsTuned == ReloadInv => Reload!PidIsTuned
<1> SUFFICES ASSUME ReloadInv PROVE Reload!PidIsTuned
  OBVIOUS
<1>1. Reload!TunedFromSteadyFiles
  BY DEF ReloadInv, SourceInv, WasWhole, Reload!TunedFromSteadyFiles, Reload!TunedFromWholeFiles
<1>2. Reload!PidForgetsBreaks
  BY DEF ReloadInv, AxesInv, Reload!PidForgetsBreaks
<1> QED BY <1>1, <1>2 DEF Reload!PidIsTuned

LEMMA ReloadStep == ReloadInv /\ [Reload!Next]_Reload!vars => ReloadInv'
<1> SUFFICES ASSUME ReloadInv, [Reload!Next]_Reload!vars PROVE ReloadInv'
  OBVIOUS
<1>1. CASE Reload!Save
  BY <1>1, SaveStep
<1>2. CASE Reload!Read
  <2>1. CASE Reload!ReadFile("common", "algorithm")
    BY <2>1, ReadStep DEF Files
  <2>2. CASE Reload!ReadFile("algorithm", "transport")
    BY <2>2, ReadStep DEF Files
  <2>3. CASE Reload!ReadFile("transport", "compare")
    BY <2>3, ReadStep DEF Files
  <2>4. CASE Reload!GiveUpPass
    BY <2>4, GiveUpStep
  <2> QED BY <1>2, <2>1, <2>2, <2>3, <2>4 DEF Reload!Read
<1>3. CASE Reload!Compare
  BY <1>3, CompareStep
<1>4. CASE Reload!Send
  BY <1>4, SendStep
<1>5. CASE UNCHANGED Reload!vars
  BY <1>5 DEF Reload!vars, ReloadInv, ReloadType, LastReadInv, ReadableInv, TwoReadingsInv, Between,
              Agrees, HasRead, Lost, SourceInv, WasWhole, AxesInv
<1> QED BY <1>1, <1>2, <1>3, <1>4, <1>5 DEF Reload!Next, Reload!Reader

\* gimbal_tuning_reload.cpp, pid_rate_controller.cpp: as long as no file is saved twice
\* between two of its readings, the parameters in force and the pending ones are of a set of
\* files that was on disk as a whole, and no axis integrates across a break; for every number
\* of saves.
THEOREM GimbalIsTuned == Reload!Spec => []Reload!PidIsTuned
  BY ReloadInit, ReloadStep, ReloadInvIsTuned, PTL DEF Reload!Spec

-----------------------------------------------------------------------------
(* The main program: the objects of Run() and the threads that use them. *)

VARIABLES backend, phase, place, alive, threads, sinks, code, reported, signaled, control
App == INSTANCE Application WITH at <- place

Objects ==
  {"supervisor", "mailbox", "pipeline", "evaluator", "camera", "window", "publisher", "web",
   "geometry", "adapter", "control"}

\* The stages that matter to what threads need: the supervisor is built second and the
\* mailbox fifth, on the serial back end the geometry 14th and the adapter 17th, the
\* control thread last.
StageAt(i) == App!Stages(backend)[i].object
Last == IF backend = "talos" THEN 16 ELSE 18

Names == {"config", "detector", "sink", "board"} \cup Objects
Stages == [object : Names, failure : Nat, optional : BOOLEAN]

LEMMA StageFacts ==
  ASSUME backend \in {"talos", "mindvision"}
  PROVE  /\ App!Stages(backend) \in Seq(Stages) /\ Len(App!Stages(backend)) = Last
         /\ StageAt(2) = "supervisor" /\ StageAt(5) = "mailbox"
         /\ \A i \in 1 .. Last - 1 : StageAt(i) # "control"
         /\ StageAt(Last) = "control"
         /\ backend = "mindvision" => StageAt(14) = "geometry" /\ StageAt(17) = "adapter"
         /\ \A i \in 1 .. Last : StageAt(i) = "web" => i = 13
         /\ App!Stages(backend)[2].optional = FALSE /\ App!Stages(backend)[5].optional = FALSE
         /\ backend = "mindvision" => /\ App!Stages(backend)[14].optional = FALSE
                                      /\ App!Stages(backend)[17].optional = FALSE
<1> DEFINE first ==
             <<App!Must("config", 1), App!Must("supervisor", 1), App!Must("detector", 2),
               App!Must("config", 1), App!Must("mailbox", 1), App!Must("pipeline", 2),
               App!May("evaluator"), App!Must("config", 1), App!Must("camera", 3),
               App!Must("config", 1), App!May("window"), App!May("publisher"), App!May("web")>>
           talos == <<App!Must("config", 1), App!Must("sink", 6), App!Must("control", 7)>>
           serial == <<App!Must("geometry", 1), App!Must("config", 1), App!Must("board", 0),
                       App!Must("adapter", 1), App!Must("control", 7)>>
           rest == IF backend = "talos" THEN talos ELSE serial
<1>1. App!Stages(backend) = first \o rest
  BY DEF App!Stages
<1>2. /\ \A o \in Names, f \in Nat : App!Must(o, f) \in Stages /\ App!Must(o, f).object = o
                                    /\ App!Must(o, f).optional = FALSE
      /\ \A o \in Names : App!May(o) \in Stages /\ App!May(o).object = o
  BY DEF App!Must, App!May, Stages
<1>3. /\ first \in Seq(Stages) /\ Len(first) = 13
      /\ first[2].object = "supervisor" /\ first[2].optional = FALSE
      /\ first[5].object = "mailbox" /\ first[5].optional = FALSE
      /\ \A i \in 1 .. 13 : first[i].object # "control" /\ (first[i].object = "web" => i = 13)
  <2>1. Len(first) = 13 /\ first[2] = App!Must("supervisor", 1) /\ first[5] = App!Must("mailbox", 1)
    OBVIOUS
  <2>2. first \in Seq(Stages)
    BY <1>2 DEF Names, Objects
  <2>3. ASSUME NEW i \in 1 .. 13
        PROVE  first[i].object # "control" /\ (first[i].object = "web" => i = 13)
    <3>1. i \in 1 .. 6 => first[i].object # "control" /\ first[i].object # "web"
      BY <1>2 DEF Names, Objects
    <3>2. i \in 7 .. 12 => first[i].object # "control" /\ first[i].object # "web"
      BY <1>2 DEF Names, Objects
    <3>3. first[13].object # "control"
      BY <1>2 DEF Names, Objects
    <3> QED BY <3>1, <3>2, <3>3
  <2> QED BY <2>1, <2>2, <2>3, <1>2 DEF Names, Objects
<1>4. /\ talos \in Seq(Stages) /\ Len(talos) = 3 /\ talos[3].object = "control"
      /\ \A i \in 1 .. 3 : talos[i].object # "web" /\ (talos[i].object = "control" => i = 3)
  BY <1>2 DEF Names, Objects
<1>5. /\ serial \in Seq(Stages) /\ Len(serial) = 5 /\ serial[5].object = "control"
      /\ serial[1].object = "geometry" /\ serial[1].optional = FALSE
      /\ serial[4].object = "adapter" /\ serial[4].optional = FALSE
      /\ \A i \in 1 .. 5 : serial[i].object # "web" /\ (serial[i].object = "control" => i = 5)
  BY <1>2 DEF Names, Objects
<1> HIDE DEF first, talos, serial
<1>6. /\ rest \in Seq(Stages) /\ Len(rest) = Last - 13 /\ rest[Last - 13].object = "control"
      /\ backend = "mindvision" => /\ rest[1].object = "geometry" /\ rest[1].optional = FALSE
                                   /\ rest[4].object = "adapter" /\ rest[4].optional = FALSE
      /\ \A i \in 1 .. Last - 13 :
           rest[i].object # "web" /\ (rest[i].object = "control" => i = Last - 13)
  <2>1. CASE backend = "talos"
    <3>1. rest = talos /\ Last - 13 = 3
      BY <2>1 DEF Last
    <3> QED BY <2>1, <3>1, <1>4
  <2>2. CASE backend = "mindvision"
    <3>1. rest = serial /\ Last - 13 = 5
      BY <2>2 DEF Last
    <3> QED BY <2>2, <3>1, <1>5
  <2> QED BY <2>1, <2>2
<1> HIDE DEF rest
<1>7. Last \in {16, 18} /\ (backend = "mindvision" => Last = 18)
  BY DEF Last
<1> DEFINE stages == first \o rest
<1>8. /\ stages \in Seq(Stages) /\ Len(stages) = Last
      /\ \A i \in 1 .. 13 : stages[i] = first[i]
      /\ \A i \in 14 .. Last : stages[i] = rest[i - 13]
  <2>1. /\ stages \in Seq(Stages) /\ Len(stages) = Len(first) + Len(rest)
        /\ \A i \in 1 .. Len(first) + Len(rest) :
             stages[i] = IF i <= Len(first) THEN first[i] ELSE rest[i - Len(first)]
    BY <1>3, <1>6, ConcatProperties
  <2>2. Len(first) + Len(rest) = Last /\ 1 .. 13 \subseteq 1 .. Last /\ 14 .. Last \subseteq 1 .. Last
    BY <1>3, <1>6, <1>7
  <2>3. \A i \in 1 .. 13 : stages[i] = first[i]
    BY <2>1, <2>2, <1>3
  <2>4. \A i \in 14 .. Last : stages[i] = rest[i - 13]
    BY <2>1, <2>2, <1>3, <1>7
  <2> QED BY <2>1, <2>2, <2>3, <2>4
<1> HIDE DEF stages
<1>9. /\ stages[2] = first[2] /\ stages[5] = first[5] /\ stages[14] = rest[1]
      /\ stages[Last] = rest[Last - 13]
      /\ backend = "mindvision" => stages[17] = rest[4]
  BY <1>7, <1>8
<1>10. ASSUME NEW i \in 1 .. Last
       PROVE  /\ stages[i].object = "web" => i = 13
              /\ stages[i].object = "control" => i = Last
  <2>1. CASE i \in 1 .. 13
    BY <2>1, <1>3, <1>8
  <2>2. CASE i \in 14 .. Last
    <3>1. i - 13 \in 1 .. Last - 13
      BY <2>2, <1>7
    <3> QED BY <2>2, <3>1, <1>6, <1>8
  <2> QED BY <2>1, <2>2, <1>7
<1>11. App!Stages(backend) = stages
  BY <1>1 DEF stages
<1>12. \A i : StageAt(i) = stages[i].object
  BY <1>11 DEF StageAt
<1>13. /\ StageAt(2) = "supervisor" /\ StageAt(5) = "mailbox" /\ StageAt(Last) = "control"
       /\ backend = "mindvision" => /\ StageAt(14) = "geometry" /\ stages[14].optional = FALSE
                                    /\ StageAt(17) = "adapter" /\ stages[17].optional = FALSE
       /\ stages[2].optional = FALSE /\ stages[5].optional = FALSE
  BY <1>3, <1>6, <1>9, <1>12
<1>14. ASSUME NEW i \in 1 .. Last - 1
       PROVE  StageAt(i) # "control"
  <2>1. i \in 1 .. Last /\ i # Last
    BY <1>7
  <2> QED BY <2>1, <1>10, <1>12
<1>15. \A i \in 1 .. Last : StageAt(i) = "web" => i = 13
  BY <1>10, <1>12
<1> QED BY <1>8, <1>11, <1>13, <1>14, <1>15

LEMMA PositionFacts ==
  /\ App!Position("supervisor") = 1 /\ App!Position("mailbox") = 2
  /\ App!Position("pipeline") = 3 /\ App!Position("evaluator") = 4
  /\ App!Position("camera") = 5 /\ App!Position("window") = 6
  /\ App!Position("publisher") = 7 /\ App!Position("web") = 8
  /\ App!Position("geometry") = 9 /\ App!Position("adapter") = 10
  /\ App!Position("control") = 11
  BY SMTT(60) DEF App!Position, App!Declared

LEMMA RangeFact == App!Range(App!Declared) = Objects
<1>1. App!Declared \in Seq(Objects) /\ Len(App!Declared) = 11 /\ DOMAIN App!Declared = 1 .. 11
  BY DEF App!Declared, Objects
<1>2. \A i \in 1 .. 11 : App!Declared[i] \in Objects
  BY DEF App!Declared, Objects
<1>3. \A o \in Objects : \E i \in 1 .. 11 : App!Declared[i] = o
  BY DEF App!Declared, Objects
<1> QED BY <1>1, <1>2, <1>3 DEF App!Range

\* The object on top exists, and none that exists was declared after it.
LEMMA TopFacts ==
  ASSUME alive \subseteq Objects, alive # {}
  PROVE  /\ App!Top \in alive
         /\ \A p \in alive : App!Position(p) <= App!Position(App!Top)
<1> DEFINE IsTop(o) == o \in alive /\ \A p \in alive : App!Position(p) <= App!Position(o)
<1>1. \E o \in alive : \A p \in alive : App!Position(p) <= App!Position(o)
  <2>1. \A p \in alive : App!Position(p) \in 1 .. 11
    BY PositionFacts DEF Objects
  <2> DEFINE Below(n) == \A p \in alive : App!Position(p) <= n
  <2>2. \E n \in 1 .. 11 : Below(n) /\ \E o \in alive : App!Position(o) = n
    <3>1. Below(11)
      BY <2>1
    <3>2. ASSUME NEW n \in 1 .. 11, Below(n), \A o \in alive : App!Position(o) # n
          PROVE  Below(n - 1) /\ n > 1
      BY <3>2, <2>1
    <3> HIDE DEF Below
    <3> QED BY <3>1, <3>2, SMTT(60)
  <2> QED BY <2>2
<1> QED BY <1>1 DEF App!Top

\* All that exists is built in order, and while it is built no control thread runs.
BuiltInv ==
  phase = "build" =>
    /\ place > 2 => "supervisor" \in alive
    /\ place > 5 => "mailbox" \in alive
    /\ place > 14 /\ backend = "mindvision" => "geometry" \in alive
    /\ place > 17 /\ backend = "mindvision" /\ control => "adapter" \in alive
    /\ sinks \subseteq alive /\ "control" \notin threads

AppType ==
  /\ backend \in {"talos", "mindvision"}
  /\ phase \in {"build", "run", "unwind", "exited"}
  /\ place \in 1 .. Last
  /\ alive \subseteq Objects /\ threads \subseteq alive /\ sinks \subseteq {"publisher", "web"}

UsesInv == \A t \in threads : App!Uses(t) \subseteq alive

AppInv == AppType /\ BuiltInv /\ UsesInv /\ (phase = "exited" => alive = {})

\* What a thread uses was declared before it.
LEMMA UsesFacts ==
  ASSUME AppType, NEW t \in Objects, NEW u \in App!Uses(t)
  PROVE  App!Position(u) < App!Position(t)
  BY PositionFacts DEF AppType, App!Uses, Objects

LEMMA AppInit == App!Init => AppInv
<1> SUFFICES ASSUME App!Init PROVE AppInv
  OBVIOUS
<1>1. AppType
  BY DEF App!Init, AppType, Last
<1>2. BuiltInv /\ UsesInv /\ phase # "exited"
  BY DEF App!Init, BuiltInv, UsesInv
<1> QED BY <1>1, <1>2 DEF AppInv

\* After a stage comes the next, or the run.
LEMMA Advances ==
  ASSUME AppInv, App!Advance, UNCHANGED backend, App!Building
  PROVE  /\ phase' \in {"build", "run"} /\ place' \in 1 .. Last /\ Last' = Last
         /\ phase' = "build" => place' = place + 1 /\ place # Last
<1>1. Len(App!Stages(backend)) = Last /\ place \in 1 .. Last /\ Last \in {16, 18}
  BY StageFacts DEF AppInv, AppType, Last
<1> QED BY <1>1 DEF App!Advance, Last, App!Building

LEMMA SkipStep == AppInv /\ App!Skip => AppInv'
<1> SUFFICES ASSUME AppInv, App!Skip PROVE AppInv'
  OBVIOUS
<1>1. UNCHANGED <<backend, alive, threads, sinks, control>> /\ App!Building /\ App!Advance
      /\ App!Stage.object \in {"board", "adapter", "control"} /\ ~control
  BY DEF App!Skip, App!Skipped
<1>2. /\ phase' \in {"build", "run"} /\ place' \in 1 .. Last /\ Last' = Last
      /\ phase' = "build" => place' = place + 1
  BY <1>1, Advances
<1>3. AppType'
  BY <1>1, <1>2 DEF AppInv, AppType
<1>4. UsesInv'
  BY <1>1 DEF AppInv, UsesInv, App!Uses
<1>5. /\ place # 2 /\ place # 5 /\ (backend = "mindvision" => place # 14)
  BY <1>1, StageFacts DEF App!Stage, StageAt, AppInv, AppType
<1>6. BuiltInv'
  BY <1>1, <1>2, <1>5 DEF AppInv, AppType, BuiltInv, App!Building
<1> QED BY <1>2, <1>3, <1>4, <1>6 DEF AppInv

LEMMA LeaveOutStep == AppInv /\ App!LeaveOut => AppInv'
<1> SUFFICES ASSUME AppInv, App!LeaveOut PROVE AppInv'
  OBVIOUS
<1>1. UNCHANGED <<backend, alive, threads, sinks, control>> /\ App!Building /\ App!Advance
      /\ App!Stage.optional
  BY DEF App!LeaveOut
<1>2. /\ phase' \in {"build", "run"} /\ place' \in 1 .. Last /\ Last' = Last
      /\ phase' = "build" => place' = place + 1
  BY <1>1, Advances
<1>3. AppType'
  BY <1>1, <1>2 DEF AppInv, AppType
<1>4. UsesInv'
  BY <1>1 DEF AppInv, UsesInv, App!Uses
<1>5. /\ place # 2 /\ place # 5 /\ (backend = "mindvision" => place # 14 /\ place # 17)
  BY <1>1, StageFacts DEF App!Stage, AppInv, AppType
<1>6. BuiltInv'
  BY <1>1, <1>2, <1>5 DEF AppInv, AppType, BuiltInv, App!Building
<1> QED BY <1>2, <1>3, <1>4, <1>6 DEF AppInv

LEMMA MakeStep ==
  ASSUME AppInv, App!Build
  PROVE  AppInv'
<1> DEFINE object == App!Stage.object
           object1 == {object} \cap Objects
<1>1. /\ App!Building /\ App!Advance /\ UNCHANGED <<backend, control>>
      /\ ~App!Skipped
      /\ alive' = alive \cup object1
      /\ threads' \in {threads, threads \cup ({object} \cap App!Threaded)}
      /\ sinks' \in {sinks, sinks \cup ({object} \cap {"publisher", "web"})}
  BY RangeFact DEF App!Build, App!Make
<1>2. /\ phase' \in {"build", "run"} /\ place' \in 1 .. Last /\ Last' = Last
      /\ phase' = "build" => place' = place + 1 /\ place # Last
  BY <1>1, Advances
<1>3. /\ place = 2 => object = "supervisor"
      /\ place = 5 => object = "mailbox"
      /\ place = 14 /\ backend = "mindvision" => object = "geometry"
      /\ place = 17 /\ backend = "mindvision" => object = "adapter"
      /\ object = "control" => place = Last
      /\ object = "web" => place = 13
  <2>1. place \in 1 .. Last /\ object = StageAt(place) /\ Last \in {16, 18}
    BY DEF App!Stage, StageAt, AppInv, AppType, Last
  <2>2. backend \in {"talos", "mindvision"}
    BY DEF AppInv, AppType
  <2> HIDE DEF object
  <2>3. object = "control" => place = Last
    <3>1. place # Last => place \in 1 .. Last - 1
      BY <2>1
    <3> QED BY <3>1, <2>1, <2>2, StageFacts
  <2>4. object = "web" => place = 13
    BY <2>1, <2>2, StageFacts
  <2>5. /\ place = 2 => object = "supervisor"
        /\ place = 5 => object = "mailbox"
        /\ place = 14 /\ backend = "mindvision" => object = "geometry"
        /\ place = 17 /\ backend = "mindvision" => object = "adapter"
    BY <2>1, <2>2, StageFacts
  <2> QED BY <2>3, <2>4, <2>5
<1>4. /\ place \in 1 .. Last /\ Last \in {16, 18} /\ sinks \subseteq alive /\ "control" \notin threads
      /\ place > 2 => "supervisor" \in alive
      /\ place > 5 => "mailbox" \in alive
      /\ place > 14 /\ backend = "mindvision" => "geometry" \in alive
      /\ place > 17 /\ backend = "mindvision" /\ control => "adapter" \in alive
      /\ backend = "mindvision" => Last = 18
      /\ object = "control" /\ backend = "mindvision" => control
  BY <1>1 DEF AppInv, AppType, BuiltInv, Last, App!Building, App!Skipped
<1> HIDE DEF object
<1>5. AppType'
  BY <1>1, <1>2 DEF AppInv, AppType, App!Threaded, Objects
<1>6. sinks' \subseteq alive'
  BY <1>1, <1>4 DEF Objects
<1>7. BuiltInv'
  <2> SUFFICES ASSUME phase' = "build" PROVE BuiltInv'
    BY DEF BuiltInv
  <2>1. place' = place + 1 /\ place # Last
    BY <1>2
  <2>2. "control" \notin threads'
    BY <2>1, <1>1, <1>3, <1>4
  <2>3. place' > 2 => "supervisor" \in alive'
    <3>1. place' > 2 => place > 2 \/ place = 2
      BY <2>1, <1>4
    <3>2. place = 2 => "supervisor" \in object1
      BY <1>3 DEF Objects
    <3> QED BY <3>1, <3>2, <1>1, <1>4
  <2>4. place' > 5 => "mailbox" \in alive'
    <3>1. place' > 5 => place > 5 \/ place = 5
      BY <2>1, <1>4
    <3>2. place = 5 => "mailbox" \in object1
      BY <1>3 DEF Objects
    <3> QED BY <3>1, <3>2, <1>1, <1>4
  <2>5. place' > 14 /\ backend' = "mindvision" => "geometry" \in alive'
    <3>1. place' > 14 => place > 14 \/ place = 14
      BY <2>1, <1>4
    <3>2. place = 14 /\ backend = "mindvision" => "geometry" \in object1
      BY <1>3 DEF Objects
    <3> QED BY <3>1, <3>2, <1>1, <1>4
  <2>6. place' > 17 /\ backend' = "mindvision" /\ control' => "adapter" \in alive'
    <3>1. place' > 17 => place > 17 \/ place = 17
      BY <2>1, <1>4
    <3>2. place = 17 /\ backend = "mindvision" => "adapter" \in object1
      BY <1>3 DEF Objects
    <3> QED BY <3>1, <3>2, <1>1, <1>4
  <2> QED BY <2>2, <2>3, <2>4, <2>5, <2>6, <1>6 DEF BuiltInv
<1>8. ASSUME NEW t \in threads'
      PROVE  App!Uses(t)' \subseteq alive'
  <2>1. CASE t = "control"
    <3>1. object = "control" /\ place = Last
      BY <1>1, <1>3, <1>4, <2>1
    <3>2. /\ "supervisor" \in alive'
          /\ backend = "mindvision" => "geometry" \in alive' /\ "adapter" \in alive'
      BY <3>1, <1>1, <1>4
    <3> QED BY <3>2, <2>1, <1>1, <1>6 DEF App!Uses
  <2>2. CASE t = "web"
    <3>1. "mailbox" \in alive
      BY <2>2, <1>1, <1>3, <1>4 DEF AppInv, UsesInv, App!Uses
    <3> QED BY <3>1, <2>2, <1>1 DEF App!Uses
  <2>3. CASE t # "control" /\ t # "web"
    BY <2>3 DEF App!Uses
  <2> QED BY <2>1, <2>2, <2>3
<1> QED BY <1>2, <1>5, <1>7, <1>8 DEF AppInv, UsesInv

LEMMA FailStep == AppInv /\ App!Fail => AppInv'
<1> SUFFICES ASSUME AppInv, App!Fail PROVE AppInv'
  OBVIOUS
<1>1. /\ UNCHANGED <<backend, place, threads, sinks>> /\ phase' = "unwind"
      /\ alive' \in {alive, alive \cup ({App!Stage.object} \cap {"control"})}
  BY DEF App!Fail
<1>2. AppType' /\ BuiltInv'
  BY <1>1 DEF AppInv, AppType, BuiltInv, Last, Objects
<1>3. UsesInv'
  BY <1>1 DEF AppInv, UsesInv, App!Uses
<1> QED BY <1>1, <1>2, <1>3 DEF AppInv

\* The board answers or is waited for no longer, a signal comes, or the run ends.
LEMMA RunStep ==
  ASSUME AppInv, App!BoardAnswers \/ App!LeaveWait \/ App!Signal \/ App!EndRun
  PROVE  AppInv'
<1>1. UNCHANGED <<backend, alive, sinks, control>> /\ threads' \subseteq threads
  BY DEF App!BoardAnswers, App!LeaveWait, App!Signal, App!EndRun
<1>2. UsesInv'
  BY <1>1 DEF AppInv, UsesInv, App!Uses
<1>3. CASE App!BoardAnswers
  <2>1. App!Building /\ App!Advance /\ App!Stage.object = "board" /\ UNCHANGED threads
    BY <1>3 DEF App!BoardAnswers
  <2>2. /\ phase' \in {"build", "run"} /\ place' \in 1 .. Last /\ Last' = Last
        /\ phase' = "build" => place' = place + 1
    BY <1>1, <2>1, Advances
  <2>3. AppType'
    BY <1>1, <2>1, <2>2 DEF AppInv, AppType
  <2>4. /\ place # 2 /\ place # 5 /\ (backend = "mindvision" => place # 14 /\ place # 17)
    BY <2>1, StageFacts DEF App!Stage, StageAt, AppInv, AppType
  <2>5. BuiltInv'
    BY <1>1, <2>1, <2>2, <2>4 DEF AppInv, AppType, BuiltInv, App!Building
  <2> QED BY <1>2, <2>2, <2>3, <2>5 DEF AppInv
<1>4. CASE App!LeaveWait \/ App!Signal \/ App!EndRun
  <2>1. UNCHANGED place /\ (phase' = phase \/ phase' = "unwind")
    BY <1>4 DEF App!LeaveWait, App!Signal, App!EndRun
  <2>2. AppType' /\ BuiltInv'
    BY <1>1, <2>1 DEF AppInv, AppType, BuiltInv, Last
  <2> QED BY <1>1, <1>2, <2>1, <2>2 DEF AppInv
<1> QED BY <1>3, <1>4

\* The object on top has no thread that runs, and no thread that runs uses it.
LEMMA UnwindStep == AppInv /\ App!Unwind => AppInv'
<1> SUFFICES ASSUME AppInv, App!Unwind PROVE AppInv'
  OBVIOUS
<1>1. UNCHANGED <<backend, place, sinks>> /\ phase = "unwind" /\ phase' \in {"unwind", "exited"}
  BY DEF App!Unwind, App!Join, App!Destroy, App!Exit
<1>2. BuiltInv'
  BY <1>1 DEF BuiltInv
<1>3. CASE App!Join \/ App!Exit
  <2>1. /\ UNCHANGED alive /\ threads' \subseteq threads /\ (phase' = "exited" => alive = {})
    BY <1>3 DEF App!Join, App!Exit
  <2>2. AppType' /\ UsesInv'
    BY <1>1, <2>1 DEF AppInv, AppType, UsesInv, App!Uses, Last
  <2> QED BY <1>2, <2>1, <2>2 DEF AppInv
<1>4. CASE App!Destroy
  <2>1. /\ alive # {} /\ App!Top \notin threads /\ alive' = alive \ {App!Top}
        /\ UNCHANGED <<threads, phase>>
    BY <1>4 DEF App!Destroy
  <2>2. \A p \in alive : App!Position(p) <= App!Position(App!Top)
    BY <2>1, TopFacts DEF AppInv, AppType
  <2>3. ASSUME NEW t \in threads, NEW u \in App!Uses(t)
        PROVE  u # App!Top /\ u \in alive
    <3>1. t \in alive /\ t \in Objects /\ u \in alive /\ u \in Objects
      BY DEF AppInv, AppType, UsesInv
    <3>2. App!Position(t) <= App!Position(App!Top) /\ App!Position(u) < App!Position(t)
      BY <3>1, <2>2, UsesFacts DEF AppInv
    <3>3. App!Position(t) \in Nat /\ App!Position(u) \in Nat
      BY <3>1, PositionFacts DEF Objects
    <3> QED BY <3>1, <3>2, <3>3
  <2>4. \A t : App!Uses(t)' = App!Uses(t)
    BY <1>1 DEF App!Uses
  <2>5. UsesInv'
    BY <2>1, <2>3, <2>4 DEF UsesInv
  <2>6. AppType'
    BY <1>1, <2>1 DEF AppInv, AppType, Last
  <2> QED BY <1>1, <1>2, <2>1, <2>5, <2>6 DEF AppInv
<1> QED BY <1>3, <1>4 DEF App!Unwind

LEMMA AppInvIsSound == AppInv => App!ThreadsHaveTheirMeans
  BY DEF AppInv, AppType, UsesInv, App!ThreadsHaveTheirMeans

LEMMA AppStep == AppInv /\ [App!Next]_App!vars => AppInv'
<1> SUFFICES ASSUME AppInv, [App!Next]_App!vars PROVE AppInv'
  OBVIOUS
<1>1. CASE UNCHANGED App!vars
  BY <1>1 DEF AppInv, AppType, BuiltInv, UsesInv, App!Uses, Last, App!vars
<1>2. CASE App!Next
  BY <1>2, SkipStep, LeaveOutStep, MakeStep, FailStep, RunStep, UnwindStep
     DEF App!Next, App!Startup
<1> QED BY <1>1, <1>2

\* main.cpp 327-331: no thread outlives an object that its code reaches, and none is left
\* behind, at whichever stage the program fails or ends.
THEOREM ThreadsAreJoined == App!Spec => []App!ThreadsHaveTheirMeans
  BY AppInit, AppStep, AppInvIsSound, PTL DEF App!Spec

-----------------------------------------------------------------------------
(* Sequences that are read by place. *)

IsSeq(s) == s \in Seq({s[i] : i \in DOMAIN s})

LEMMA SeqFacts ==
  ASSUME NEW s, IsSeq(s)
  PROVE  /\ Len(s) \in Nat /\ DOMAIN s = 1 .. Len(s)
         /\ \A S : (\A i \in DOMAIN s : s[i] \in S) => s \in Seq(S)
<1>1. Len(s) \in Nat /\ DOMAIN s = 1 .. Len(s)
  BY DEF IsSeq
<1>2. ASSUME NEW S, \A i \in DOMAIN s : s[i] \in S
      PROVE  s \in Seq(S)
  BY <1>1, <1>2, SeqDef DEF IsSeq
<1> QED BY <1>1, <1>2

LEMMA TypedSeqFacts ==
  ASSUME NEW S, NEW s \in Seq(S)
  PROVE  IsSeq(s)
  BY SeqDef DEF IsSeq

LEMMA AppendFacts ==
  ASSUME NEW s, IsSeq(s), NEW e
  PROVE  /\ IsSeq(Append(s, e)) /\ Len(Append(s, e)) = Len(s) + 1
         /\ DOMAIN Append(s, e) = 1 .. Len(s) + 1
         /\ \A i \in DOMAIN s : Append(s, e)[i] = s[i]
         /\ Append(s, e)[Len(s) + 1] = e
<1> DEFINE S == {s[i] : i \in DOMAIN s} \cup {e}
<1>1. s \in Seq(S) /\ e \in S /\ Len(s) \in Nat /\ DOMAIN s = 1 .. Len(s)
  BY SeqFacts
<1> HIDE DEF S
<1>2. /\ Append(s, e) \in Seq(S) /\ Len(Append(s, e)) = Len(s) + 1
      /\ \A i \in 1 .. Len(s) : Append(s, e)[i] = s[i]
      /\ Append(s, e)[Len(s) + 1] = e
  BY <1>1, AppendProperties
<1>3. IsSeq(Append(s, e))
  BY <1>2, TypedSeqFacts
<1> QED BY <1>1, <1>2, <1>3, SeqFacts

\* One entry of a sequence is replaced.
LEMMA ExceptFacts ==
  ASSUME NEW s, IsSeq(s), NEW k \in DOMAIN s, NEW e
  PROVE  /\ IsSeq([s EXCEPT ![k] = e]) /\ Len([s EXCEPT ![k] = e]) = Len(s)
         /\ DOMAIN [s EXCEPT ![k] = e] = DOMAIN s /\ [s EXCEPT ![k] = e][k] = e
         /\ \A i \in DOMAIN s : i # k => [s EXCEPT ![k] = e][i] = s[i]
<1> DEFINE S == {s[i] : i \in DOMAIN s} \cup {e}
           t == [s EXCEPT ![k] = e]
<1>1. s \in Seq(S) /\ e \in S /\ Len(s) \in Nat /\ DOMAIN s = 1 .. Len(s)
  BY SeqFacts
<1> HIDE DEF S
<1>2. t \in Seq(S) /\ Len(t) = Len(s) /\ t[k] = e /\ \A i \in DOMAIN s : i # k => t[i] = s[i]
  BY <1>1, SeqDef
<1> QED BY <1>1, <1>2, TypedSeqFacts, SeqFacts

-----------------------------------------------------------------------------
(* Intrinsic calibration. *)

CONSTANTS MinSamples, MaxFrames, MaxSolves
VARIABLES disk, capture, solver
Intrinsic == INSTANCE IntrinsicCalibration WITH MaxSolutions <- MaxSolves

\* The files of a session and the memory of a solve are what the modules say they are.
IntrinsicShape ==
  /\ disk = [session |-> disk.session, images |-> disk.images, excluded |-> disk.excluded,
             solutions |-> disk.solutions]
  /\ solver = [at |-> solver.at, images |-> solver.images, samples |-> solver.samples]
  /\ solver.at \in {"idle", "reviewing", "accepted"}

\* A solution is a session and intrinsics.
IsSolution(s) == s = [session |-> s.session, intrinsics |-> s.intrinsics]

Solutions == DOMAIN disk.solutions

SolutionsInv ==
  /\ IsSeq(disk.solutions)
  /\ \A i \in Solutions : IsSolution(disk.solutions[i])

\* The solution that a running solve writes has no intrinsics yet, and its session is that
\* of an accepted review before they are written.
Earned(s) == s.session.status = "passed" /\ Intrinsic!Enough(s.session.samples)

RunningInv ==
  solver.at # "idle" =>
    /\ Len(disk.solutions) # 0
    /\ disk.solutions[Len(disk.solutions)].intrinsics = Intrinsic!NoFile
    /\ solver.at = "accepted" => Earned(disk.solutions[Len(disk.solutions)])

IntrinsicInv == IntrinsicShape /\ SolutionsInv /\ RunningInv /\ Intrinsic!IntrinsicsAreEarned

LEMMA IntrinsicInit == Intrinsic!Init => IntrinsicInv
  BY DEF IsSeq, Intrinsic!Init, IntrinsicInv, IntrinsicShape, SolutionsInv, Solutions, RunningInv,
         Intrinsic!IntrinsicsAreEarned

\* The capturing process and the kill of the solver leave the solutions alone.
LEMMA SolutionsStay ==
  ASSUME IntrinsicInv, disk'.solutions = disk.solutions, IntrinsicShape',
         \/ UNCHANGED solver
         \/ solver'.at \in {"idle", "reviewing"} /\ solver.at # "idle"
  PROVE  IntrinsicInv'
  BY DEF IntrinsicInv, SolutionsInv, Solutions, RunningInv, Earned, Intrinsic!IntrinsicsAreEarned

LEMMA CaptureStep ==
  ASSUME IntrinsicInv,
         \/ Intrinsic!OpenCapture \/ Intrinsic!SaveImage \/ Intrinsic!TearImage
         \/ Intrinsic!ExcludeLast \/ Intrinsic!EndCapture \/ Intrinsic!LoseCapture
  PROVE  IntrinsicInv'
<1>1. IntrinsicShape
  BY DEF IntrinsicInv
<1>2. UNCHANGED solver
  BY DEF Intrinsic!OpenCapture, Intrinsic!SaveImage, Intrinsic!TearImage, Intrinsic!ExcludeLast,
         Intrinsic!EndCapture, Intrinsic!LoseCapture
<1>3. \/ UNCHANGED disk
      \/ \E session : disk' = [disk EXCEPT !.session = session]
      \/ \E images : disk' = [disk EXCEPT !.images = images]
      \/ \E images, excluded : disk' = [disk EXCEPT !.excluded = excluded, !.images = images]
  BY Zenon DEF Intrinsic!OpenCapture, Intrinsic!SaveImage, Intrinsic!TearImage,
         Intrinsic!ExcludeLast, Intrinsic!EndCapture, Intrinsic!LoseCapture, Intrinsic!WriteSession
<1>4. disk'.solutions = disk.solutions /\ IntrinsicShape'
  <2>1. CASE UNCHANGED disk
    BY <2>1, <1>1, <1>2 DEF IntrinsicShape
  <2>2. ASSUME NEW session, disk' = [disk EXCEPT !.session = session]
        PROVE  disk'.solutions = disk.solutions /\ IntrinsicShape'
    BY <2>2, <1>1, <1>2 DEF IntrinsicShape
  <2>3. ASSUME NEW images, disk' = [disk EXCEPT !.images = images]
        PROVE  disk'.solutions = disk.solutions /\ IntrinsicShape'
    BY <2>3, <1>1, <1>2 DEF IntrinsicShape
  <2>4. ASSUME NEW images, NEW excluded,
               disk' = [disk EXCEPT !.excluded = excluded, !.images = images]
        PROVE  disk'.solutions = disk.solutions /\ IntrinsicShape'
    BY <2>4, <1>1, <1>2 DEF IntrinsicShape
  <2> QED BY <1>3, <2>1, <2>2, <2>3, <2>4
<1> QED BY <1>2, <1>4, SolutionsStay

\* A step of a review, or its end without a word.
LEMMA ReviewStep ==
  ASSUME IntrinsicInv, Intrinsic!Review \/ Intrinsic!KillSolver
  PROVE  IntrinsicInv'
<1>1. IntrinsicShape
  BY DEF IntrinsicInv
<1>2. UNCHANGED disk /\ solver.at # "idle"
  BY DEF Intrinsic!Review, Intrinsic!KillSolver
<1>3. IntrinsicShape' /\ solver'.at \in {"idle", "reviewing"}
  <2>1. CASE Intrinsic!KillSolver
    BY <2>1, <1>1, <1>2 DEF Intrinsic!KillSolver, IntrinsicShape
  <2>2. CASE Intrinsic!Review
    <3>1. solver.at = "reviewing"
      BY <2>2 DEF Intrinsic!Review
    <3>2. CASE solver' = [solver EXCEPT !.at = "idle"]
      BY <3>2, <1>1, <1>2 DEF IntrinsicShape
    <3>3. CASE \E samples, images : solver' = [solver EXCEPT !.samples = samples, !.images = images]
      BY <3>3, <3>1, <1>1, <1>2 DEF IntrinsicShape
    <3> QED BY <2>2, <3>2, <3>3, Zenon DEF Intrinsic!Review
  <2> QED BY <2>1, <2>2
<1> QED BY <1>2, <1>3, SolutionsStay

\* A step of the solver that replaces the last solution.
LEMMA SolutionStep ==
  ASSUME IntrinsicInv, solver.at # "idle", NEW e, IsSolution(e), IntrinsicShape',
         disk'.solutions = [disk.solutions EXCEPT ![Len(disk.solutions)] = e],
         e.intrinsics = Intrinsic!NoFile \/ Earned(e),
         solver'.at # "idle" => e.intrinsics = Intrinsic!NoFile,
         solver'.at = "accepted" => Earned(e)
  PROVE  IntrinsicInv'
<1> DEFINE s == disk.solutions
           k == Len(s)
<1>1. IsSeq(s) /\ k \in DOMAIN s /\ k # 0
  <2>1. IsSeq(s) /\ k # 0
    BY DEF IntrinsicInv, SolutionsInv, RunningInv
  <2> QED BY <2>1, SeqFacts
<1>2. /\ \A i \in DOMAIN s : IsSolution(s[i])
      /\ \A i \in DOMAIN s : s[i].intrinsics # Intrinsic!NoFile => Earned(s[i])
  BY DEF IntrinsicInv, SolutionsInv, Solutions, Intrinsic!IntrinsicsAreEarned, Earned
<1> HIDE DEF s
<1>3. /\ IsSeq(disk'.solutions) /\ Len(disk'.solutions) = k
      /\ DOMAIN disk'.solutions = DOMAIN s /\ disk'.solutions[k] = e
      /\ \A i \in DOMAIN s : i # k => disk'.solutions[i] = s[i]
  BY <1>1, ExceptFacts DEF s
<1> HIDE DEF k
<1>4. \A i \in DOMAIN s : /\ IsSolution(disk'.solutions[i])
                          /\ disk'.solutions[i].intrinsics # Intrinsic!NoFile =>
                               Earned(disk'.solutions[i])
  BY <1>2, <1>3
<1>5. SolutionsInv'
  BY <1>3, <1>4 DEF SolutionsInv, Solutions
<1>6. RunningInv'
  BY <1>1, <1>3 DEF RunningInv
<1>7. Intrinsic!IntrinsicsAreEarned'
  BY <1>3, <1>4 DEF Intrinsic!IntrinsicsAreEarned, Earned
<1> QED BY <1>5, <1>6, <1>7 DEF IntrinsicInv

LEMMA BeginStep == IntrinsicInv /\ Intrinsic!Begin => IntrinsicInv'
<1> SUFFICES ASSUME IntrinsicInv, Intrinsic!Begin PROVE IntrinsicInv'
  OBVIOUS
<1> DEFINE s == disk.solutions
           e == Intrinsic!NewSolution
<1>1. IntrinsicShape /\ IsSeq(s)
  BY DEF IntrinsicInv, SolutionsInv
<1>2. /\ disk' = [disk EXCEPT !.solutions = Append(s, e)]
      /\ \E images : solver' = [solver EXCEPT !.at = "reviewing", !.images = images,
                                              !.samples = <<>>]
  BY DEF Intrinsic!Begin, Intrinsic!WithNewDirectory
<1>3. disk'.solutions = Append(s, e)
  BY <1>1, <1>2 DEF IntrinsicShape
<1>4. IntrinsicShape' /\ solver'.at = "reviewing"
  <2>1. disk' = [session |-> disk'.session, images |-> disk'.images, excluded |-> disk'.excluded,
                 solutions |-> disk'.solutions]
    BY <1>1, <1>2 DEF IntrinsicShape
  <2>2. solver' = [at |-> solver'.at, images |-> solver'.images, samples |-> solver'.samples]
        /\ solver'.at = "reviewing"
    BY <1>1, <1>2 DEF IntrinsicShape
  <2> QED BY <2>1, <2>2 DEF IntrinsicShape
<1>5. /\ IsSeq(disk'.solutions) /\ Len(disk'.solutions) = Len(s) + 1 /\ Len(s) \in Nat
      /\ DOMAIN disk'.solutions = 1 .. Len(s) + 1 /\ DOMAIN s = 1 .. Len(s)
      /\ \A i \in DOMAIN s : disk'.solutions[i] = s[i]
      /\ disk'.solutions[Len(s) + 1] = e
  BY <1>1, <1>3, AppendFacts, SeqFacts
<1>6. e.intrinsics = Intrinsic!NoFile /\ IsSolution(e)
  BY DEF Intrinsic!NewSolution, IsSolution
<1>7. \A i \in DOMAIN disk'.solutions : i \in DOMAIN s \/ i = Len(s) + 1
  BY <1>5
<1>8. \A i \in DOMAIN s : IsSolution(s[i]) /\ (s[i].intrinsics # Intrinsic!NoFile => Earned(s[i]))
  BY DEF IntrinsicInv, SolutionsInv, Solutions, Intrinsic!IntrinsicsAreEarned, Earned
<1> HIDE DEF s, e
<1>9. \A i \in DOMAIN disk'.solutions :
        /\ IsSolution(disk'.solutions[i])
        /\ disk'.solutions[i].intrinsics # Intrinsic!NoFile => Earned(disk'.solutions[i])
  BY <1>5, <1>6, <1>7, <1>8
<1>10. SolutionsInv' /\ Intrinsic!IntrinsicsAreEarned'
  BY <1>5, <1>9 DEF SolutionsInv, Solutions, Intrinsic!IntrinsicsAreEarned, Earned
<1>11. RunningInv'
  BY <1>4, <1>5, <1>6 DEF RunningInv
<1> QED BY <1>4, <1>10, <1>11 DEF IntrinsicInv

\* The session of the last solution is written, or its intrinsics are.
LEMMA LastSolution ==
  ASSUME IntrinsicInv, solver.at # "idle"
  PROVE  LET s == disk.solutions IN
         /\ Len(s) \in DOMAIN s /\ IsSolution(s[Len(s)])
         /\ s[Len(s)].intrinsics = Intrinsic!NoFile
         /\ solver.at = "accepted" => Earned(s[Len(s)])
<1>1. /\ Len(disk.solutions) \in Nat /\ DOMAIN disk.solutions = 1 .. Len(disk.solutions)
      /\ Len(disk.solutions) # 0
  BY SeqFacts DEF IntrinsicInv, SolutionsInv, RunningInv
<1>2. Len(disk.solutions) \in DOMAIN disk.solutions
  BY <1>1
<1> QED BY <1>2 DEF IntrinsicInv, SolutionsInv, Solutions, RunningInv

LEMMA SolutionIsWritten ==
  ASSUME IntrinsicInv, solver.at # "idle", NEW status, NEW goal \in {"idle", "accepted"},
         Intrinsic!WriteSolution(status, goal),
         goal = "accepted" => status = "passed" /\ Intrinsic!Enough(solver.samples)
  PROVE  IntrinsicInv'
<1> DEFINE s == disk.solutions
           k == Len(s)
<1>1. IntrinsicShape /\ k \in DOMAIN s /\ IsSolution(s[k]) /\ s[k].intrinsics = Intrinsic!NoFile
  BY LastSolution DEF IntrinsicInv
<1>2. PICK o \in Intrinsic!ReplaceOrRemove(Intrinsic!NoFile,
                                           Intrinsic!Session(status, solver.samples)) :
        /\ disk' = [disk EXCEPT !.solutions[Len(disk.solutions)].session = o.file]
        /\ solver' = [solver EXCEPT !.at = IF o.ok THEN goal ELSE "idle"]
  BY DEF Intrinsic!WriteSolution
<1>3. o.ok = TRUE => o.file = Intrinsic!Session(status, solver.samples)
  BY <1>2 DEF Intrinsic!ReplaceOrRemove, Intrinsic!Replace, Intrinsic!Outcome
<1> DEFINE e == [session |-> o.file, intrinsics |-> Intrinsic!NoFile]
<1>4. disk' = [disk EXCEPT !.solutions = [s EXCEPT ![k] = e]]
  <2>1. [s[k] EXCEPT !.session = o.file] = e
    BY <1>1 DEF IsSolution
  <2> QED BY <1>2, <2>1
<1>5. disk'.solutions = [s EXCEPT ![k] = e]
  BY <1>1, <1>4 DEF IntrinsicShape
<1>6. disk' = [session |-> disk'.session, images |-> disk'.images, excluded |-> disk'.excluded,
               solutions |-> disk'.solutions]
  BY <1>1, <1>4 DEF IntrinsicShape
<1>7. /\ solver' = [at |-> solver'.at, images |-> solver'.images, samples |-> solver'.samples]
      /\ solver'.at \in {"idle", goal} /\ (solver'.at # "idle" => o.ok = TRUE)
  BY <1>1, <1>2 DEF IntrinsicShape
<1>8. solver'.at = "accepted" => Earned(e)
  <2> SUFFICES ASSUME solver'.at = "accepted" PROVE Earned(e)
    OBVIOUS
  <2>1. goal = "accepted" /\ o.file = Intrinsic!Session(status, solver.samples)
    BY <1>3, <1>7
  <2>2. e.session = [status |-> "passed", samples |-> solver.samples]
    BY <2>1 DEF Intrinsic!Session
  <2> QED BY <2>1, <2>2 DEF Earned
<1>9. IsSolution(e) /\ e.intrinsics = Intrinsic!NoFile
  BY DEF IsSolution
<1>10. IntrinsicShape'
  BY <1>6, <1>7 DEF IntrinsicShape
<1> HIDE DEF e
<1> QED BY <1>5, <1>8, <1>9, <1>10, SolutionStep

LEMMA SolveStep == IntrinsicInv /\ (Intrinsic!CancelReview \/ Intrinsic!Solve) => IntrinsicInv'
<1>1. ASSUME IntrinsicInv, Intrinsic!CancelReview PROVE IntrinsicInv'
  <2>1. solver.at # "idle" /\ Intrinsic!WriteSolution("aborted", "idle")
    BY <1>1 DEF Intrinsic!CancelReview
  <2> QED BY <1>1, <2>1, SolutionIsWritten
<1>2. ASSUME IntrinsicInv, Intrinsic!Solve PROVE IntrinsicInv'
  <2>1. PICK accepted \in Intrinsic!MayAccept(solver.samples) :
          Intrinsic!WriteSolution(IF accepted THEN "passed" ELSE "failed",
                                  IF accepted THEN "accepted" ELSE "idle")
    BY <1>2 DEF Intrinsic!Solve
  <2>2. solver.at # "idle"
    BY <1>2 DEF Intrinsic!Solve
  <2>3. CASE accepted = TRUE
    <3>1. Intrinsic!Enough(solver.samples)
      BY <2>1, <2>3 DEF Intrinsic!MayAccept
    <3>2. Intrinsic!WriteSolution("passed", "accepted")
      BY <2>1, <2>3
    <3> QED BY <1>2, <2>2, <3>1, <3>2, SolutionIsWritten
  <2>4. CASE accepted = FALSE
    <3>1. Intrinsic!WriteSolution("failed", "idle")
      BY <2>1, <2>4
    <3> QED BY <1>2, <2>2, <3>1, SolutionIsWritten
  <2> QED BY <2>1, <2>3, <2>4 DEF Intrinsic!MayAccept
<1> QED BY <1>1, <1>2

LEMMA WriteIntrinsicsStep == IntrinsicInv /\ Intrinsic!WriteIntrinsics => IntrinsicInv'
<1> SUFFICES ASSUME IntrinsicInv, Intrinsic!WriteIntrinsics PROVE IntrinsicInv'
  OBVIOUS
<1> DEFINE s == disk.solutions
           k == Len(s)
<1>1. solver.at = "accepted"
  BY DEF Intrinsic!WriteIntrinsics
<1>2. IntrinsicShape /\ k \in DOMAIN s /\ IsSolution(s[k]) /\ Earned(s[k])
  BY <1>1, LastSolution DEF IntrinsicInv
<1>3. PICK file : disk' = [disk EXCEPT !.solutions[Len(disk.solutions)].intrinsics = file]
  BY DEF Intrinsic!WriteIntrinsics
<1> DEFINE e == [session |-> s[k].session, intrinsics |-> file]
<1>4. disk' = [disk EXCEPT !.solutions = [s EXCEPT ![k] = e]]
  <2>1. [s[k] EXCEPT !.intrinsics = file] = e
    BY <1>2 DEF IsSolution
  <2> QED BY <1>3, <2>1
<1>5. disk'.solutions = [s EXCEPT ![k] = e]
  BY <1>2, <1>4 DEF IntrinsicShape
<1>6. disk' = [session |-> disk'.session, images |-> disk'.images, excluded |-> disk'.excluded,
               solutions |-> disk'.solutions]
  BY <1>2, <1>4 DEF IntrinsicShape
<1>7. solver' = [at |-> "idle", images |-> solver.images, samples |-> solver.samples]
  BY <1>2 DEF Intrinsic!WriteIntrinsics, IntrinsicShape
<1>8. IsSolution(e) /\ Earned(e)
  BY <1>2 DEF IsSolution, Earned
<1>9. IntrinsicShape' /\ solver'.at = "idle"
  BY <1>6, <1>7 DEF IntrinsicShape
<1> HIDE DEF e
<1> QED BY <1>1, <1>5, <1>8, <1>9, SolutionStep

LEMMA IntrinsicStep == IntrinsicInv /\ [Intrinsic!Next]_Intrinsic!vars => IntrinsicInv'
<1> SUFFICES ASSUME IntrinsicInv, [Intrinsic!Next]_Intrinsic!vars PROVE IntrinsicInv'
  OBVIOUS
<1>1. CASE UNCHANGED Intrinsic!vars
  BY <1>1 DEF IntrinsicInv, IntrinsicShape, SolutionsInv, Solutions, RunningInv, Earned,
              Intrinsic!IntrinsicsAreEarned, Intrinsic!vars
<1>2. CASE Intrinsic!Next
  BY <1>2, CaptureStep, BeginStep, ReviewStep, SolveStep, WriteIntrinsicsStep DEF Intrinsic!Next
<1> QED BY <1>1, <1>2

\* calibration.cpp: intrinsics on disk come with the session that earned them, reviewed to the
\* end and accepted with enough samples over the whole image, whenever either process is
\* killed and whatever the other does meanwhile.
THEOREM IntrinsicsAreEarned == Intrinsic!Spec => []Intrinsic!IntrinsicsAreEarned
<1>1. IntrinsicInv => Intrinsic!IntrinsicsAreEarned
  BY DEF IntrinsicInv
<1> QED BY <1>1, IntrinsicInit, IntrinsicStep, PTL DEF Intrinsic!Spec

-----------------------------------------------------------------------------
(* Extrinsic calibration. *)

CONSTANTS Frames, MaxSamples, MaxSolutions
VARIABLE replayed
Extrinsic == INSTANCE ExtrinsicCalibration WITH shown <- replayed

ExtrinsicShape ==
  /\ disk = [manifest |-> disk.manifest, pictures |-> disk.pictures,
             solutions |-> disk.solutions]
  /\ solver = [at |-> solver.at, samples |-> solver.samples, accepted |-> solver.accepted]

IsReported(s) == s = [report |-> s.report, extrinsics |-> s.extrinsics]

\* A report that says solved has its estimate, and enough samples, next to it.
IsWritten(s) ==
  s.report.status = "solved" =>
    s.extrinsics # Extrinsic!NoFile /\ s.report.accepted >= MinSamples

SolutionsAreWritten ==
  /\ IsSeq(disk.solutions)
  /\ \A i \in DOMAIN disk.solutions : IsReported(disk.solutions[i]) /\ IsWritten(disk.solutions[i])

\* The solution that a running solve works on is not reported as solved, and has an
\* estimate from enough samples before it is.
Unfinished(s, goal, accepted) ==
  goal # "idle" =>
    /\ s.report.status # "solved"
    /\ goal = "solved" => s.extrinsics # Extrinsic!NoFile /\ accepted >= MinSamples

OpenInv ==
  solver.at # "idle" =>
    /\ Len(disk.solutions) # 0
    /\ Unfinished(disk.solutions[Len(disk.solutions)], solver.at, solver.accepted)

ReplayedInv == replayed \subseteq DOMAIN disk.solutions /\ Extrinsic!ReplaysAreSolved

ExtrinsicInv == ExtrinsicShape /\ SolutionsAreWritten /\ OpenInv /\ ReplayedInv

LEMMA ExtrinsicInit == Extrinsic!Init => ExtrinsicInv
  BY DEF IsSeq, Extrinsic!Init, ExtrinsicInv, ExtrinsicShape, SolutionsAreWritten, OpenInv,
         ReplayedInv, Extrinsic!ReplaysAreSolved

LEMMA ExtrinsicInvIsSound ==
  ExtrinsicInv => Extrinsic!SolvedIsWritten /\ Extrinsic!ReplaysAreSolved
  BY DEF ExtrinsicInv, SolutionsAreWritten, IsWritten, ReplayedInv, Extrinsic!SolvedIsWritten

\* The capturing process leaves the solutions alone.
LEMMA PicturesStep ==
  ASSUME ExtrinsicInv,
         \/ Extrinsic!OpenCapture \/ Extrinsic!FailCapture \/ Extrinsic!SaveImage
         \/ Extrinsic!CommitSave \/ Extrinsic!ExcludeLast \/ Extrinsic!CommitExclude
         \/ Extrinsic!EndCapture \/ Extrinsic!AbortCapture \/ Extrinsic!KillCapture
  PROVE  ExtrinsicInv'
<1>1. ExtrinsicShape
  BY DEF ExtrinsicInv
<1>2. UNCHANGED <<solver, replayed>>
  BY DEF Extrinsic!OpenCapture, Extrinsic!FailCapture, Extrinsic!SaveImage, Extrinsic!CommitSave,
         Extrinsic!ExcludeLast, Extrinsic!CommitExclude, Extrinsic!EndCapture,
         Extrinsic!AbortCapture, Extrinsic!KillCapture
<1>3. \/ UNCHANGED disk
      \/ \E manifest : disk' = [disk EXCEPT !.manifest = manifest]
      \/ \E pictures : disk' = [disk EXCEPT !.pictures = pictures]
  BY Zenon DEF Extrinsic!OpenCapture, Extrinsic!FailCapture, Extrinsic!SaveImage,
         Extrinsic!CommitSave, Extrinsic!ExcludeLast, Extrinsic!CommitExclude,
         Extrinsic!UndoExclude, Extrinsic!EndCapture, Extrinsic!AbortCapture,
         Extrinsic!KillCapture
<1>4. disk'.solutions = disk.solutions /\ ExtrinsicShape'
  <2>1. CASE UNCHANGED disk
    BY <2>1, <1>1, <1>2 DEF ExtrinsicShape
  <2>2. ASSUME NEW manifest, disk' = [disk EXCEPT !.manifest = manifest]
        PROVE  disk'.solutions = disk.solutions /\ ExtrinsicShape'
    BY <2>2, <1>1, <1>2 DEF ExtrinsicShape
  <2>3. ASSUME NEW pictures, disk' = [disk EXCEPT !.pictures = pictures]
        PROVE  disk'.solutions = disk.solutions /\ ExtrinsicShape'
    BY <2>3, <1>1, <1>2 DEF ExtrinsicShape
  <2> QED BY <1>3, <2>1, <2>2, <2>3
<1> QED
  BY <1>2, <1>4 DEF ExtrinsicInv, SolutionsAreWritten, OpenInv, ReplayedInv,
                    Extrinsic!ReplaysAreSolved

\* The solver replaces the solution it works on.
LEMMA ReportStep ==
  ASSUME ExtrinsicInv, solver.at # "idle", NEW e, IsReported(e), IsWritten(e), ExtrinsicShape',
         disk'.solutions = [disk.solutions EXCEPT ![Len(disk.solutions)] = e],
         Unfinished(e, solver'.at, solver'.accepted), UNCHANGED replayed
  PROVE  ExtrinsicInv'
<1> DEFINE s == disk.solutions
           k == Len(s)
<1>1. IsSeq(s) /\ k \in DOMAIN s /\ k # 0
  <2>1. IsSeq(s) /\ k # 0
    BY DEF ExtrinsicInv, SolutionsAreWritten, OpenInv
  <2> QED BY <2>1, SeqFacts
<1>2. /\ \A i \in DOMAIN s : IsReported(s[i]) /\ IsWritten(s[i])
      /\ s[k].report.status # "solved"
      /\ replayed \subseteq DOMAIN s /\ \A i \in replayed : s[i].report.status = "solved"
  BY DEF ExtrinsicInv, SolutionsAreWritten, OpenInv, Unfinished, ReplayedInv,
         Extrinsic!ReplaysAreSolved
<1> HIDE DEF s
<1>3. /\ IsSeq(disk'.solutions) /\ Len(disk'.solutions) = k
      /\ DOMAIN disk'.solutions = DOMAIN s /\ disk'.solutions[k] = e
      /\ \A i \in DOMAIN s : i # k => disk'.solutions[i] = s[i]
  BY <1>1, ExceptFacts DEF s
<1> HIDE DEF k
<1>4. SolutionsAreWritten'
  <2>1. \A i \in DOMAIN s : IsReported(disk'.solutions[i]) /\ IsWritten(disk'.solutions[i])
    BY <1>2, <1>3
  <2> QED BY <2>1, <1>3 DEF SolutionsAreWritten
<1>5. OpenInv'
  BY <1>1, <1>3 DEF OpenInv
<1>6. ReplayedInv'
  BY <1>2, <1>3 DEF ReplayedInv, Extrinsic!ReplaysAreSolved
<1> QED BY <1>4, <1>5, <1>6 DEF ExtrinsicInv

\* A new solution has no report that says solved.
LEMMA OpenStep ==
  ASSUME ExtrinsicInv, solver.at = "idle", NEW e, IsReported(e), e.report.status # "solved",
         solver'.at # "solved", ExtrinsicShape', disk'.solutions = Append(disk.solutions, e),
         UNCHANGED replayed
  PROVE  ExtrinsicInv'
<1> DEFINE s == disk.solutions
<1>1. /\ IsSeq(s) /\ \A i \in DOMAIN s : IsReported(s[i]) /\ IsWritten(s[i])
      /\ replayed \subseteq DOMAIN s /\ \A i \in replayed : s[i].report.status = "solved"
  BY DEF ExtrinsicInv, SolutionsAreWritten, ReplayedInv, Extrinsic!ReplaysAreSolved
<1> HIDE DEF s
<1>2. /\ IsSeq(disk'.solutions) /\ Len(disk'.solutions) = Len(s) + 1 /\ Len(s) \in Nat
      /\ DOMAIN disk'.solutions = 1 .. Len(s) + 1 /\ DOMAIN s = 1 .. Len(s)
      /\ \A i \in DOMAIN s : disk'.solutions[i] = s[i]
      /\ disk'.solutions[Len(s) + 1] = e
  BY <1>1, AppendFacts, SeqFacts DEF s
<1>3. \A i \in DOMAIN disk'.solutions : i \in DOMAIN s \/ i = Len(s) + 1
  BY <1>2
<1>4. IsWritten(e)
  BY DEF IsWritten
<1>5. \A i \in DOMAIN disk'.solutions : IsReported(disk'.solutions[i]) /\ IsWritten(disk'.solutions[i])
  BY <1>1, <1>2, <1>3, <1>4
<1>6. SolutionsAreWritten'
  BY <1>2, <1>5 DEF SolutionsAreWritten
<1>7. OpenInv'
  BY <1>2 DEF OpenInv, Unfinished
<1>8. ReplayedInv'
  BY <1>1, <1>2 DEF ReplayedInv, Extrinsic!ReplaysAreSolved
<1> QED BY <1>6, <1>7, <1>8 DEF ExtrinsicInv

LEMMA SessionStep == ExtrinsicInv /\ Extrinsic!Begin => ExtrinsicInv'
<1> SUFFICES ASSUME ExtrinsicInv, Extrinsic!Begin PROVE ExtrinsicInv'
  OBVIOUS
<1>1. ExtrinsicShape /\ solver.at = "idle" /\ UNCHANGED replayed
  BY DEF ExtrinsicInv, Extrinsic!Begin
<1>2. PICK report :
        /\ report.status # "solved"
        /\ disk' = [disk EXCEPT !.solutions = Append(disk.solutions, Extrinsic!NewSolution(report))]
        /\ \/ UNCHANGED solver
           \/ \E samples : solver' = [at |-> "reviewing", samples |-> samples, accepted |-> 0]
  <2>1. CASE Extrinsic!LoadSession(disk)
    <3>1. Extrinsic!NoFile.status # "solved"
      BY DEF Extrinsic!NoFile
    <3> QED BY <2>1, <3>1 DEF Extrinsic!Begin, Extrinsic!WithNewDirectory
  <2>2. CASE ~Extrinsic!LoadSession(disk)
    <3>1. PICK o \in Extrinsic!Replace(Extrinsic!NoFile, Extrinsic!Report("failed", 0)) :
            /\ disk' = [disk EXCEPT !.solutions = Append(disk.solutions, Extrinsic!NewSolution(o.file))]
            /\ UNCHANGED solver
      BY <2>2 DEF Extrinsic!Begin, Extrinsic!WithNewDirectory
    <3>2. o.file.status # "solved"
      BY <3>1 DEF Extrinsic!Replace, Extrinsic!Outcome, Extrinsic!NoFile, Extrinsic!Report
    <3> QED BY <3>1, <3>2
  <2> QED BY <2>1, <2>2
<1> DEFINE e == Extrinsic!NewSolution(report)
<1>3. IsReported(e) /\ e.report.status # "solved"
  BY <1>2 DEF Extrinsic!NewSolution, IsReported
<1> HIDE DEF e
<1>4. disk'.solutions = Append(disk.solutions, e)
  BY <1>1, <1>2 DEF ExtrinsicShape, e
<1>5. disk' = [manifest |-> disk'.manifest, pictures |-> disk'.pictures,
               solutions |-> disk'.solutions]
  BY <1>1, <1>2 DEF ExtrinsicShape
<1>6. /\ solver' = [at |-> solver'.at, samples |-> solver'.samples, accepted |-> solver'.accepted]
      /\ solver'.at # "solved"
  <2>1. CASE UNCHANGED solver
    BY <2>1, <1>1 DEF ExtrinsicShape
  <2>2. ASSUME NEW samples, solver' = [at |-> "reviewing", samples |-> samples, accepted |-> 0]
        PROVE  /\ solver' = [at |-> solver'.at, samples |-> solver'.samples,
                             accepted |-> solver'.accepted]
               /\ solver'.at # "solved"
    BY <2>2
  <2> QED BY <1>2, <2>1, <2>2
<1>7. ExtrinsicShape'
  BY <1>5, <1>6 DEF ExtrinsicShape
<1> QED BY <1>1, <1>3, <1>4, <1>6, <1>7, OpenStep

\* The solution that a running solve works on.
LEMMA OpenFacts ==
  ASSUME ExtrinsicInv, solver.at # "idle"
  PROVE  LET s == disk.solutions IN
         /\ Len(s) \in DOMAIN s /\ IsReported(s[Len(s)])
         /\ Unfinished(s[Len(s)], solver.at, solver.accepted)
<1>1. /\ Len(disk.solutions) \in Nat /\ DOMAIN disk.solutions = 1 .. Len(disk.solutions)
      /\ Len(disk.solutions) # 0
  BY SeqFacts DEF ExtrinsicInv, SolutionsAreWritten, OpenInv
<1>2. Len(disk.solutions) \in DOMAIN disk.solutions
  BY <1>1
<1> QED BY <1>2 DEF ExtrinsicInv, SolutionsAreWritten, OpenInv

\* A report; only one of a written estimate says solved, and ends the solve.
LEMMA WriteReportStep ==
  ASSUME ExtrinsicInv, solver.at # "idle", UNCHANGED replayed,
         NEW status, NEW next \in {"idle", "failing"},
         status = "solved" => solver.at = "solved",
         Extrinsic!WriteReport(status, "idle", next)
  PROVE  ExtrinsicInv'
<1> DEFINE s == disk.solutions
           k == Len(s)
<1>1. /\ ExtrinsicShape /\ k \in DOMAIN s /\ IsReported(s[k])
      /\ Unfinished(s[k], solver.at, solver.accepted)
  BY OpenFacts DEF ExtrinsicInv
<1>2. PICK o \in Extrinsic!Replace(s[k].report, Extrinsic!Report(status, solver.accepted)) :
        /\ disk' = [disk EXCEPT !.solutions[Len(disk.solutions)].report = o.file]
        /\ solver' = [solver EXCEPT !.at = IF o.ok THEN "idle" ELSE next]
  BY DEF Extrinsic!WriteReport, Extrinsic!Solution
<1>3. \/ o.ok = TRUE /\ o.file = [status |-> status, accepted |-> solver.accepted]
      \/ o.ok = FALSE /\ o.file = s[k].report
  BY <1>2 DEF Extrinsic!Replace, Extrinsic!Outcome, Extrinsic!Report
<1> DEFINE e == [report |-> o.file, extrinsics |-> s[k].extrinsics]
<1>4. disk' = [disk EXCEPT !.solutions = [s EXCEPT ![k] = e]]
  <2>1. [s[k] EXCEPT !.report = o.file] = e
    BY <1>1 DEF IsReported
  <2> QED BY <1>2, <2>1
<1>5. disk'.solutions = [s EXCEPT ![k] = e]
  BY <1>1, <1>4 DEF ExtrinsicShape
<1>6. disk' = [manifest |-> disk'.manifest, pictures |-> disk'.pictures,
               solutions |-> disk'.solutions]
  BY <1>1, <1>4 DEF ExtrinsicShape
<1>7. /\ solver' = [at |-> solver'.at, samples |-> solver'.samples, accepted |-> solver'.accepted]
      /\ solver'.at = IF o.ok THEN "idle" ELSE next
  BY <1>1, <1>2 DEF ExtrinsicShape
<1>8. IsReported(e)
  BY DEF IsReported
<1>9. IsWritten(e) /\ Unfinished(e, solver'.at, solver'.accepted)
  <2>1. CASE o.ok = TRUE
    <3>1. /\ e.report = [status |-> status, accepted |-> solver.accepted]
          /\ e.extrinsics = s[k].extrinsics
      BY <1>3, <2>1
    <3>2. solver'.at = "idle"
      BY <1>7, <2>1
    <3>3. status = "solved" => s[k].extrinsics # Extrinsic!NoFile /\ solver.accepted >= MinSamples
      BY <1>1 DEF Unfinished
    <3> QED BY <3>1, <3>2, <3>3 DEF IsWritten, Unfinished
  <2>2. CASE o.ok = FALSE
    <3>1. e.report.status # "solved"
      BY <1>1, <1>3, <2>2 DEF Unfinished
    <3>2. solver'.at # "solved"
      BY <1>7, <2>2
    <3> QED BY <3>1, <3>2 DEF IsWritten, Unfinished
  <2> QED BY <1>3, <2>1, <2>2
<1>10. ExtrinsicShape'
  BY <1>6, <1>7 DEF ExtrinsicShape
<1> HIDE DEF e
<1> QED BY <1>5, <1>8, <1>9, <1>10, ReportStep

\* The estimate; with it the solve is solved.
LEMMA EstimateStep == ExtrinsicInv /\ Extrinsic!WriteExtrinsics => ExtrinsicInv'
<1> SUFFICES ASSUME ExtrinsicInv, Extrinsic!WriteExtrinsics PROVE ExtrinsicInv'
  OBVIOUS
<1> DEFINE s == disk.solutions
           k == Len(s)
<1>0. solver.at = "reviewing" /\ solver.accepted >= MinSamples /\ UNCHANGED replayed
  BY DEF Extrinsic!WriteExtrinsics
<1>1. /\ ExtrinsicShape /\ k \in DOMAIN s /\ IsReported(s[k])
      /\ Unfinished(s[k], solver.at, solver.accepted)
  BY <1>0, OpenFacts DEF ExtrinsicInv
<1>2. PICK o \in Extrinsic!Replace(Extrinsic!NoFile, [status |-> "estimate"]) :
        /\ disk' = [disk EXCEPT !.solutions[Len(disk.solutions)].extrinsics = o.file]
        /\ solver' = [solver EXCEPT !.at = IF o.ok THEN "solved" ELSE "failing"]
  BY DEF Extrinsic!WriteExtrinsics, Extrinsic!Solution
<1>3. \/ o.ok = TRUE /\ o.file # Extrinsic!NoFile
      \/ o.ok = FALSE
  BY <1>2 DEF Extrinsic!Replace, Extrinsic!Outcome, Extrinsic!NoFile
<1> DEFINE e == [report |-> s[k].report, extrinsics |-> o.file]
<1>4. disk' = [disk EXCEPT !.solutions = [s EXCEPT ![k] = e]]
  <2>1. [s[k] EXCEPT !.extrinsics = o.file] = e
    BY <1>1 DEF IsReported
  <2> QED BY <1>2, <2>1
<1>5. disk'.solutions = [s EXCEPT ![k] = e]
  BY <1>1, <1>4 DEF ExtrinsicShape
<1>6. disk' = [manifest |-> disk'.manifest, pictures |-> disk'.pictures,
               solutions |-> disk'.solutions]
  BY <1>1, <1>4 DEF ExtrinsicShape
<1>7. /\ solver' = [at |-> solver'.at, samples |-> solver'.samples, accepted |-> solver'.accepted]
      /\ solver'.at = IF o.ok THEN "solved" ELSE "failing"
      /\ solver'.accepted = solver.accepted
  BY <1>1, <1>2 DEF ExtrinsicShape
<1>8. IsReported(e) /\ e.report.status # "solved"
  BY <1>0, <1>1 DEF IsReported, Unfinished
<1>9. IsWritten(e) /\ Unfinished(e, solver'.at, solver'.accepted)
  BY <1>0, <1>3, <1>7, <1>8 DEF IsWritten, Unfinished
<1>10. ExtrinsicShape'
  BY <1>6, <1>7 DEF ExtrinsicShape
<1>11. solver.at # "idle"
  BY <1>0
<1> HIDE DEF e
<1> QED BY <1>0, <1>5, <1>8, <1>9, <1>10, <1>11, ReportStep

\* The steps that leave the disk alone.
LEMMA SolverStep ==
  ASSUME ExtrinsicInv, Extrinsic!Review \/ Extrinsic!KillSolver \/ Extrinsic!Visualize
  PROVE  ExtrinsicInv'
<1>1. ExtrinsicShape /\ UNCHANGED disk
  BY DEF ExtrinsicInv, Extrinsic!Review, Extrinsic!KillSolver, Extrinsic!Visualize
<1>2. CASE Extrinsic!Review \/ Extrinsic!KillSolver
  <2>1. /\ ExtrinsicShape' /\ solver.at # "idle" /\ UNCHANGED replayed
        /\ solver'.at \in {"idle", "reviewing"}
    <3>1. CASE Extrinsic!KillSolver
      BY <3>1, <1>1 DEF Extrinsic!KillSolver, ExtrinsicShape
    <3>2. CASE Extrinsic!Review
      <4>1. PICK samples, accepted :
              solver' = [solver EXCEPT !.samples = samples, !.accepted = accepted]
        BY <3>2, Zenon DEF Extrinsic!Review
      <4>2. solver.at = "reviewing" /\ UNCHANGED replayed
        BY <3>2 DEF Extrinsic!Review
      <4> QED BY <4>1, <4>2, <1>1 DEF ExtrinsicShape
    <3> QED BY <1>2, <3>1, <3>2
  <2> QED BY <1>1, <2>1 DEF ExtrinsicInv, SolutionsAreWritten, OpenInv, Unfinished, ReplayedInv,
                            Extrinsic!ReplaysAreSolved
<1>3. CASE Extrinsic!Visualize
  <2>1. PICK i \in DOMAIN disk.solutions :
          Extrinsic!LoadSolution(disk.solutions[i]) /\ replayed' = replayed \cup {i}
    BY <1>3 DEF Extrinsic!Visualize
  <2>2. UNCHANGED solver
    BY <1>3 DEF Extrinsic!Visualize
  <2>3. ReplayedInv'
    BY <1>1, <2>1 DEF ExtrinsicInv, ReplayedInv, Extrinsic!ReplaysAreSolved, Extrinsic!LoadSolution
  <2> QED BY <1>1, <2>2, <2>3 DEF ExtrinsicInv, ExtrinsicShape, SolutionsAreWritten, OpenInv
<1> QED BY <1>2, <1>3

LEMMA ReportsStep ==
  ASSUME ExtrinsicInv,
         \/ Extrinsic!CancelReview \/ Extrinsic!RejectSamples \/ Extrinsic!ReportSolved
         \/ Extrinsic!FailSolve
  PROVE  ExtrinsicInv'
<1>1. solver.at # "idle" /\ UNCHANGED replayed
  BY DEF Extrinsic!CancelReview, Extrinsic!RejectSamples, Extrinsic!ReportSolved,
         Extrinsic!FailSolve
<1>2. CASE Extrinsic!CancelReview
  BY <1>1, <1>2, WriteReportStep DEF Extrinsic!CancelReview
<1>3. CASE Extrinsic!RejectSamples
  BY <1>1, <1>3, WriteReportStep DEF Extrinsic!RejectSamples
<1>4. CASE Extrinsic!ReportSolved
  BY <1>1, <1>4, WriteReportStep DEF Extrinsic!ReportSolved
<1>5. CASE Extrinsic!FailSolve
  BY <1>1, <1>5, WriteReportStep DEF Extrinsic!FailSolve
<1> QED BY <1>2, <1>3, <1>4, <1>5

LEMMA ExtrinsicStep == ExtrinsicInv /\ [Extrinsic!Next]_Extrinsic!vars => ExtrinsicInv'
<1> SUFFICES ASSUME ExtrinsicInv, [Extrinsic!Next]_Extrinsic!vars PROVE ExtrinsicInv'
  OBVIOUS
<1>1. CASE UNCHANGED Extrinsic!vars
  BY <1>1 DEF ExtrinsicInv, ExtrinsicShape, SolutionsAreWritten, OpenInv, ReplayedInv,
              Extrinsic!ReplaysAreSolved, Extrinsic!vars
<1>2. CASE Extrinsic!Next
  BY <1>2, PicturesStep, SessionStep, ReportsStep, EstimateStep, SolverStep DEF Extrinsic!Next
<1> QED BY <1>1, <1>2

\* extrinsic_solve_application.cpp: a report that says solved has its estimate next to it, and
\* what is replayed was reported as solved and stays so.
THEOREM ExtrinsicsAreEarned ==
  Extrinsic!Spec => [](Extrinsic!SolvedIsWritten /\ Extrinsic!ReplaysAreSolved)
  BY ExtrinsicInit, ExtrinsicStep, ExtrinsicInvIsSound, PTL DEF Extrinsic!Spec

-----------------------------------------------------------------------------
(* Hand-eye calibration: the candidate. *)

CONSTANTS Pose, MaxTime, MaxPairs, MaxGeneration
VARIABLE imu
Handeye == INSTANCE HandeyeCalibration WITH MaxSamples <- MaxPairs

HandeyeShape ==
  /\ disk = [manifest |-> disk.manifest, pictures |-> disk.pictures, review |-> disk.review,
             report |-> disk.report, candidate |-> disk.candidate]
  /\ solver = [at |-> solver.at, samples |-> solver.samples,
               observations |-> solver.observations]

\* A candidate is written last, after a verdict on what was solved for.
VerdictInv ==
  /\ solver.at # "ended" => disk.candidate = Handeye!NoFile
  /\ solver.at \in {"solved", "verdict"} =>
       disk.report.status = "solved" /\ Handeye!Solvable(solver.observations)
  /\ solver.at = "verdict" =>
       /\ disk.review.status = "solved_requires_manual_validation"
       /\ disk.review.reviewed = solver.observations

CandidateInv == HandeyeShape /\ VerdictInv /\ Handeye!CandidatesAreReviewed

LEMMA CandidateInit == Handeye!Init => CandidateInv
<1> SUFFICES ASSUME Handeye!Init PROVE CandidateInv
  OBVIOUS
<1>1. disk.candidate = Handeye!NoFile /\ solver.at = "idle"
  BY DEF Handeye!Init
<1>2. HandeyeShape
  BY DEF Handeye!Init, HandeyeShape
<1> QED BY <1>1, <1>2 DEF CandidateInv, VerdictInv, Handeye!CandidatesAreReviewed

\* What the capturing process and the IMU do.
LEMMA PairsStep ==
  ASSUME CandidateInv,
         \/ Handeye!Reconnect \/ Handeye!Synchronize \/ Handeye!OpenCapture \/ Handeye!Grab
         \/ Handeye!Save \/ Handeye!At \/ Handeye!SavePicture \/ Handeye!CommitPair
         \/ Handeye!ExcludeLast \/ Handeye!Skip \/ Handeye!FailCapture \/ Handeye!EndCapture
         \/ Handeye!KillCapture
  PROVE  CandidateInv'
<1>1. UNCHANGED solver /\ HandeyeShape
  BY Zenon DEF CandidateInv, Handeye!Reconnect, Handeye!Synchronize, Handeye!OpenCapture,
         Handeye!Grab, Handeye!Save, Handeye!At, Handeye!SavePicture, Handeye!CommitPair,
         Handeye!ExcludeLast, Handeye!Skip, Handeye!FailCapture, Handeye!EndCapture,
         Handeye!KillCapture
<1>2. \/ UNCHANGED disk
      \/ \E manifest : disk' = [disk EXCEPT !.manifest = manifest]
      \/ \E pictures : disk' = [disk EXCEPT !.pictures = pictures]
  BY Zenon DEF Handeye!Reconnect, Handeye!Synchronize, Handeye!OpenCapture, Handeye!Grab,
         Handeye!Save, Handeye!At, Handeye!SavePicture, Handeye!CommitPair,
         Handeye!ExcludeLast, Handeye!Skip, Handeye!FailCapture, Handeye!EndCapture,
         Handeye!KillCapture, Handeye!WriteManifest
<1> DEFINE Stays == /\ disk'.review = disk.review /\ disk'.report = disk.report
                    /\ disk'.candidate = disk.candidate /\ HandeyeShape'
<1>3. CASE UNCHANGED disk
  BY <1>1, <1>3 DEF CandidateInv, HandeyeShape, VerdictInv, Handeye!CandidatesAreReviewed
<1>4. ASSUME NEW manifest, disk' = [disk EXCEPT !.manifest = manifest]
      PROVE  Stays
  BY <1>1, <1>4 DEF HandeyeShape
<1>5. ASSUME NEW pictures, disk' = [disk EXCEPT !.pictures = pictures]
      PROVE  Stays
  BY <1>1, <1>5 DEF HandeyeShape
<1>6. ASSUME Stays PROVE CandidateInv'
  BY <1>1, <1>6 DEF CandidateInv, VerdictInv, Handeye!CandidatesAreReviewed
<1> QED BY <1>2, <1>3, <1>4, <1>5, <1>6

\* The solver writes a review, a report or a candidate; before the end there is none.
LEMMA BeginReview == CandidateInv /\ Handeye!Begin => CandidateInv'
<1> SUFFICES ASSUME CandidateInv, Handeye!Begin PROVE CandidateInv'
  OBVIOUS
<1>1. HandeyeShape /\ disk.candidate = Handeye!NoFile
  BY DEF CandidateInv, VerdictInv, Handeye!Begin
<1>2. PICK review : disk' = [disk EXCEPT !.review = review]
  BY DEF Handeye!Begin
<1>3. PICK samples : solver' = [at |-> "reviewing", observations |-> {}, samples |-> samples]
  BY DEF Handeye!Begin
<1>4. HandeyeShape' /\ disk'.candidate = Handeye!NoFile
  BY <1>1, <1>2, <1>3 DEF HandeyeShape
<1> QED BY <1>3, <1>4 DEF CandidateInv, VerdictInv, Handeye!CandidatesAreReviewed

LEMMA ReviewPair == CandidateInv /\ Handeye!Review => CandidateInv'
<1> SUFFICES ASSUME CandidateInv, Handeye!Review PROVE CandidateInv'
  OBVIOUS
<1>1. HandeyeShape /\ disk.candidate = Handeye!NoFile
  BY DEF CandidateInv, VerdictInv, Handeye!Review
<1>2. PICK review : disk' = [disk EXCEPT !.review = review]
  BY DEF Handeye!Review
<1>3. PICK observations, o :
        solver' = [at |-> IF o.ok THEN "reviewing" ELSE "failing",
                   samples |-> Tail(solver.samples), observations |-> observations]
  BY Zenon DEF Handeye!Review
<1>4. HandeyeShape' /\ disk'.candidate = Handeye!NoFile
  BY <1>1, <1>2, <1>3 DEF HandeyeShape
<1>5. solver'.at \in {"reviewing", "failing"}
  BY <1>3
<1> QED BY <1>4, <1>5 DEF CandidateInv, VerdictInv, Handeye!CandidatesAreReviewed

LEMMA SolvePairs == CandidateInv /\ Handeye!WriteSolution => CandidateInv'
<1> SUFFICES ASSUME CandidateInv, Handeye!WriteSolution PROVE CandidateInv'
  OBVIOUS
<1>1. HandeyeShape /\ disk.candidate = Handeye!NoFile
  BY DEF CandidateInv, VerdictInv, Handeye!WriteSolution
<1>2. PICK solved \in Handeye!Solve(solver.observations) :
        \E o \in Handeye!Replace(Handeye!NoFile, [status |-> IF solved THEN "solved" ELSE "failed"]) :
          /\ disk' = [disk EXCEPT !.report = o.file]
          /\ solver' = [solver EXCEPT !.at = IF ~o.ok THEN "failing"
                                             ELSE IF solved THEN "solved" ELSE "unsolved"]
  BY DEF Handeye!WriteSolution
<1>3. PICK o \in Handeye!Replace(Handeye!NoFile, [status |-> IF solved THEN "solved" ELSE "failed"]) :
          /\ disk' = [disk EXCEPT !.report = o.file]
          /\ solver' = [solver EXCEPT !.at = IF ~o.ok THEN "failing"
                                             ELSE IF solved THEN "solved" ELSE "unsolved"]
  BY <1>2
<1>4. /\ HandeyeShape' /\ disk'.candidate = Handeye!NoFile /\ disk'.report = o.file
      /\ solver'.observations = solver.observations
      /\ solver'.at = IF ~o.ok THEN "failing" ELSE IF solved THEN "solved" ELSE "unsolved"
  BY <1>1, <1>3 DEF HandeyeShape
<1>5. solver'.at \notin {"verdict", "ended"}
  BY <1>4
<1>6. solver'.at = "solved" => o.ok = TRUE /\ solved = TRUE
  BY <1>2, <1>3, <1>4 DEF Handeye!Solve, Handeye!Replace, Handeye!Outcome
<1>7. solver'.at = "solved" => disk'.report.status = "solved"
  BY <1>3, <1>4, <1>6 DEF Handeye!Replace, Handeye!Outcome
<1>8. solver'.at = "solved" => Handeye!Solvable(solver.observations)
  BY <1>2, <1>6 DEF Handeye!Solve
<1> QED BY <1>4, <1>5, <1>7, <1>8 DEF CandidateInv, VerdictInv, Handeye!CandidatesAreReviewed,
                                      Handeye!Solvable, Handeye!Spanned

LEMMA JudgePairs == CandidateInv /\ Handeye!WriteVerdict => CandidateInv'
<1> SUFFICES ASSUME CandidateInv, Handeye!WriteVerdict PROVE CandidateInv'
  OBVIOUS
<1>1. HandeyeShape /\ disk.candidate = Handeye!NoFile /\ solver.at \in {"solved", "unsolved"}
  BY DEF CandidateInv, VerdictInv, Handeye!WriteVerdict
<1> DEFINE status == IF solver.at = "solved" THEN "solved_requires_manual_validation" ELSE "failed"
           next == IF solver.at = "solved" THEN "verdict" ELSE "ended"
<1>2. PICK o \in Handeye!Replace(disk.review,
                                 [status |-> status, reviewed |-> solver.observations]) :
        /\ disk' = [disk EXCEPT !.review = o.file]
        /\ solver' = [solver EXCEPT !.at = IF o.ok THEN next ELSE "failing"]
  BY DEF Handeye!WriteVerdict, Handeye!WriteReview
<1>3. o.ok = TRUE => o.file = [status |-> status, reviewed |-> solver.observations]
  BY <1>2 DEF Handeye!Replace, Handeye!Outcome
<1>4. /\ HandeyeShape' /\ disk'.candidate = Handeye!NoFile /\ disk'.report = disk.report
      /\ disk'.review = o.file
      /\ solver'.observations = solver.observations
      /\ solver'.at = IF o.ok THEN next ELSE "failing"
  BY <1>1, <1>2 DEF HandeyeShape
<1>5. CASE solver'.at = "verdict"
  <2>1. solver.at = "solved" /\ o.ok = TRUE
    BY <1>1, <1>2, <1>4, <1>5 DEF Handeye!Replace, Handeye!Outcome
  <2>2. o.file = [status |-> "solved_requires_manual_validation", reviewed |-> solver.observations]
    BY <2>1, <1>3
  <2>3. disk.report.status = "solved" /\ Handeye!Solvable(solver.observations)
    BY <2>1 DEF CandidateInv, VerdictInv
  <2> QED BY <1>4, <1>5, <2>2, <2>3 DEF CandidateInv, VerdictInv, Handeye!CandidatesAreReviewed,
                                        Handeye!Solvable, Handeye!Spanned
<1>6. CASE solver'.at # "verdict"
  <2>1. solver'.at # "solved"
    BY <1>1, <1>4
  <2> QED BY <1>4, <1>6, <2>1 DEF CandidateInv, VerdictInv, Handeye!CandidatesAreReviewed
<1> QED BY <1>5, <1>6

LEMMA ProposeCandidate == CandidateInv /\ Handeye!WriteCandidate => CandidateInv'
<1> SUFFICES ASSUME CandidateInv, Handeye!WriteCandidate PROVE CandidateInv'
  OBVIOUS
<1>1. /\ HandeyeShape /\ disk.report.status = "solved" /\ Handeye!Solvable(solver.observations)
      /\ disk.review.status = "solved_requires_manual_validation"
      /\ disk.review.reviewed = solver.observations
  BY DEF CandidateInv, VerdictInv, Handeye!WriteCandidate
<1>2. PICK o \in Handeye!Replace(Handeye!NoFile, [status |-> "candidate"]) :
        /\ disk' = [disk EXCEPT !.candidate = o.file]
        /\ solver' = [solver EXCEPT !.at = IF o.ok THEN "ended" ELSE "failing"]
  BY DEF Handeye!WriteCandidate
<1>3. o.ok = TRUE \/ (o.ok = FALSE /\ o.file = Handeye!NoFile)
  BY <1>2 DEF Handeye!Replace, Handeye!Outcome
<1>4. /\ HandeyeShape' /\ disk'.candidate = o.file /\ disk'.report = disk.report
      /\ disk'.review = disk.review
      /\ solver'.at = IF o.ok THEN "ended" ELSE "failing"
  BY <1>1, <1>2 DEF HandeyeShape
<1>5. Handeye!CandidatesAreReviewed'
  BY <1>1, <1>4 DEF Handeye!CandidatesAreReviewed, Handeye!Solvable, Handeye!Spanned
<1>6. VerdictInv'
  BY <1>3, <1>4 DEF VerdictInv
<1> QED BY <1>4, <1>5, <1>6 DEF CandidateInv

LEMMA AbortReview == CandidateInv /\ (Handeye!AbortSolve \/ Handeye!KillSolver) => CandidateInv'
<1>1. ASSUME CandidateInv, Handeye!AbortSolve PROVE CandidateInv'
  <2>1. HandeyeShape /\ disk.candidate = Handeye!NoFile
    BY <1>1 DEF CandidateInv, VerdictInv, Handeye!AbortSolve
  <2>2. PICK review : disk' = [disk EXCEPT !.review = review]
    BY <1>1 DEF Handeye!AbortSolve
  <2>3. HandeyeShape' /\ disk'.candidate = Handeye!NoFile /\ solver'.at = "ended"
    BY <1>1, <2>1, <2>2 DEF HandeyeShape, Handeye!AbortSolve
  <2> QED BY <2>3 DEF CandidateInv, VerdictInv, Handeye!CandidatesAreReviewed
<1>2. ASSUME CandidateInv, Handeye!KillSolver PROVE CandidateInv'
  <2>1. HandeyeShape /\ disk.candidate = Handeye!NoFile /\ UNCHANGED disk
    BY <1>2 DEF CandidateInv, VerdictInv, Handeye!KillSolver
  <2>2. HandeyeShape' /\ solver'.at = "ended"
    BY <1>2, <2>1 DEF HandeyeShape, Handeye!KillSolver
  <2> QED BY <2>1, <2>2 DEF CandidateInv, VerdictInv, Handeye!CandidatesAreReviewed
<1> QED BY <1>1, <1>2

LEMMA CandidateStep == CandidateInv /\ [Handeye!Next]_Handeye!vars => CandidateInv'
<1> SUFFICES ASSUME CandidateInv, [Handeye!Next]_Handeye!vars PROVE CandidateInv'
  OBVIOUS
<1>1. CASE UNCHANGED Handeye!vars
  BY <1>1 DEF CandidateInv, HandeyeShape, VerdictInv, Handeye!CandidatesAreReviewed, Handeye!vars
<1>2. CASE Handeye!Next
  BY <1>2, PairsStep, BeginReview, ReviewPair, SolvePairs, JudgePairs, ProposeCandidate,
     AbortReview DEF Handeye!Next
<1> QED BY <1>1, <1>2

\* handeye_application.cpp: extrinsics are proposed only for a review that was finished, of
\* enough pairs that move the gimbal about two axes.
THEOREM CandidatesAreEarned == Handeye!Spec => []Handeye!CandidatesAreReviewed
<1>1. CandidateInv => Handeye!CandidatesAreReviewed
  BY DEF CandidateInv
<1> QED BY <1>1, CandidateInit, CandidateStep, PTL DEF Handeye!Spec

-----------------------------------------------------------------------------
(* Hand-eye calibration: the pairs. *)

PairShape ==
  capture = [at |-> capture.at, samples |-> capture.samples, time |-> capture.time,
             last_saved |-> capture.last_saved, generation |-> capture.generation,
             before |-> capture.before, q |-> capture.q, id |-> capture.id]

IsPair(s) ==
  s = [id |-> s.id, active |-> s.active, time |-> s.time, q |-> s.q,
       generation |-> s.generation]

\* Every pair goes by its place, has the picture of that number, and is of the moment and
\* the session of its orientation; all are of one session.
ArePaired(s, pictures) ==
  /\ IsSeq(s)
  /\ \A i \in DOMAIN s :
       /\ IsPair(s[i]) /\ s[i].id = i
       /\ i \in DOMAIN pictures /\ pictures[i] = s[i].time
       /\ s[i].q[2] = s[i].generation /\ s[i].q[3] = s[i].time
       /\ s[i].generation = s[1].generation /\ s[i].generation # 0

\* A manifest on disk is never longer than the one in memory, so a picture that is written
\* is of no pair on disk.
ManifestInv ==
  disk.manifest # Handeye!NoFile =>
    /\ ArePaired(disk.manifest.samples, disk.pictures)
    /\ Len(disk.manifest.samples) <= Len(capture.samples)
    /\ capture.at # "closed"

ImuInv == imu = [generation |-> imu.generation, synchronized |-> imu.synchronized]
          /\ imu.generation \in Nat \ {0}

\* A pair in the making: sessions only go up, so equal looks before and after saw one.
MakingInv ==
  /\ capture.at \in {"checked", "oriented"} =>
       capture.before \in Nat /\ capture.before <= imu.generation
  /\ capture.at = "oriented" /\ capture.q # <<>> =>
       /\ capture.q[2] \in Nat /\ capture.q[3] = capture.time
       /\ capture.before <= capture.q[2] /\ capture.q[2] <= imu.generation
  /\ capture.at = "pictured" =>
       /\ capture.id = Len(capture.samples) + 1
       /\ capture.q[2] = capture.before /\ capture.q[3] = capture.time
       /\ capture.before \in Nat \ {0}
       /\ capture.id \in DOMAIN disk.pictures /\ disk.pictures[capture.id] = capture.time
       /\ capture.samples # <<>> => capture.before = capture.samples[1].generation

\* The session of the pairs is the one that the next has to be of.
GenerationInv ==
  /\ capture.at = "closed" => capture.samples = <<>>
  /\ capture.at \notin {"aborting", "ended"} /\ capture.samples # <<>> =>
       capture.generation = capture.samples[1].generation

Stages3 ==
  {"closed", "running", "grabbed", "checked", "oriented", "pictured", "aborting", "ended"}

PairsInv ==
  /\ PairShape /\ capture.at \in Stages3
  /\ ArePaired(capture.samples, disk.pictures)
  /\ ManifestInv /\ ImuInv /\ MakingInv /\ GenerationInv

LEMMA PairFacts ==
  ASSUME NEW s, IsPair(s), NEW active
  PROVE  [s EXCEPT !.active = active] =
         [id |-> s.id, active |-> active, time |-> s.time, q |-> s.q, generation |-> s.generation]
  BY DEF IsPair

LEMMA PairsInit == Handeye!Init => PairsInv
<1> SUFFICES ASSUME Handeye!Init PROVE PairsInv
  OBVIOUS
<1>1. PairShape /\ capture.at = "closed" /\ capture.samples = <<>>
  BY DEF Handeye!Init, PairShape
<1>2. disk.manifest = Handeye!NoFile /\ ImuInv
  BY DEF Handeye!Init, ImuInv
<1>3. ArePaired(<<>>, disk.pictures)
  BY DEF ArePaired, IsSeq
<1> QED BY <1>1, <1>2, <1>3 DEF PairsInv, ManifestInv, MakingInv, GenerationInv, Stages3

LEMMA PairsAreTrueFollows == PairsInv => Handeye!PairsAreTrue
  BY DEF PairsInv, ManifestInv, ArePaired, Handeye!PairsAreTrue

\* What leaves the recording alone keeps it true.
LEMMA RecordingStays ==
  ASSUME PairsInv, UNCHANGED capture, disk'.manifest = disk.manifest,
         disk'.pictures = disk.pictures, ImuInv', imu.generation <= imu'.generation
  PROVE  PairsInv'
<1>1. MakingInv'
  <2>1. imu.generation \in Nat /\ imu'.generation \in Nat
    BY DEF PairsInv, ImuInv
  <2> QED BY <2>1 DEF PairsInv, MakingInv
<1> QED BY <1>1 DEF PairsInv, PairShape, ArePaired, ManifestInv, GenerationInv

LEMMA ImuStep == PairsInv /\ (Handeye!Reconnect \/ Handeye!Synchronize) => PairsInv'
<1> SUFFICES ASSUME PairsInv, Handeye!Reconnect \/ Handeye!Synchronize PROVE PairsInv'
  OBVIOUS
<1>1. UNCHANGED <<disk, capture>>
  BY DEF Handeye!Reconnect, Handeye!Synchronize
<1>2. ImuInv' /\ imu.generation <= imu'.generation
  <2>1. ImuInv
    BY DEF PairsInv
  <2>2. CASE Handeye!Reconnect
    BY <2>1, <2>2 DEF ImuInv, Handeye!Reconnect
  <2>3. CASE Handeye!Synchronize
    <3>1. imu' = [generation |-> imu.generation, synchronized |-> TRUE]
      BY <2>1, <2>3 DEF ImuInv, Handeye!Synchronize
    <3> QED BY <3>1, <2>1 DEF ImuInv
  <2> QED BY <2>2, <2>3
<1> QED BY <1>1, <1>2, RecordingStays

\* The solver writes no pictures and no manifest.
LEMMA SolvingStep ==
  ASSUME PairsInv, HandeyeShape,
         \/ Handeye!Begin \/ Handeye!Review \/ Handeye!WriteSolution \/ Handeye!WriteVerdict
         \/ Handeye!WriteCandidate \/ Handeye!AbortSolve \/ Handeye!KillSolver
  PROVE  PairsInv'
<1>1. UNCHANGED <<imu, capture>>
  BY DEF Handeye!Begin, Handeye!Review, Handeye!WriteSolution, Handeye!WriteVerdict,
         Handeye!WriteCandidate, Handeye!AbortSolve, Handeye!KillSolver
<1>2. \/ UNCHANGED disk
      \/ \E review : disk' = [disk EXCEPT !.review = review]
      \/ \E report : disk' = [disk EXCEPT !.report = report]
      \/ \E candidate : disk' = [disk EXCEPT !.candidate = candidate]
  BY Zenon DEF Handeye!Begin, Handeye!Review, Handeye!WriteSolution, Handeye!WriteVerdict,
         Handeye!WriteReview, Handeye!WriteCandidate, Handeye!AbortSolve, Handeye!KillSolver
<1>3. disk'.manifest = disk.manifest /\ disk'.pictures = disk.pictures
  BY <1>2 DEF HandeyeShape
<1>4. ImuInv' /\ imu.generation <= imu'.generation
  BY <1>1 DEF PairsInv, ImuInv
<1> QED BY <1>1, <1>3, <1>4, RecordingStays

\* A step that writes nothing and keeps the pairs.
LEMMA LoopStep ==
  ASSUME PairsInv, UNCHANGED <<imu, disk>>, PairShape', capture'.at \in Stages3 \ {"closed"},
         capture'.samples = capture.samples, capture'.generation = capture.generation,
         capture.at \notin {"aborting", "ended"} \/ capture'.at \in {"aborting", "ended"},
         MakingInv'
  PROVE  PairsInv'
<1>1. GenerationInv'
  BY DEF PairsInv, GenerationInv
<1> QED BY <1>1 DEF PairsInv, ManifestInv, ArePaired, ImuInv

\* A frame is taken, left, or ends the capture.
LEMMA FrameStep ==
  ASSUME PairsInv,
         Handeye!Grab \/ Handeye!Skip \/ Handeye!FailCapture \/ Handeye!KillCapture
  PROVE  PairsInv'
<1>1. PairShape /\ UNCHANGED <<imu, disk>>
  BY DEF PairsInv, Handeye!Grab, Handeye!Skip, Handeye!FailCapture, Handeye!KillCapture
<1>2. PICK next \in {"running", "grabbed", "aborting", "ended"}, time \in {capture.time, capture.time + 1} :
        capture' = [capture EXCEPT !.time = time, !.at = next]
  <2>1. CASE Handeye!Grab
    <3>1. \/ capture' = [capture EXCEPT !.at = "aborting"]
          \/ capture' = [capture EXCEPT !.time = capture.time + 1, !.at = "grabbed"]
      BY <2>1 DEF Handeye!Grab, Handeye!Abort
    <3>2. [capture EXCEPT !.at = "aborting"]
            = [capture EXCEPT !.time = capture.time, !.at = "aborting"]
      BY <1>1 DEF PairShape
    <3> QED BY <3>1, <3>2
  <2>2. CASE Handeye!Skip \/ Handeye!FailCapture \/ Handeye!KillCapture
    <3>1. PICK next \in {"running", "aborting", "ended"} : capture' = [capture EXCEPT !.at = next]
      BY <2>2 DEF Handeye!Skip, Handeye!FailCapture, Handeye!KillCapture, Handeye!Abort
    <3>2. capture' = [capture EXCEPT !.time = capture.time, !.at = next]
      BY <1>1, <3>1 DEF PairShape
    <3> QED BY <3>2
  <2> QED BY <2>1, <2>2
<1>3. /\ PairShape' /\ capture'.at = next /\ capture'.samples = capture.samples
      /\ capture'.generation = capture.generation
  BY <1>1, <1>2 DEF PairShape
<1>4. capture.at \notin {"aborting", "ended"} \/ capture'.at \in {"aborting", "ended"}
  <2>1. CASE Handeye!Grab \/ Handeye!Skip \/ Handeye!FailCapture
    BY <2>1 DEF Handeye!Grab, Handeye!Skip, Handeye!FailCapture
  <2>2. CASE Handeye!KillCapture
    BY <1>1, <2>2 DEF Handeye!KillCapture, PairShape
  <2> QED BY <2>1, <2>2
<1>5. MakingInv' /\ capture'.at \in Stages3 \ {"closed"}
  BY <1>3 DEF MakingInv, Stages3
<1> QED BY <1>1, <1>3, <1>4, <1>5, LoopStep

\* The look before.
LEMMA PairIsSaved == PairsInv /\ Handeye!Save => PairsInv'
<1> SUFFICES ASSUME PairsInv, Handeye!Save PROVE PairsInv'
  OBVIOUS
<1>1. PairShape /\ UNCHANGED <<imu, disk>> /\ capture.at = "grabbed"
      /\ imu.generation \in Nat
  BY DEF PairsInv, Handeye!Save, ImuInv
<1>2. CASE capture' = [capture EXCEPT !.at = "running"]
  <2>1. /\ PairShape' /\ capture'.at = "running" /\ capture'.samples = capture.samples
        /\ capture'.generation = capture.generation
    BY <1>1, <1>2 DEF PairShape
  <2>2. MakingInv' /\ capture'.at \in Stages3 \ {"closed"}
    BY <2>1 DEF MakingInv, Stages3
  <2> QED BY <1>1, <2>1, <2>2, LoopStep
<1>3. CASE capture' = [capture EXCEPT !.before = imu.generation, !.at = "checked"]
  <2>1. /\ PairShape' /\ capture'.at = "checked" /\ capture'.samples = capture.samples
        /\ capture'.generation = capture.generation /\ capture'.before = imu.generation
    BY <1>1, <1>3 DEF PairShape
  <2>2. MakingInv' /\ capture'.at \in Stages3 \ {"closed"}
    BY <1>1, <2>1 DEF MakingInv, Stages3
  <2> QED BY <1>1, <2>1, <2>2, LoopStep
<1> QED BY <1>2, <1>3 DEF Handeye!Save

LEMMA AtStep == PairsInv /\ Handeye!At => PairsInv'
<1> SUFFICES ASSUME PairsInv, Handeye!At PROVE PairsInv'
  OBVIOUS
<1> DEFINE q == IF imu.synchronized THEN <<Pose[capture.time], imu.generation, capture.time>>
                ELSE <<>>
<1>1. /\ PairShape /\ UNCHANGED <<imu, disk>> /\ capture.at = "checked"
      /\ imu.generation \in Nat /\ capture.before \in Nat /\ capture.before <= imu.generation
  BY DEF PairsInv, Handeye!At, ImuInv, MakingInv
<1>2. capture' = [capture EXCEPT !.at = "oriented", !.q = q]
  BY DEF Handeye!At
<1>3. q # <<>> => q[2] = imu.generation /\ q[3] = capture.time
  OBVIOUS
<1> HIDE DEF q
<1>4. /\ PairShape' /\ capture'.at = "oriented" /\ capture'.samples = capture.samples
      /\ capture'.generation = capture.generation /\ capture'.before = capture.before
      /\ capture'.q = q /\ capture'.time = capture.time
  BY <1>1, <1>2 DEF PairShape
<1>5. MakingInv' /\ capture'.at \in Stages3 \ {"closed"}
  BY <1>1, <1>3, <1>4 DEF MakingInv, Stages3
<1> QED BY <1>1, <1>4, <1>5, LoopStep

\* A picture is written under a number that no pair has.
LEMMA StorePicture ==
  ASSUME NEW s, NEW pictures, ArePaired(s, pictures), NEW id, id \notin DOMAIN s, NEW picture
  PROVE  /\ ArePaired(s, Handeye!Store(id, picture, pictures))
         /\ id \in DOMAIN Handeye!Store(id, picture, pictures)
         /\ Handeye!Store(id, picture, pictures)[id] = picture
  BY DEF ArePaired, Handeye!Store

LEMMA PictureStep == HandeyeShape /\ PairsInv /\ Handeye!SavePicture => PairsInv'
<1> SUFFICES ASSUME HandeyeShape, PairsInv, Handeye!SavePicture PROVE PairsInv'
  OBVIOUS
<1>1. PairShape /\ UNCHANGED imu /\ capture.at = "oriented"
  BY DEF PairsInv, Handeye!SavePicture
<1>2. CASE /\ UNCHANGED disk
           /\ \/ capture' = [capture EXCEPT !.at = "aborting"]
              \/ capture' = [capture EXCEPT !.at = "running", !.q = <<>>,
                                            !.before = Handeye!None]
  <2>1. /\ PairShape' /\ capture'.at \in {"aborting", "running"}
        /\ capture'.samples = capture.samples /\ capture'.generation = capture.generation
    BY <1>1, <1>2 DEF PairShape
  <2>2. MakingInv' /\ capture'.at \in Stages3 \ {"closed"}
    BY <2>1 DEF MakingInv, Stages3
  <2> QED BY <1>1, <1>2, <2>1, <2>2, LoopStep
<1>3. CASE /\ ~Handeye!NewSession /\ Handeye!OneSession
           /\ disk' = [disk EXCEPT !.pictures = Handeye!Store(Handeye!NextId, capture.time, @)]
           /\ capture' = [capture EXCEPT !.at = "pictured", !.id = Handeye!NextId,
                                         !.before = imu.generation]
  <2> DEFINE id == Len(capture.samples) + 1
             pictures == Handeye!Store(id, capture.time, disk.pictures)
  <2>1. /\ disk' = [disk EXCEPT !.pictures = pictures]
        /\ capture' = [capture EXCEPT !.at = "pictured", !.id = id, !.before = imu.generation]
    BY <1>3 DEF Handeye!NextId
  <2>2. disk'.manifest = disk.manifest /\ disk'.pictures = pictures
    BY <2>1 DEF HandeyeShape
  <2>3. /\ PairShape' /\ capture'.at = "pictured" /\ capture'.samples = capture.samples
        /\ capture'.generation = capture.generation /\ capture'.before = imu.generation
        /\ capture'.id = id /\ capture'.q = capture.q /\ capture'.time = capture.time
    BY <1>1, <2>1 DEF PairShape
  <2>4. /\ ArePaired(capture.samples, disk.pictures)
        /\ Len(capture.samples) \in Nat /\ DOMAIN capture.samples = 1 .. Len(capture.samples)
    BY SeqFacts DEF PairsInv, ArePaired
  <2>5. /\ ArePaired(capture.samples, pictures) /\ id \in DOMAIN pictures
        /\ pictures[id] = capture.time
    <3>1. id \notin DOMAIN capture.samples
      BY <2>4
    <3>2. ArePaired(capture.samples, disk.pictures)
      BY <2>4
    <3>3. \A s, p, i, x : ArePaired(s, p) /\ i \notin DOMAIN s =>
            /\ ArePaired(s, Handeye!Store(i, x, p)) /\ i \in DOMAIN Handeye!Store(i, x, p)
            /\ Handeye!Store(i, x, p)[i] = x
      BY StorePicture
    <3> HIDE DEF id
    <3> QED BY <3>1, <3>2, <3>3
  <2>6. disk.manifest # Handeye!NoFile =>
          /\ ArePaired(disk.manifest.samples, pictures)
          /\ Len(disk.manifest.samples) <= Len(capture.samples)
    <3> SUFFICES ASSUME disk.manifest # Handeye!NoFile
                 PROVE  /\ ArePaired(disk.manifest.samples, pictures)
                        /\ Len(disk.manifest.samples) <= Len(capture.samples)
      OBVIOUS
    <3>1. /\ ArePaired(disk.manifest.samples, disk.pictures)
          /\ Len(disk.manifest.samples) <= Len(capture.samples)
      BY DEF PairsInv, ManifestInv
    <3>2. Len(disk.manifest.samples) \in Nat
          /\ DOMAIN disk.manifest.samples = 1 .. Len(disk.manifest.samples)
      BY <3>1, SeqFacts DEF ArePaired
    <3>3. id \notin DOMAIN disk.manifest.samples
      BY <2>4, <3>1, <3>2
    <3> QED BY <3>1, <3>3, StorePicture
  <2> HIDE DEF id, pictures
  <2>7. ManifestInv'
    BY <2>2, <2>3, <2>6 DEF ManifestInv
  <2>8. /\ capture.q[2] = imu.generation /\ capture.q[3] = capture.time
        /\ imu.generation \in Nat \ {0}
    BY <1>1, <1>3 DEF PairsInv, MakingInv, ImuInv, Handeye!OneSession
  <2>9. capture.samples # <<>> => imu.generation = capture.samples[1].generation
    <3> SUFFICES ASSUME capture.samples # <<>>
                 PROVE  imu.generation = capture.samples[1].generation
      OBVIOUS
    <3>1. 1 \in DOMAIN capture.samples
      <4>1. Len(capture.samples) # 0
        BY <2>4
      <4> QED BY <2>4, <4>1
    <3>2. capture.samples[1].generation # 0
      BY <2>4, <3>1 DEF ArePaired
    <3>3. capture.generation = capture.samples[1].generation
      BY <1>1 DEF PairsInv, GenerationInv
    <3> QED BY <1>3, <3>2, <3>3 DEF Handeye!NewSession, Handeye!None
  <2>10. MakingInv'
    BY <2>2, <2>3, <2>5, <2>8, <2>9 DEF MakingInv, id
  <2>11. GenerationInv' /\ capture'.at \in Stages3
    BY <1>1, <2>3 DEF PairsInv, GenerationInv, Stages3
  <2>12. ArePaired(capture.samples, disk.pictures)'
    BY <2>2, <2>3, <2>5
  <2>13. ImuInv'
    BY <1>1 DEF PairsInv, ImuInv
  <2> QED BY <2>3, <2>7, <2>10, <2>11, <2>12, <2>13 DEF PairsInv
<1>4. \/ /\ UNCHANGED disk
         /\ \/ capture' = [capture EXCEPT !.at = "aborting"]
            \/ capture' = [capture EXCEPT !.at = "running", !.q = <<>>, !.before = Handeye!None]
      \/ /\ ~Handeye!NewSession /\ Handeye!OneSession
         /\ disk' = [disk EXCEPT !.pictures = Handeye!Store(Handeye!NextId, capture.time, @)]
         /\ capture' = [capture EXCEPT !.at = "pictured", !.id = Handeye!NextId,
                                       !.before = imu.generation]
  BY Zenon DEF Handeye!SavePicture, Handeye!Abort
<1> QED BY <1>2, <1>3, <1>4

\* The samples in memory are written to the manifest, or it stays as it was.
LEMMA ManifestIsWritten ==
  ASSUME PairsInv, NEW s, ArePaired(s, disk.pictures), Len(capture.samples) <= Len(s),
         NEW status, disk'.manifest \in {disk.manifest, Handeye!Manifest(status, s)},
         disk'.pictures = disk.pictures, UNCHANGED imu,
         PairShape', capture'.samples = s, capture'.at \in {"running", "aborting", "ended"},
         GenerationInv'
  PROVE  PairsInv'
<1>1. /\ Len(s) \in Nat /\ Len(capture.samples) \in Nat
      /\ ArePaired(capture.samples, disk.pictures)
  BY SeqFacts DEF PairsInv, ArePaired
<1>2. ManifestInv'
  <2>1. CASE disk'.manifest = disk.manifest
    <3>1. disk.manifest # Handeye!NoFile => Len(disk.manifest.samples) \in Nat
      BY SeqFacts DEF PairsInv, ManifestInv, ArePaired
    <3> QED BY <1>1, <2>1, <3>1 DEF PairsInv, ManifestInv
  <2>2. CASE disk'.manifest = Handeye!Manifest(status, s)
    <3>1. disk'.manifest.samples = s
      BY <2>2 DEF Handeye!Manifest
    <3> QED BY <1>1, <3>1 DEF ManifestInv
  <2> QED BY <2>1, <2>2
<1>3. MakingInv' /\ ImuInv' /\ capture'.at \in Stages3
  BY DEF MakingInv, PairsInv, ImuInv, Stages3
<1> QED BY <1>2, <1>3 DEF PairsInv

LEMMA CommitStep == HandeyeShape /\ PairsInv /\ Handeye!CommitPair => PairsInv'
<1> SUFFICES ASSUME HandeyeShape, PairsInv, Handeye!CommitPair PROVE PairsInv'
  OBVIOUS
<1> DEFINE pair == Handeye!Pair
           s == Append(capture.samples, pair)
<1>1. /\ PairShape /\ UNCHANGED imu /\ capture.at = "pictured"
      /\ ArePaired(capture.samples, disk.pictures)
  BY DEF PairsInv, Handeye!CommitPair
<1>2. /\ capture.id = Len(capture.samples) + 1
      /\ capture.q[2] = capture.before /\ capture.q[3] = capture.time
      /\ capture.before \in Nat \ {0}
      /\ capture.id \in DOMAIN disk.pictures /\ disk.pictures[capture.id] = capture.time
      /\ capture.samples # <<>> => capture.before = capture.samples[1].generation
  BY <1>1 DEF PairsInv, MakingInv
<1>3. PICK o \in Handeye!Replace(disk.manifest, Handeye!Manifest("collecting", s)) :
        /\ disk' = [disk EXCEPT !.manifest = o.file]
        /\ capture' = [capture EXCEPT
             !.samples = Append(@, pair), !.q = <<>>, !.before = Handeye!None,
             !.id = Handeye!None,
             !.at = IF o.ok THEN "running" ELSE "aborting",
             !.generation = IF o.ok THEN capture.before ELSE @,
             !.last_saved = IF o.ok THEN capture.time ELSE @]
  BY DEF Handeye!CommitPair
<1>4. /\ pair.id = capture.id /\ pair.time = capture.time /\ pair.q = capture.q
      /\ pair.generation = capture.before /\ IsPair(pair)
  BY DEF Handeye!Pair, IsPair
<1> HIDE DEF pair
<1>5. /\ IsSeq(capture.samples) /\ Len(capture.samples) \in Nat
      /\ DOMAIN capture.samples = 1 .. Len(capture.samples)
      /\ IsSeq(s) /\ Len(s) = Len(capture.samples) + 1
      /\ DOMAIN s = 1 .. Len(capture.samples) + 1
      /\ \A i \in DOMAIN capture.samples : s[i] = capture.samples[i]
      /\ s[Len(capture.samples) + 1] = pair
  BY <1>1, SeqFacts, AppendFacts DEF ArePaired
<1>6. s[1].generation = capture.before
  <2>1. CASE Len(capture.samples) = 0
    BY <1>4, <1>5, <2>1
  <2>2. CASE Len(capture.samples) # 0
    <3>1. 1 \in DOMAIN capture.samples /\ capture.samples # <<>>
      BY <1>5, <2>2
    <3> QED BY <1>2, <1>5, <3>1
  <2> QED BY <2>1, <2>2
<1>7. ArePaired(s, disk.pictures)
  <2>1. ASSUME NEW i \in DOMAIN s
        PROVE  /\ IsPair(s[i]) /\ s[i].id = i
               /\ i \in DOMAIN disk.pictures /\ disk.pictures[i] = s[i].time
               /\ s[i].q[2] = s[i].generation /\ s[i].q[3] = s[i].time
               /\ s[i].generation = s[1].generation /\ s[i].generation # 0
    <3>1. CASE i \in DOMAIN capture.samples
      <4>1. capture.samples # <<>>
        BY <3>1
      <4> QED BY <1>1, <1>2, <1>5, <1>6, <3>1, <4>1 DEF ArePaired
    <3>2. CASE i = Len(capture.samples) + 1
      BY <1>2, <1>4, <1>5, <1>6, <3>2
    <3> QED BY <1>5, <3>1, <3>2
  <2> QED BY <1>5, <2>1 DEF ArePaired
<1> HIDE DEF s
<1>8. capture' = [at |-> IF o.ok THEN "running" ELSE "aborting", samples |-> s,
                  time |-> capture.time,
                  last_saved |-> IF o.ok THEN capture.time ELSE capture.last_saved,
                  generation |-> IF o.ok THEN capture.before ELSE capture.generation,
                  before |-> Handeye!None, q |-> <<>>, id |-> Handeye!None]
  BY <1>1, <1>3 DEF PairShape, s
<1>9. /\ PairShape' /\ capture'.samples = s
      /\ capture'.at = IF o.ok THEN "running" ELSE "aborting"
      /\ capture'.generation = IF o.ok THEN capture.before ELSE capture.generation
  BY <1>8 DEF PairShape
<1>10. GenerationInv' /\ capture'.at \in {"running", "aborting", "ended"}
  BY <1>6, <1>9 DEF GenerationInv
<1>11. /\ disk'.manifest \in {disk.manifest, Handeye!Manifest("collecting", s)}
       /\ disk'.pictures = disk.pictures
  <2>1. o.file \in {disk.manifest, Handeye!Manifest("collecting", s)}
    BY <1>3 DEF Handeye!Replace, Handeye!Outcome
  <2> QED BY <1>3, <2>1 DEF HandeyeShape
<1>12. Len(capture.samples) <= Len(s)
  BY <1>5
<1> QED BY <1>1, <1>7, <1>9, <1>10, <1>11, <1>12, ManifestIsWritten

\* A manifest of the same pairs, with other flags, ids or not.
LEMMA ManifestStep ==
  ASSUME HandeyeShape, PairsInv, UNCHANGED imu, NEW status, NEW s, NEW next, NEW otherwise,
         Handeye!WriteManifest(status, s, next, otherwise),
         ArePaired(s, disk.pictures), Len(s) = Len(capture.samples),
         s # <<>> => capture.samples # <<>> /\ s[1].generation = capture.samples[1].generation,
         next \in {"running", "ended"}, otherwise \in {"aborting", "ended"},
         capture.at \notin {"aborting", "ended"} \/ next = "ended"
  PROVE  PairsInv'
<1>1. PairShape
  BY DEF PairsInv
<1>2. PICK o \in Handeye!Replace(disk.manifest, Handeye!Manifest(status, s)) :
        /\ disk' = [disk EXCEPT !.manifest = o.file]
        /\ capture' = [capture EXCEPT !.at = IF o.ok THEN next ELSE otherwise, !.samples = s]
  BY DEF Handeye!WriteManifest
<1>3. /\ PairShape' /\ capture'.samples = s
      /\ capture'.at = IF o.ok THEN next ELSE otherwise
      /\ capture'.generation = capture.generation
  BY <1>1, <1>2 DEF PairShape
<1>4. capture'.at \in {"running", "aborting", "ended"}
  BY <1>3
<1>5. GenerationInv'
  BY <1>3 DEF PairsInv, GenerationInv
<1>6. /\ disk'.manifest \in {disk.manifest, Handeye!Manifest(status, s)}
      /\ disk'.pictures = disk.pictures
  <2>1. o.file \in {disk.manifest, Handeye!Manifest(status, s)}
    BY <1>2 DEF Handeye!Replace, Handeye!Outcome
  <2> QED BY <1>2, <2>1 DEF HandeyeShape
<1>7. Len(capture.samples) <= Len(s)
  <2>1. Len(s) \in Nat
    BY SeqFacts DEF ArePaired
  <2> QED BY <2>1
<1> QED BY <1>3, <1>4, <1>5, <1>6, <1>7, ManifestIsWritten

LEMMA ManifestsStep ==
  ASSUME HandeyeShape, PairsInv,
         Handeye!OpenCapture \/ Handeye!EndCapture \/ Handeye!ExcludeLast
  PROVE  PairsInv'
<1>1. UNCHANGED imu /\ ArePaired(capture.samples, disk.pictures)
  BY DEF PairsInv, Handeye!OpenCapture, Handeye!EndCapture, Handeye!ExcludeLast
<1>2. CASE Handeye!OpenCapture
  <2>1. disk.manifest = Handeye!NoFile /\ capture.at = "closed"
        /\ Handeye!WriteManifest("collecting", <<>>, "running", "ended")
    BY <1>2 DEF PairsInv, ManifestInv, Handeye!OpenCapture
  <2>2. capture.samples = <<>>
    BY <2>1 DEF PairsInv, GenerationInv
  <2>3. Handeye!WriteManifest("collecting", capture.samples, "running", "ended")
    BY <2>1, <2>2
  <2>4. capture.at \notin {"aborting", "ended"}
    BY <2>1
  <2> QED BY <1>1, <2>2, <2>3, <2>4, ManifestStep
<1>3. CASE Handeye!EndCapture
  <2>1. PICK status : Handeye!WriteManifest(status, capture.samples, "ended", "ended")
    BY <1>3 DEF Handeye!EndCapture
  <2> QED BY <1>1, <2>1, ManifestStep
<1>4. CASE Handeye!ExcludeLast
  <2>1. PICK i \in DOMAIN capture.samples :
          Handeye!WriteManifest("collecting", [capture.samples EXCEPT ![i].active = FALSE],
                                "running", "aborting")
    BY <1>4 DEF Handeye!ExcludeLast
  <2> DEFINE e == [id |-> capture.samples[i].id, active |-> FALSE,
                   time |-> capture.samples[i].time, q |-> capture.samples[i].q,
                   generation |-> capture.samples[i].generation]
             s == [capture.samples EXCEPT ![i] = e]
  <2>2. [capture.samples EXCEPT ![i].active = FALSE] = s
    <3>1. [capture.samples[i] EXCEPT !.active = FALSE] = e
      <4>1. IsPair(capture.samples[i])
        BY <1>1 DEF ArePaired
      <4> QED BY <4>1, PairFacts, Zenon
    <3> QED BY <3>1
  <2>3. /\ e.id = capture.samples[i].id /\ e.time = capture.samples[i].time
        /\ e.q = capture.samples[i].q /\ e.generation = capture.samples[i].generation
        /\ IsPair(e)
    BY DEF IsPair
  <2> HIDE DEF e
  <2>4. /\ IsSeq(s) /\ Len(s) = Len(capture.samples) /\ DOMAIN s = DOMAIN capture.samples
        /\ s[i] = e /\ \A j \in DOMAIN capture.samples : j # i => s[j] = capture.samples[j]
    BY <1>1, ExceptFacts DEF ArePaired
  <2>5. 1 \in DOMAIN capture.samples /\ capture.samples # <<>>
    <3>1. Len(capture.samples) \in Nat /\ DOMAIN capture.samples = 1 .. Len(capture.samples)
      BY <1>1, SeqFacts DEF ArePaired
    <3> QED BY <3>1
  <2> HIDE DEF s
  <2>6. s[1].generation = capture.samples[1].generation
    BY <2>3, <2>4, <2>5
  <2>7. ArePaired(s, disk.pictures)
    BY <1>1, <2>3, <2>4, <2>5, <2>6 DEF ArePaired
  <2>8. Handeye!WriteManifest("collecting", s, "running", "aborting")
    BY <2>1, <2>2
  <2>9. capture.at \notin {"aborting", "ended"}
    BY <1>4 DEF Handeye!ExcludeLast
  <2> QED BY <1>1, <2>4, <2>5, <2>6, <2>7, <2>8, <2>9, ManifestStep
<1> QED BY <1>2, <1>3, <1>4

HandeyeInv == CandidateInv /\ PairsInv

LEMMA HandeyeInit == Handeye!Init => HandeyeInv
  BY CandidateInit, PairsInit DEF HandeyeInv

LEMMA HandeyeStep == HandeyeInv /\ [Handeye!Next]_Handeye!vars => HandeyeInv'
<1> SUFFICES ASSUME HandeyeInv, [Handeye!Next]_Handeye!vars PROVE HandeyeInv'
  OBVIOUS
<1>1. CandidateInv' /\ PairsInv /\ HandeyeShape
  BY CandidateStep DEF HandeyeInv, CandidateInv
<1>2. CASE UNCHANGED Handeye!vars
  <2>1. PairsInv'
    BY <1>1, <1>2 DEF PairsInv, PairShape, ArePaired, ManifestInv, ImuInv, MakingInv,
                      GenerationInv, Handeye!vars
  <2> QED BY <1>1, <2>1 DEF HandeyeInv
<1>3. CASE Handeye!Next
  <2>1. PairsInv'
    BY <1>1, <1>3, ImuStep, FrameStep, PairIsSaved, AtStep, PictureStep, CommitStep,
       ManifestsStep, SolvingStep DEF Handeye!Next
  <2> QED BY <1>1, <2>1 DEF HandeyeInv
<1> QED BY <1>2, <1>3

\* A set of places has a last one.
LEMMA LastPlace ==
  ASSUME NEW n \in Nat, NEW S, S \subseteq 1 .. n, S # {}
  PROVE  \E i \in S : \A j \in S : j <= i
<1> DEFINE T == {n - i : i \in S}
           R == OpToRel(<, Nat)
<1>1. T \subseteq Nat /\ T # {}
  <2>1. \A i \in S : n - i \in Nat
    OBVIOUS
  <2>2. PICK i : i \in S
    OBVIOUS
  <2> QED BY <2>1, <2>2
<1>2. PICK x \in T : \A y \in T : ~ (<<y, x>> \in R)
  <2> HIDE DEF T, R
  <2>1. IsWellFoundedOn(R, Nat)
    BY NatLessThanWellFounded DEF R
  <2> QED BY <1>1, <2>1, WFMin
<1>3. \A y \in T : ~(y < x)
  BY <1>1, <1>2 DEF OpToRel
<1>4. PICK i \in S : x = n - i
  OBVIOUS
<1>5. \A j \in S : ~(n - j < n - i)
  BY <1>3, <1>4
<1>6. \A j \in S : j \in 1 .. n
  OBVIOUS
<1> HIDE DEF T, R
<1>7. \A j \in S : j <= i
  BY <1>5, <1>6, <1>4
<1> QED BY <1>7

\* What is left when the last element is taken off.
LEMMA FrontFacts ==
  ASSUME NEW s, IsSeq(s), s # <<>>
  PROVE  /\ Len(s) \in DOMAIN s
         /\ IsSeq(SubSeq(s, 1, Len(s) - 1)) /\ Len(SubSeq(s, 1, Len(s) - 1)) = Len(s) - 1
         /\ \A i \in 1 .. Len(s) - 1 : i \in DOMAIN s /\ SubSeq(s, 1, Len(s) - 1)[i] = s[i]
<1> DEFINE S == {s[i] : i \in DOMAIN s}
           n == Len(s) - 1
           f == SubSeq(s, 1, n)
<1>1. s \in Seq(S) /\ Len(s) \in Nat /\ DOMAIN s = 1 .. Len(s) /\ Len(s) # 0
  BY SeqFacts DEF IsSeq
<1>2. /\ n \in Int /\ n >= 0 /\ n <= Len(s)
      /\ \A i \in 1 .. n : i \in DOMAIN s /\ s[i] \in S
  BY <1>1
<1> HIDE DEF S, n
<1>3. /\ f \in Seq(S) /\ Len(f) = (IF 1 <= n THEN n - 1 + 1 ELSE 0)
      /\ \A i \in 1 .. n - 1 + 1 : f[i] = s[1 + i - 1]
  BY <1>2, SubSeqProperties
<1>4. Len(f) = n /\ \A i \in 1 .. n : f[i] = s[i]
  BY <1>2, <1>3
<1>5. IsSeq(f)
  BY <1>3, TypedSeqFacts
<1>6. Len(s) \in DOMAIN s
  BY <1>1
<1> QED BY <1>2, <1>4, <1>5, <1>6 DEF n

-----------------------------------------------------------------------------
(* Extrinsic calibration: the sessions. *)

SessionShape ==
  capture = [at |-> capture.at, samples |-> capture.samples,
             next_sample_id |-> capture.next_sample_id, sample |-> capture.sample]

\* A sample and its picture: the path names its place and whether it is active.
PathAt(i, active) == Extrinsic!Path(IF active = TRUE THEN "images" ELSE "excluded", i)

IsSample(s, i, pictures) ==
  /\ s = [active |-> s.active, path |-> s.path, frame |-> s.frame]
  /\ s.active \in BOOLEAN /\ s.path = PathAt(i, s.active)
  /\ s.path \in DOMAIN pictures /\ pictures[s.path] = s.frame
  /\ s.frame.time \in Int

InOrder(s) ==
  \A i \in DOMAIN s : \A j \in 1 .. i - 1 :
    s[j].frame.time < s[i].frame.time /\ s[j].frame.round = s[i].frame.round

AreWhole(s, pictures) ==
  /\ IsSeq(s)
  /\ \A i \in DOMAIN s : IsSample(s[i], i, pictures)
  /\ InOrder(s)

Stamped == \A f \in Frames : f.time \in Int

Finished == disk.manifest.status \in {"captured", "aborted"}

\* The samples in memory are whole until the process ends; numbers count the samples.
MemoryInv ==
  /\ capture.at \in {"closed", "running", "saving", "excluding", "failing", "ended"}
  /\ capture.at # "ended" => AreWhole(capture.samples, disk.pictures)
  /\ capture.at = "closed" => capture.samples = <<>>
  /\ capture.at \in {"closed", "running", "excluding"} =>
       capture.next_sample_id = Len(capture.samples) + 1
  /\ capture.at = "saving" =>
       capture.samples # <<>> /\ capture.next_sample_id = Len(capture.samples)
  /\ capture.at = "excluding" =>
       /\ capture.sample \in DOMAIN capture.samples
       /\ capture.samples[capture.sample].active = FALSE

\* A manifest that can be solved is the last thing a capture writes.
FinishedInv ==
  Finished => capture.at = "ended" /\ AreWhole(disk.manifest.samples, disk.pictures)

SessionInv == SessionShape /\ MemoryInv /\ FinishedInv

LEMMA SessionInit == Extrinsic!Init => SessionInv
<1> SUFFICES ASSUME Extrinsic!Init PROVE SessionInv
  OBVIOUS
<1>1. SessionShape /\ capture.at = "closed" /\ capture.samples = <<>>
      /\ capture.next_sample_id = 1
  BY DEF Extrinsic!Init, SessionShape
<1>2. ~Finished
  BY DEF Extrinsic!Init, Finished, Extrinsic!NoFile
<1>3. AreWhole(<<>>, disk.pictures)
  BY DEF AreWhole, InOrder, IsSeq
<1>4. Len(<<>>) + 1 = 1
  OBVIOUS
<1> QED BY <1>1, <1>2, <1>3, <1>4 DEF SessionInv, MemoryInv, FinishedInv

LEMMA SessionInvIsWhole == SessionInv => Extrinsic!SessionsAreWhole
<1> SUFFICES ASSUME SessionInv, Finished,
                    NEW i \in DOMAIN disk.manifest.samples
             PROVE  LET samples == disk.manifest.samples IN
                    /\ samples[i].path \in DOMAIN disk.pictures
                    /\ disk.pictures[samples[i].path] = samples[i].frame
                    /\ samples[i].active <=> samples[i].path.directory = "images"
                    /\ \A j \in 1 .. i - 1 : /\ samples[j].frame.time < samples[i].frame.time
                                             /\ samples[j].frame.round = samples[i].frame.round
  BY DEF Extrinsic!SessionsAreWhole, Finished
<1> DEFINE s == disk.manifest.samples
<1>1. IsSample(s[i], i, disk.pictures) /\ InOrder(s)
  BY DEF SessionInv, FinishedInv, AreWhole
<1>2. s[i].active <=> s[i].path.directory = "images"
  BY <1>1 DEF IsSample, PathAt, Extrinsic!Path
<1> QED BY <1>1, <1>2 DEF IsSample, InOrder

\* Paths of different samples differ, and so do those of one before and after it is excluded.
LEMMA PathFacts ==
  ASSUME NEW i, NEW j, NEW a \in BOOLEAN, NEW b \in BOOLEAN
  PROVE  PathAt(i, a) = PathAt(j, b) <=> i = j /\ a = b
<1>1. PathAt(i, a).id = i /\ PathAt(j, b).id = j
      /\ PathAt(i, a).directory = (IF a = TRUE THEN "images" ELSE "excluded")
      /\ PathAt(j, b).directory = (IF b = TRUE THEN "images" ELSE "excluded")
  BY DEF PathAt, Extrinsic!Path
<1>2. PathAt(i, a) = PathAt(j, b) => a = b
  BY <1>1
<1> QED BY <1>1, <1>2

\* A step that changes none of the pictures of the samples.
LEMMA PutSample ==
  ASSUME NEW s, NEW pictures, AreWhole(s, pictures), NEW e, NEW flag,
         IsSample(e, Len(s) + 1, Extrinsic!Put(e.path, e.frame, pictures)),
         s # <<>> => /\ e.frame.time > s[Len(s)].frame.time
                     /\ e.frame.round = s[Len(s)].frame.round
  PROVE  AreWhole(Append(s, e), Extrinsic!Put(e.path, e.frame, pictures))
<1> DEFINE t == Append(s, e)
           p == Extrinsic!Put(e.path, e.frame, pictures)
           n == Len(s)
<1>1. /\ IsSeq(t) /\ n \in Nat /\ DOMAIN s = 1 .. n /\ DOMAIN t = 1 .. n + 1
      /\ \A i \in 1 .. n : t[i] = s[i]
      /\ t[n + 1] = e
  BY SeqFacts, AppendFacts DEF AreWhole
<1>2. \A i \in 1 .. n : IsSample(s[i], i, pictures)
  BY <1>1 DEF AreWhole
<1> HIDE DEF n, t
<1>3. ASSUME NEW i \in 1 .. n
      PROVE  IsSample(s[i], i, p)
  <2>1. s[i].path # e.path
    <3>1. s[i].path = PathAt(i, s[i].active) /\ s[i].active \in BOOLEAN
      BY <1>2 DEF IsSample
    <3>2. e.path = PathAt(n + 1, e.active) /\ e.active \in BOOLEAN
      BY DEF IsSample, n
    <3>3. i # n + 1
      BY <1>1
    <3> QED BY <3>1, <3>2, <3>3, PathFacts
  <2> QED BY <1>2, <2>1 DEF IsSample, Extrinsic!Put
<1>4. \A i \in DOMAIN t : IsSample(t[i], i, p)
  <2>1. \A i \in DOMAIN t : i \in 1 .. n \/ i = n + 1
    BY <1>1
  <2>2. IsSample(e, n + 1, p)
    BY DEF n
  <2> HIDE DEF p
  <2> QED BY <1>1, <1>3, <2>1, <2>2
<1>5. ASSUME NEW j \in 1 .. n
      PROVE  s[j].frame.time < e.frame.time /\ s[j].frame.round = e.frame.round
  <2>1. n \in 1 .. n /\ s # <<>>
    BY <1>1
  <2>2. e.frame.time > s[n].frame.time /\ e.frame.round = s[n].frame.round
    BY <2>1 DEF n
  <2>3. j # n => s[j].frame.time < s[n].frame.time /\ s[j].frame.round = s[n].frame.round
    <3>1. j # n => j \in 1 .. n - 1
      BY <1>1
    <3> QED BY <1>1, <2>1, <3>1 DEF AreWhole, InOrder
  <2>4. s[j].frame.time \in Int /\ s[n].frame.time \in Int /\ e.frame.time \in Int
    BY <1>2, <2>1 DEF IsSample
  <2> QED BY <2>2, <2>3, <2>4
<1>6. InOrder(t)
  <2> SUFFICES ASSUME NEW i \in DOMAIN t, NEW j \in 1 .. i - 1
               PROVE  t[j].frame.time < t[i].frame.time /\ t[j].frame.round = t[i].frame.round
    BY DEF InOrder
  <2>1. CASE i = n + 1
    <3>1. j \in 1 .. n
      BY <1>1, <2>1
    <3> QED BY <1>1, <1>5, <2>1, <3>1
  <2>2. CASE i \in 1 .. n
    <3>1. j \in 1 .. n
      BY <1>1, <2>2
    <3> QED BY <1>1, <2>2, <3>1 DEF AreWhole, InOrder
  <2> QED BY <1>1, <2>1, <2>2
<1>7. AreWhole(t, p)
  BY <1>1, <1>4, <1>6 DEF AreWhole
<1> QED BY <1>7 DEF t

\* The last sample and its picture are taken back.
LEMMA DropSample ==
  ASSUME NEW s, NEW pictures, AreWhole(s, pictures), s # <<>>
  PROVE  AreWhole(SubSeq(s, 1, Len(s) - 1), Extrinsic!Drop(s[Len(s)].path, pictures))
<1> DEFINE n == Len(s) - 1
           t == SubSeq(s, 1, n)
           p == Extrinsic!Drop(s[Len(s)].path, pictures)
<1>1. /\ IsSeq(t) /\ Len(t) = n /\ DOMAIN t = 1 .. n
      /\ \A i \in 1 .. n : i \in DOMAIN s /\ t[i] = s[i]
      /\ Len(s) \in DOMAIN s /\ DOMAIN s = 1 .. Len(s) /\ Len(s) \in Nat
  BY FrontFacts, SeqFacts DEF AreWhole
<1> HIDE DEF t
<1>2. ASSUME NEW i \in 1 .. n
      PROVE  IsSample(t[i], i, p)
  <2>1. IsSample(s[i], i, pictures) /\ IsSample(s[Len(s)], Len(s), pictures) /\ t[i] = s[i]
    BY <1>1 DEF AreWhole
  <2>2. i # Len(s)
    BY <1>1
  <2>3. s[i].path # s[Len(s)].path
    BY <2>1, <2>2, PathFacts DEF IsSample
  <2> QED BY <2>1, <2>3 DEF IsSample, Extrinsic!Drop
<1>3. InOrder(t)
  <2> SUFFICES ASSUME NEW i \in 1 .. n, NEW j \in 1 .. i - 1
               PROVE  t[j].frame.time < t[i].frame.time /\ t[j].frame.round = t[i].frame.round
    BY <1>1 DEF InOrder
  <2>1. i \in DOMAIN s /\ j \in 1 .. n
    BY <1>1
  <2> QED BY <1>1, <2>1 DEF AreWhole, InOrder
<1> HIDE DEF p, n
<1>4. AreWhole(t, p)
  BY <1>1, <1>2, <1>3 DEF AreWhole
<1> QED BY <1>4 DEF t, p, n

\* A sample is excluded, or taken back, with its picture.
LEMMA MoveSample ==
  ASSUME NEW s, NEW pictures, AreWhole(s, pictures), NEW k \in DOMAIN s,
         NEW flag \in BOOLEAN, s[k].active # flag
  PROVE  LET e == [active |-> flag, path |-> PathAt(k, flag), frame |-> s[k].frame] IN
         AreWhole([s EXCEPT ![k] = e], Extrinsic!Move(s[k].path, e.path, pictures))
<1> DEFINE e == [active |-> flag, path |-> PathAt(k, flag), frame |-> s[k].frame]
           t == [s EXCEPT ![k] = e]
           p == Extrinsic!Move(s[k].path, e.path, pictures)
<1>1. /\ e.active = flag /\ e.path = PathAt(k, flag) /\ e.frame = s[k].frame
      /\ e = [active |-> e.active, path |-> e.path, frame |-> e.frame]
  OBVIOUS
<1> HIDE DEF e
<1>2. /\ IsSeq(t) /\ DOMAIN t = DOMAIN s /\ t[k] = e
      /\ \A i \in DOMAIN s : i # k => t[i] = s[i]
  BY ExceptFacts DEF AreWhole
<1> HIDE DEF t
<1>3. \A i \in DOMAIN s : IsSample(s[i], i, pictures)
  BY DEF AreWhole
<1>4. /\ \A q \in DOMAIN pictures : q # s[k].path =>
           q \in DOMAIN p /\ (q # e.path => p[q] = pictures[q])
      /\ e.path \in DOMAIN p /\ p[e.path] = pictures[s[k].path]
  BY DEF Extrinsic!Move, Extrinsic!Put, Extrinsic!Drop
<1> HIDE DEF p
<1>5. ASSUME NEW i \in DOMAIN s
      PROVE  IsSample(t[i], i, p)
  <2>1. CASE i = k
    <3>1. IsSample(s[k], k, pictures)
      BY <1>3
    <3> QED BY <1>1, <1>2, <1>4, <2>1, <3>1 DEF IsSample
  <2>2. CASE i # k
    <3>1. IsSample(s[i], i, pictures) /\ IsSample(s[k], k, pictures)
      BY <1>3
    <3>2. s[i].path # s[k].path /\ s[i].path # e.path
      BY <1>1, <2>2, <3>1, PathFacts DEF IsSample
    <3> QED BY <1>2, <1>4, <2>2, <3>1, <3>2 DEF IsSample
  <2> QED BY <2>1, <2>2
<1>6. \A i \in DOMAIN s : t[i].frame = s[i].frame
  BY <1>1, <1>2
<1>7. InOrder(t)
  <2> SUFFICES ASSUME NEW i \in DOMAIN s, NEW j \in 1 .. i - 1
               PROVE  t[j].frame.time < t[i].frame.time /\ t[j].frame.round = t[i].frame.round
    BY <1>2 DEF InOrder
  <2>1. j \in DOMAIN s
    BY SeqFacts DEF AreWhole
  <2> QED BY <1>6, <2>1 DEF AreWhole, InOrder
<1>8. AreWhole(t, p)
  BY <1>2, <1>5, <1>7 DEF AreWhole
<1> QED BY <1>8 DEF t, p, e

\* What leaves the recording alone.
LEMMA SessionStays ==
  ASSUME SessionInv, UNCHANGED capture, disk'.manifest = disk.manifest,
         disk'.pictures = disk.pictures
  PROVE  SessionInv'
  BY DEF SessionInv, SessionShape, MemoryInv, FinishedInv, Finished, AreWhole, InOrder

LEMMA SolvesStep ==
  ASSUME SessionInv, ExtrinsicShape,
         \/ Extrinsic!Begin \/ Extrinsic!Review \/ Extrinsic!CancelReview
         \/ Extrinsic!RejectSamples \/ Extrinsic!WriteExtrinsics \/ Extrinsic!ReportSolved
         \/ Extrinsic!FailSolve \/ Extrinsic!KillSolver \/ Extrinsic!Visualize
  PROVE  SessionInv'
<1>1. UNCHANGED capture
  BY DEF Extrinsic!Begin, Extrinsic!Review, Extrinsic!CancelReview, Extrinsic!RejectSamples,
         Extrinsic!WriteExtrinsics, Extrinsic!ReportSolved, Extrinsic!FailSolve,
         Extrinsic!KillSolver, Extrinsic!Visualize
<1>2. \/ UNCHANGED disk
      \/ \E solutions : disk' = [disk EXCEPT !.solutions = solutions]
  <2>1. CASE \/ Extrinsic!Begin \/ Extrinsic!Review \/ Extrinsic!KillSolver
             \/ Extrinsic!Visualize
    BY <2>1, Zenon DEF Extrinsic!Begin, Extrinsic!Review, Extrinsic!KillSolver,
         Extrinsic!Visualize
  <2>2. CASE \/ Extrinsic!CancelReview \/ Extrinsic!RejectSamples \/ Extrinsic!ReportSolved
             \/ Extrinsic!FailSolve
    <3>1. \E status, at, otherwise : Extrinsic!WriteReport(status, at, otherwise)
      BY <2>2, Zenon DEF Extrinsic!CancelReview, Extrinsic!RejectSamples, Extrinsic!ReportSolved,
         Extrinsic!FailSolve
    <3>2. PICK o : disk' = [disk EXCEPT !.solutions[Extrinsic!Solution].report = o.file]
      BY <3>1, Zenon DEF Extrinsic!WriteReport
    <3> QED BY <3>2
  <2>3. CASE Extrinsic!WriteExtrinsics
    <3>1. PICK o : disk' = [disk EXCEPT !.solutions[Extrinsic!Solution].extrinsics = o.file]
      BY <2>3, Zenon DEF Extrinsic!WriteExtrinsics
    <3> QED BY <3>1
  <2> QED BY <2>1, <2>2, <2>3
<1>3. disk'.manifest = disk.manifest /\ disk'.pictures = disk.pictures
  BY <1>2 DEF ExtrinsicShape
<1> QED BY <1>1, <1>3, SessionStays

\* Until its end a capture leaves no manifest that can be solved.
LEMMA SessionGoesOn ==
  ASSUME SessionInv, capture.at # "ended", SessionShape', MemoryInv',
         disk'.manifest = disk.manifest \/ disk'.manifest.status = "collecting"
  PROVE  SessionInv'
<1>1. ~Finished
  BY DEF SessionInv, FinishedInv
<1>2. ~Finished'
  BY <1>1 DEF Finished
<1> QED BY <1>2 DEF SessionInv, FinishedInv

LEMMA OpenSession == ExtrinsicShape /\ SessionInv /\ Extrinsic!OpenCapture => SessionInv'
<1> SUFFICES ASSUME ExtrinsicShape, SessionInv, Extrinsic!OpenCapture PROVE SessionInv'
  OBVIOUS
<1>1. /\ SessionShape /\ capture.at = "closed" /\ capture.samples = <<>>
      /\ AreWhole(capture.samples, disk.pictures)
      /\ capture.next_sample_id = Len(capture.samples) + 1
  BY DEF SessionInv, MemoryInv, Extrinsic!OpenCapture
<1>2. PICK next \in {"running", "ended"} : capture' = [capture EXCEPT !.at = next]
  BY DEF Extrinsic!OpenCapture
<1>3. \/ UNCHANGED disk
      \/ \E o \in Extrinsic!Replace(disk.manifest, Extrinsic!Manifest("collecting", <<>>)) :
           disk' = [disk EXCEPT !.manifest = o.file]
  BY Zenon DEF Extrinsic!OpenCapture
<1>4. /\ disk'.pictures = disk.pictures
      /\ disk'.manifest = disk.manifest \/ disk'.manifest.status = "collecting"
  <2>1. ASSUME NEW o \in Extrinsic!Replace(disk.manifest, Extrinsic!Manifest("collecting", <<>>)),
               disk' = [disk EXCEPT !.manifest = o.file]
        PROVE  /\ disk'.pictures = disk.pictures
               /\ disk'.manifest = disk.manifest \/ disk'.manifest.status = "collecting"
    <3>1. disk'.pictures = disk.pictures /\ disk'.manifest = o.file
      BY <2>1 DEF ExtrinsicShape
    <3> QED BY <3>1 DEF Extrinsic!Replace, Extrinsic!Outcome, Extrinsic!Manifest
  <2> QED BY <1>3, <2>1
<1>5. /\ SessionShape' /\ capture'.at = next /\ capture'.samples = capture.samples
      /\ capture'.next_sample_id = capture.next_sample_id
  BY <1>1, <1>2 DEF SessionShape
<1>6. MemoryInv'
  BY <1>1, <1>4, <1>5 DEF MemoryInv
<1> QED BY <1>1, <1>4, <1>5, <1>6, SessionGoesOn

LEMMA FailSession ==
  ASSUME SessionInv, Extrinsic!FailCapture \/ Extrinsic!KillCapture
  PROVE  SessionInv'
<1>1. SessionShape /\ capture.at # "ended" /\ UNCHANGED disk
  BY DEF SessionInv, Extrinsic!FailCapture, Extrinsic!KillCapture
<1>2. PICK next \in {"failing", "ended"} : capture' = [capture EXCEPT !.at = next]
  BY DEF Extrinsic!FailCapture, Extrinsic!KillCapture
<1>3. /\ SessionShape' /\ capture'.at = next /\ capture'.samples = capture.samples
  BY <1>1, <1>2 DEF SessionShape
<1>4. MemoryInv'
  BY <1>1, <1>3 DEF SessionInv, MemoryInv
<1> QED BY <1>1, <1>3, <1>4, SessionGoesOn

\* A picture is written under a number of its own.
LEMMA SaveSample ==
  ASSUME Stamped, ExtrinsicShape, SessionInv, Extrinsic!SaveImage
  PROVE  SessionInv'
<1> DEFINE s == capture.samples
           n == Len(s)
           path == Extrinsic!Path("images", capture.next_sample_id)
<1>1. /\ SessionShape /\ capture.at = "running" /\ AreWhole(s, disk.pictures)
      /\ capture.next_sample_id = n + 1
  BY DEF SessionInv, MemoryInv, Extrinsic!SaveImage
<1>2. PICK frame \in Frames :
        /\ Extrinsic!Follows(frame)
        /\ disk' = [disk EXCEPT !.pictures = Extrinsic!Put(path, frame, disk.pictures)]
        /\ capture' = [capture EXCEPT !.at = "saving",
             !.samples = Append(s, [active |-> TRUE, path |-> path, frame |-> frame])]
  BY DEF Extrinsic!SaveImage
<1> DEFINE e == [active |-> TRUE, path |-> path, frame |-> frame]
           pictures == Extrinsic!Put(path, frame, disk.pictures)
<1>3. /\ disk'.manifest = disk.manifest /\ disk'.pictures = pictures
  BY <1>2 DEF ExtrinsicShape
<1>4. /\ SessionShape' /\ capture'.at = "saving" /\ capture'.samples = Append(s, e)
      /\ capture'.next_sample_id = capture.next_sample_id
  BY <1>1, <1>2 DEF SessionShape
<1>5. /\ e.path = path /\ e.frame = frame /\ e.active = TRUE
      /\ e = [active |-> e.active, path |-> e.path, frame |-> e.frame]
      /\ path = PathAt(n + 1, TRUE) /\ frame.time \in Int
  BY <1>1 DEF PathAt, Stamped
<1>6. path \in DOMAIN pictures /\ pictures[path] = frame
  BY DEF Extrinsic!Put
<1> HIDE DEF path, e
<1>7. IsSample(e, n + 1, pictures)
  <2> HIDE DEF pictures
  <2> QED BY <1>5, <1>6 DEF IsSample
<1>8. s # <<>> => e.frame.time > s[n].frame.time /\ e.frame.round = s[n].frame.round
  <2> SUFFICES ASSUME s # <<>>
               PROVE  e.frame.time > s[n].frame.time /\ e.frame.round = s[n].frame.round
    OBVIOUS
  <2>1. frame.time > s[n].frame.time /\ frame.round = s[n].frame.round
    BY <1>2 DEF Extrinsic!Follows, Extrinsic!Samples, Extrinsic!Last
  <2> QED BY <1>5, <2>1
<1>9. AreWhole(Append(s, e), pictures)
  <2>1. pictures = Extrinsic!Put(e.path, e.frame, disk.pictures)
    BY <1>5
  <2>2. IsSample(e, Len(s) + 1, Extrinsic!Put(e.path, e.frame, disk.pictures))
    BY <1>7, <2>1
  <2>3. s # <<>> => /\ e.frame.time > s[Len(s)].frame.time
                    /\ e.frame.round = s[Len(s)].frame.round
    BY <1>8
  <2> HIDE DEF pictures, n
  <2> QED BY <1>1, <2>1, <2>2, <2>3, PutSample
<1>10. n \in Nat /\ Len(Append(s, e)) = n + 1
  BY <1>1, SeqFacts, AppendFacts DEF AreWhole
<1>11. Append(s, e) # <<>>
  BY <1>10
<1> HIDE DEF s, n, pictures
<1>12. MemoryInv'
  BY <1>1, <1>3, <1>4, <1>9, <1>10, <1>11 DEF MemoryInv, n
<1>13. capture.at # "ended"
  BY <1>1
<1> QED BY <1>3, <1>4, <1>12, <1>13, SessionGoesOn

LEMMA CommitSample ==
  ASSUME ExtrinsicShape, SessionInv, Extrinsic!CommitSave
  PROVE  SessionInv'
<1> DEFINE s == capture.samples
           n == Len(s)
<1>1. /\ SessionShape /\ capture.at = "saving" /\ AreWhole(s, disk.pictures)
      /\ s # <<>> /\ capture.next_sample_id = n /\ n \in Nat
  BY SeqFacts DEF SessionInv, MemoryInv, AreWhole, Extrinsic!CommitSave
<1>2. CASE /\ disk' = [disk EXCEPT !.manifest = Extrinsic!Manifest("collecting", s)]
           /\ capture' = [capture EXCEPT !.at = "running", !.next_sample_id = @ + 1]
  <2>1. /\ disk'.pictures = disk.pictures
        /\ disk'.manifest = Extrinsic!Manifest("collecting", s)
    BY <1>2 DEF ExtrinsicShape
  <2>2. /\ SessionShape' /\ capture'.at = "running" /\ capture'.samples = s
        /\ capture'.next_sample_id = n + 1
    BY <1>1, <1>2 DEF SessionShape
  <2>3. disk'.manifest.status = "collecting"
    BY <2>1 DEF Extrinsic!Manifest
  <2>4. MemoryInv'
    BY <1>1, <2>1, <2>2 DEF MemoryInv
  <2> QED BY <1>1, <2>2, <2>3, <2>4, SessionGoesOn
<1>3. CASE /\ disk' = [disk EXCEPT !.pictures = Extrinsic!Drop(Extrinsic!Last(s).path, @)]
           /\ capture' = Extrinsic!RollBack(capture)
  <2>1. /\ disk'.manifest = disk.manifest
        /\ disk'.pictures = Extrinsic!Drop(s[n].path, disk.pictures)
    BY <1>3 DEF ExtrinsicShape, Extrinsic!Last
  <2>2. /\ SessionShape' /\ capture'.at = "failing" /\ capture'.samples = SubSeq(s, 1, n - 1)
    BY <1>1, <1>3 DEF SessionShape, Extrinsic!RollBack, Extrinsic!Front
  <2>3. AreWhole(capture'.samples, disk'.pictures)
    BY <1>1, <2>1, <2>2, DropSample
  <2>4. MemoryInv'
    BY <2>2, <2>3 DEF MemoryInv
  <2> QED BY <1>1, <2>1, <2>2, <2>4, SessionGoesOn
<1>4. PICK o \in Extrinsic!Replace(disk.manifest, Extrinsic!Manifest("collecting", s)) :
        IF o.ok
          THEN /\ disk' = [disk EXCEPT !.manifest = o.file]
               /\ capture' = [capture EXCEPT !.at = "running", !.next_sample_id = @ + 1]
          ELSE /\ disk' = [disk EXCEPT !.pictures = Extrinsic!Drop(Extrinsic!Last(s).path, @)]
               /\ capture' = Extrinsic!RollBack(capture)
  BY DEF Extrinsic!CommitSave, Extrinsic!Samples
<1>5. \/ o.ok = TRUE /\ o.file = Extrinsic!Manifest("collecting", s)
      \/ o.ok = FALSE
  BY <1>4 DEF Extrinsic!Replace, Extrinsic!Outcome
<1> QED BY <1>2, <1>3, <1>4, <1>5

\* The flag and the path of one sample change together.
LEMMA MarkedFacts ==
  ASSUME SessionShape, AreWhole(capture.samples, disk.pictures), NEW k \in DOMAIN capture.samples,
         NEW flag, NEW path
  PROVE  Extrinsic!Marked(k, flag, path) =
           [at |-> capture.at, next_sample_id |-> capture.next_sample_id, sample |-> capture.sample,
            samples |-> [capture.samples EXCEPT ![k] =
              [active |-> flag, path |-> path, frame |-> capture.samples[k].frame]]]
<1> DEFINE s == capture.samples
           a == [s[k] EXCEPT !.active = flag]
           t == [s EXCEPT ![k] = a]
           b == [a EXCEPT !.path = path]
           e == [active |-> flag, path |-> path, frame |-> s[k].frame]
<1>1. IsSample(s[k], k, disk.pictures) /\ IsSeq(s)
  BY DEF AreWhole
<1>2. a = [active |-> flag, path |-> s[k].path, frame |-> s[k].frame]
  BY <1>1 DEF IsSample
<1>3. b = e
  <2> HIDE DEF a
  <2> QED BY <1>2
<1>4. t[k] = a /\ [t EXCEPT ![k] = b] = [s EXCEPT ![k] = b]
  <2> HIDE DEF a, b
  <2>1. s \in Seq({s[i] : i \in DOMAIN s})
    BY <1>1 DEF IsSeq
  <2>2. t[k] = a
    BY <1>1, ExceptFacts
  <2>3. DOMAIN t = DOMAIN s /\ \A i \in DOMAIN s : i # k => t[i] = s[i]
    BY <1>1, ExceptFacts
  <2>4. [t EXCEPT ![k] = b] = [i \in DOMAIN s |-> IF i = k THEN b ELSE s[i]]
    BY <2>3
  <2>5. [s EXCEPT ![k] = b] = [i \in DOMAIN s |-> IF i = k THEN b ELSE s[i]]
    OBVIOUS
  <2> QED BY <2>2, <2>4, <2>5
<1>5. Extrinsic!Marked(k, flag, path) =
        [capture EXCEPT !.samples = [t EXCEPT ![k] = [t[k] EXCEPT !.path = path]]]
  <2> HIDE DEF e
  <2> QED BY DEF Extrinsic!Marked, SessionShape
<1>6. Extrinsic!Marked(k, flag, path) = [capture EXCEPT !.samples = [s EXCEPT ![k] = e]]
  BY <1>3, <1>4, <1>5
<1> HIDE DEF e, s
<1> QED BY <1>6 DEF SessionShape, e, s

\* A sample is marked the other way, and its picture moved, within the next step.
LEMMA MarkSample ==
  ASSUME SessionShape, AreWhole(capture.samples, disk.pictures), ExtrinsicShape,
         NEW k \in DOMAIN capture.samples, NEW flag \in BOOLEAN,
         capture.samples[k].active # flag,
         NEW m, m = Extrinsic!Marked(k, flag, PathAt(k, flag)),
         disk'.pictures = Extrinsic!Move(capture.samples[k].path, PathAt(k, flag), disk.pictures)
  PROVE  /\ m = [at |-> m.at, samples |-> m.samples, next_sample_id |-> m.next_sample_id,
                 sample |-> m.sample]
         /\ m.at = capture.at /\ m.next_sample_id = capture.next_sample_id
         /\ m.sample = capture.sample
         /\ Len(m.samples) = Len(capture.samples) /\ DOMAIN m.samples = DOMAIN capture.samples
         /\ m.samples[k].active = flag
         /\ AreWhole(m.samples, disk'.pictures)
<1> DEFINE s == capture.samples
           e == [active |-> flag, path |-> PathAt(k, flag), frame |-> s[k].frame]
           t == [s EXCEPT ![k] = e]
<1>1. m = [at |-> capture.at, next_sample_id |-> capture.next_sample_id,
           sample |-> capture.sample, samples |-> t]
  BY MarkedFacts
<1>2. AreWhole(t, disk'.pictures)
  <2>1. e.path = PathAt(k, flag)
    OBVIOUS
  <2>2. AreWhole(t, Extrinsic!Move(s[k].path, e.path, disk.pictures))
    BY MoveSample
  <2> HIDE DEF t, e
  <2> QED BY <2>1, <2>2
<1>3. e.active = flag /\ IsSeq(s)
  BY DEF AreWhole
<1> HIDE DEF e
<1>4. Len(t) = Len(s) /\ DOMAIN t = DOMAIN s /\ t[k] = e
  BY <1>3, ExceptFacts
<1> HIDE DEF t
<1> QED BY <1>1, <1>2, <1>3, <1>4

LEMMA ExcludeSample ==
  ASSUME ExtrinsicShape, SessionInv, Extrinsic!ExcludeLast
  PROVE  SessionInv'
<1> DEFINE s == capture.samples
           k == Extrinsic!LastActive
           m == Extrinsic!Marked(k, FALSE, PathAt(k, FALSE))
<1>1. /\ SessionShape /\ capture.at = "running" /\ AreWhole(s, disk.pictures)
      /\ capture.next_sample_id = Len(s) + 1 /\ \E i \in DOMAIN s : s[i].active
  BY DEF SessionInv, MemoryInv, Extrinsic!ExcludeLast, Extrinsic!Samples
<1>2. k \in DOMAIN s /\ s[k].active
  <2> DEFINE Actives == {i \in DOMAIN s : s[i].active}
  <2>1. Len(s) \in Nat /\ DOMAIN s = 1 .. Len(s)
    BY <1>1, SeqFacts DEF AreWhole
  <2>2. Actives \subseteq 1 .. Len(s) /\ Actives # {}
    BY <1>1, <2>1
  <2>3. \E i \in Actives : \A j \in Actives : j <= i
    <3> HIDE DEF Actives
    <3> QED BY <2>1, <2>2, LastPlace
  <2>4. \E i \in DOMAIN s : s[i].active /\ \A j \in DOMAIN s : s[j].active => j <= i
    BY <2>3
  <2> QED BY <2>4 DEF Extrinsic!LastActive, Extrinsic!Samples
<1>3. s[k].active = TRUE /\ s[k].path = PathAt(k, TRUE)
  BY <1>1, <1>2 DEF AreWhole, IsSample
<1>4. Extrinsic!Path("excluded", s[k].path.id) = PathAt(k, FALSE)
  BY <1>3 DEF PathAt, Extrinsic!Path
<1>5. /\ disk' = [disk EXCEPT !.pictures = Extrinsic!Move(s[k].path, PathAt(k, FALSE), @)]
      /\ capture' = [m EXCEPT !.at = "excluding", !.sample = k]
  BY <1>4 DEF Extrinsic!ExcludeLast, Extrinsic!Samples
<1>6. /\ disk'.manifest = disk.manifest
      /\ disk'.pictures = Extrinsic!Move(s[k].path, PathAt(k, FALSE), disk.pictures)
  BY <1>5 DEF ExtrinsicShape
<1> HIDE DEF k, m
<1>7. /\ m = [at |-> m.at, samples |-> m.samples, next_sample_id |-> m.next_sample_id,
              sample |-> m.sample]
      /\ m.at = capture.at /\ m.next_sample_id = capture.next_sample_id
      /\ m.sample = capture.sample
      /\ Len(m.samples) = Len(s) /\ DOMAIN m.samples = DOMAIN s
      /\ m.samples[k].active = FALSE
      /\ AreWhole(m.samples, disk'.pictures)
  <2>1. s[k].active # FALSE
    BY <1>3
  <2>2. m = Extrinsic!Marked(k, FALSE, PathAt(k, FALSE))
    BY DEF m
  <2> QED BY <1>1, <1>2, <1>6, <2>1, <2>2, MarkSample
<1>8. /\ SessionShape' /\ capture'.at = "excluding" /\ capture'.sample = k
      /\ capture'.samples = m.samples /\ capture'.next_sample_id = m.next_sample_id
  BY <1>5, <1>7 DEF SessionShape
<1>9. MemoryInv'
  BY <1>1, <1>2, <1>7, <1>8 DEF MemoryInv
<1> QED BY <1>1, <1>6, <1>8, <1>9, SessionGoesOn

LEMMA CommitExclusion ==
  ASSUME ExtrinsicShape, SessionInv, Extrinsic!CommitExclude
  PROVE  SessionInv'
<1> DEFINE s == capture.samples
           k == capture.sample
           m == Extrinsic!Marked(k, TRUE, PathAt(k, TRUE))
<1>1. /\ SessionShape /\ capture.at = "excluding" /\ AreWhole(s, disk.pictures)
      /\ capture.next_sample_id = Len(s) + 1
      /\ k \in DOMAIN s /\ s[k].active = FALSE
  BY DEF SessionInv, MemoryInv, Extrinsic!CommitExclude
<1>2. CASE /\ disk' = [disk EXCEPT !.manifest = Extrinsic!Manifest("collecting", s)]
           /\ capture' = [capture EXCEPT !.at = "running"]
  <2>1. /\ disk'.pictures = disk.pictures
        /\ disk'.manifest = Extrinsic!Manifest("collecting", s)
    BY <1>2 DEF ExtrinsicShape
  <2>2. /\ SessionShape' /\ capture'.at = "running" /\ capture'.samples = s
        /\ capture'.next_sample_id = capture.next_sample_id
    BY <1>1, <1>2 DEF SessionShape
  <2>3. disk'.manifest.status = "collecting"
    BY <2>1 DEF Extrinsic!Manifest
  <2>4. MemoryInv'
    BY <1>1, <2>1, <2>2 DEF MemoryInv
  <2> QED BY <1>1, <2>2, <2>3, <2>4, SessionGoesOn
<1>3. CASE UNCHANGED disk /\ capture' = [capture EXCEPT !.at = "failing"]
  <2>1. SessionShape' /\ capture'.at = "failing" /\ capture'.samples = s
    BY <1>1, <1>3 DEF SessionShape
  <2>2. MemoryInv'
    BY <1>1, <1>3, <2>1 DEF MemoryInv
  <2> QED BY <1>1, <1>3, <2>1, <2>2, SessionGoesOn
<1>4. CASE /\ disk' = [disk EXCEPT !.pictures = Extrinsic!Move(s[k].path, PathAt(k, TRUE), @)]
           /\ capture' = [m EXCEPT !.at = "failing"]
  <2>1. /\ disk'.manifest = disk.manifest
        /\ disk'.pictures = Extrinsic!Move(s[k].path, PathAt(k, TRUE), disk.pictures)
    BY <1>4 DEF ExtrinsicShape
  <2> HIDE DEF m
  <2>2. /\ m = [at |-> m.at, samples |-> m.samples, next_sample_id |-> m.next_sample_id,
                sample |-> m.sample]
        /\ AreWhole(m.samples, disk'.pictures)
    <3>1. s[k].active # TRUE
      BY <1>1
    <3>2. m = Extrinsic!Marked(k, TRUE, PathAt(k, TRUE))
      BY DEF m
    <3> QED BY <1>1, <2>1, <3>1, <3>2, MarkSample
  <2>3. SessionShape' /\ capture'.at = "failing" /\ capture'.samples = m.samples
    BY <1>4, <2>2 DEF SessionShape
  <2>4. MemoryInv'
    BY <2>2, <2>3 DEF MemoryInv
  <2> QED BY <1>1, <2>1, <2>3, <2>4, SessionGoesOn
<1>5. Extrinsic!Path("images", s[k].path.id) = PathAt(k, TRUE)
  <2>1. s[k].path = PathAt(k, FALSE)
    BY <1>1 DEF AreWhole, IsSample
  <2> QED BY <2>1 DEF PathAt, Extrinsic!Path
<1>6. \/ /\ disk' = [disk EXCEPT !.manifest = Extrinsic!Manifest("collecting", s)]
         /\ capture' = [capture EXCEPT !.at = "running"]
      \/ UNCHANGED disk /\ capture' = [capture EXCEPT !.at = "failing"]
      \/ /\ disk' = [disk EXCEPT !.pictures = Extrinsic!Move(s[k].path, PathAt(k, TRUE), @)]
         /\ capture' = [m EXCEPT !.at = "failing"]
  BY <1>5 DEF Extrinsic!CommitExclude, Extrinsic!UndoExclude, Extrinsic!Samples
<1> QED BY <1>2, <1>3, <1>4, <1>6

\* The end is written with all the samples, or not at all.
LEMMA EndSession ==
  ASSUME ExtrinsicShape, SessionInv, Extrinsic!EndCapture \/ Extrinsic!AbortCapture
  PROVE  SessionInv'
<1> DEFINE s == capture.samples
<1>1. /\ SessionShape /\ capture.at \in {"running", "failing"} /\ AreWhole(s, disk.pictures)
      /\ ~Finished
  BY DEF SessionInv, MemoryInv, FinishedInv, Extrinsic!EndCapture, Extrinsic!AbortCapture
<1>2. PICK status, o :
        /\ o \in Extrinsic!Replace(disk.manifest, Extrinsic!Manifest(status, s))
        /\ disk' = [disk EXCEPT !.manifest = o.file]
        /\ \/ capture' = [capture EXCEPT !.at = "ended"]
           \/ o.ok = FALSE /\ capture' = [capture EXCEPT !.at = "failing"]
  <2>1. CASE Extrinsic!EndCapture
    <3>1. PICK status, o :
            /\ o \in Extrinsic!Replace(disk.manifest, Extrinsic!Manifest(status, s))
            /\ disk' = [disk EXCEPT !.manifest = o.file]
            /\ capture' = [capture EXCEPT !.at = IF o.ok THEN "ended" ELSE "failing"]
      BY <2>1, Zenon DEF Extrinsic!EndCapture, Extrinsic!Samples
    <3>2. o.ok = TRUE \/ o.ok = FALSE
      BY <3>1 DEF Extrinsic!Replace, Extrinsic!Outcome
    <3> QED BY <3>1, <3>2
  <2>2. CASE Extrinsic!AbortCapture
    BY <2>2, Zenon DEF Extrinsic!AbortCapture, Extrinsic!Samples
  <2> QED BY <2>1, <2>2
<1>3. disk'.pictures = disk.pictures /\ disk'.manifest = o.file
  BY <1>2 DEF ExtrinsicShape
<1>4. /\ SessionShape' /\ capture'.samples = s
      /\ capture'.at = "ended" \/ (capture'.at = "failing" /\ o.ok = FALSE)
  BY <1>1, <1>2 DEF SessionShape
<1>5. MemoryInv'
  BY <1>1, <1>3, <1>4 DEF MemoryInv
<1>6. FinishedInv'
  <2>1. CASE disk'.manifest = disk.manifest
    BY <1>1, <2>1 DEF FinishedInv, Finished
  <2>2. CASE o.ok = TRUE /\ o.file = Extrinsic!Manifest(status, s)
    <3>1. capture'.at = "ended" /\ disk'.manifest.samples = s
      BY <1>3, <1>4, <2>2 DEF Extrinsic!Manifest
    <3> QED BY <1>1, <1>3, <3>1 DEF FinishedInv
  <2>3. (o.ok = TRUE /\ o.file = Extrinsic!Manifest(status, s)) \/ o.file = disk.manifest
    BY <1>2 DEF Extrinsic!Replace, Extrinsic!Outcome
  <2> QED BY <1>3, <2>1, <2>2, <2>3
<1> QED BY <1>4, <1>5, <1>6 DEF SessionInv

ExtrinsicsInv == ExtrinsicInv /\ SessionInv

LEMMA ExtrinsicsInit == Extrinsic!Init => ExtrinsicsInv
  BY ExtrinsicInit, SessionInit DEF ExtrinsicsInv

LEMMA ExtrinsicsStep ==
  ASSUME Stamped, ExtrinsicsInv, [Extrinsic!Next]_Extrinsic!vars
  PROVE  ExtrinsicsInv'
<1>1. ExtrinsicInv' /\ SessionInv /\ ExtrinsicShape
  BY ExtrinsicStep DEF ExtrinsicsInv, ExtrinsicInv
<1>2. CASE UNCHANGED Extrinsic!vars
  BY <1>1, <1>2, SessionStays DEF ExtrinsicsInv, Extrinsic!vars
<1>3. CASE Extrinsic!Next
  <2>1. SessionInv'
    BY <1>1, <1>3, OpenSession, FailSession, SaveSample, CommitSample, ExcludeSample,
       CommitExclusion, EndSession, SolvesStep DEF Extrinsic!Next
  <2> QED BY <1>1, <2>1 DEF ExtrinsicsInv
<1> QED BY <1>2, <1>3

-----------------------------------------------------------------------------
(* Intrinsic calibration: the pictures. *)

CaptureShape ==
  capture = [at |-> capture.at, images |-> capture.images,
             next_image_id |-> capture.next_image_id, frame |-> capture.frame]

\* The pictures that the user may still exclude are there, each under a name of its own.
AreThere(names, images) ==
  /\ IsSeq(names)
  /\ \A i \in DOMAIN names : names[i] \in DOMAIN images
  /\ \A i, j \in DOMAIN names : names[i] = names[j] => i = j

\* Names count up, over pictures that were excluded too.
PicturesInv ==
  /\ IntrinsicShape /\ CaptureShape
  /\ DOMAIN disk.images \cap DOMAIN disk.excluded = {}
  /\ capture.at \in {"closed", "running", "ended"}
  /\ capture.at # "ended" =>
       /\ capture.next_image_id \in Nat
       /\ \A n \in DOMAIN disk.images \cup DOMAIN disk.excluded :
            n \in Nat /\ n < capture.next_image_id
       /\ AreThere(capture.images, disk.images)

LEMMA PicturesInit == Intrinsic!Init => PicturesInv
<1> SUFFICES ASSUME Intrinsic!Init PROVE PicturesInv
  OBVIOUS
<1>1. /\ CaptureShape /\ IntrinsicShape /\ capture.at = "closed" /\ capture.images = <<>>
      /\ capture.next_image_id = 1 /\ disk.images = <<>> /\ disk.excluded = <<>>
  BY DEF Intrinsic!Init, CaptureShape, IntrinsicShape
<1>2. AreThere(<<>>, <<>>)
  BY DEF AreThere, IsSeq
<1> QED BY <1>1, <1>2 DEF PicturesInv

\* The steps of the solver and of the session's file.
LEMMA PicturesStay ==
  ASSUME PicturesInv, IntrinsicShape', CaptureShape', disk'.images = disk.images,
         disk'.excluded = disk.excluded, capture'.images = capture.images,
         capture'.next_image_id = capture.next_image_id,
         capture'.at = capture.at \/ capture'.at = "ended"
           \/ (capture.at = "closed" /\ capture'.at = "running")
  PROVE  PicturesInv' /\ Intrinsic!KeepsPictures
<1>1. PicturesInv'
  BY DEF PicturesInv, AreThere
<1>2. Intrinsic!Kept(disk') = Intrinsic!Kept(disk)
  BY DEF Intrinsic!Kept
<1> QED BY <1>1, <1>2 DEF Intrinsic!KeepsPictures

LEMMA SolverStays ==
  ASSUME IntrinsicInv', PicturesInv,
         \/ Intrinsic!Begin \/ Intrinsic!Review \/ Intrinsic!CancelReview \/ Intrinsic!Solve
         \/ Intrinsic!WriteIntrinsics \/ Intrinsic!KillSolver
  PROVE  PicturesInv' /\ Intrinsic!KeepsPictures
<1>1. UNCHANGED capture
  BY DEF Intrinsic!Begin, Intrinsic!Review, Intrinsic!CancelReview, Intrinsic!Solve,
         Intrinsic!WriteIntrinsics, Intrinsic!KillSolver
<1>2. \/ UNCHANGED disk
      \/ \E solutions : disk' = [disk EXCEPT !.solutions = solutions]
  <2>1. CASE Intrinsic!Begin \/ Intrinsic!Review \/ Intrinsic!KillSolver
    BY <2>1, Zenon DEF Intrinsic!Begin, Intrinsic!Review, Intrinsic!KillSolver
  <2>2. CASE Intrinsic!CancelReview \/ Intrinsic!Solve
    <3>1. \E status, at : Intrinsic!WriteSolution(status, at)
      BY <2>2, Zenon DEF Intrinsic!CancelReview, Intrinsic!Solve
    <3>2. PICK o : disk' = [disk EXCEPT !.solutions[Len(disk.solutions)].session = o.file]
      BY <3>1, Zenon DEF Intrinsic!WriteSolution
    <3> QED BY <3>2
  <2>3. CASE Intrinsic!WriteIntrinsics
    <3>1. PICK o : disk' = [disk EXCEPT !.solutions[Len(disk.solutions)].intrinsics = o.file]
      BY <2>3, Zenon DEF Intrinsic!WriteIntrinsics
    <3> QED BY <3>1
  <2> QED BY <2>1, <2>2, <2>3
<1>3. disk'.images = disk.images /\ disk'.excluded = disk.excluded
  BY <1>2 DEF PicturesInv, IntrinsicShape
<1>4. IntrinsicShape' /\ CaptureShape'
  BY <1>1 DEF IntrinsicInv, PicturesInv, CaptureShape
<1> QED BY <1>1, <1>3, <1>4, PicturesStay

LEMMA SessionFile ==
  ASSUME IntrinsicInv', PicturesInv,
         Intrinsic!OpenCapture \/ Intrinsic!EndCapture \/ Intrinsic!LoseCapture
  PROVE  PicturesInv' /\ Intrinsic!KeepsPictures
<1>1. PICK next \in {"running", "ended"} :
        /\ capture' = [capture EXCEPT !.at = next]
        /\ next = "running" => capture.at = "closed"
  <2>1. CASE Intrinsic!OpenCapture
    BY <2>1 DEF Intrinsic!OpenCapture, Intrinsic!WriteSession
  <2>2. CASE Intrinsic!EndCapture \/ Intrinsic!LoseCapture
    BY <2>2 DEF Intrinsic!EndCapture, Intrinsic!LoseCapture, Intrinsic!WriteSession
  <2> QED BY <2>1, <2>2
<1>2. UNCHANGED disk \/ \E session : disk' = [disk EXCEPT !.session = session]
  BY Zenon DEF Intrinsic!OpenCapture, Intrinsic!EndCapture, Intrinsic!LoseCapture,
         Intrinsic!WriteSession
<1>3. disk'.images = disk.images /\ disk'.excluded = disk.excluded
  BY <1>2 DEF PicturesInv, IntrinsicShape
<1>4. /\ CaptureShape' /\ capture'.at = next /\ capture'.images = capture.images
      /\ capture'.next_image_id = capture.next_image_id
  BY <1>1 DEF PicturesInv, CaptureShape
<1>5. IntrinsicShape'
  BY DEF IntrinsicInv
<1> QED BY <1>1, <1>3, <1>4, <1>5, PicturesStay

\* A picture that is saved overwrites none.
LEMMA SavePictureStep ==
  ASSUME IntrinsicInv', PicturesInv, Intrinsic!SaveImage
  PROVE  PicturesInv' /\ Intrinsic!KeepsPictures
<1> DEFINE name == capture.next_image_id
           names == capture.images
<1>1. PICK picture :
        /\ disk' = [disk EXCEPT !.images = Intrinsic!Merge(name, picture, @)]
        /\ capture' = [capture EXCEPT !.images = Append(@, name), !.next_image_id = @ + 1,
                                      !.frame = @ + 1]
  BY Zenon DEF Intrinsic!SaveImage, Intrinsic!NextName
<1> DEFINE images == Intrinsic!Merge(name, picture, disk.images)
<1>2. disk'.images = images /\ disk'.excluded = disk.excluded
  BY <1>1 DEF PicturesInv, IntrinsicShape
<1>3. /\ CaptureShape' /\ capture'.at = capture.at /\ capture'.images = Append(names, name)
      /\ capture'.next_image_id = name + 1
  BY <1>1 DEF PicturesInv, CaptureShape
<1>4. /\ capture.at = "running" /\ name \in Nat /\ AreThere(names, disk.images)
      /\ \A n \in DOMAIN disk.images \cup DOMAIN disk.excluded : n \in Nat /\ n < name
      /\ DOMAIN disk.images \cap DOMAIN disk.excluded = {}
  BY DEF PicturesInv, Intrinsic!SaveImage
<1>5. /\ DOMAIN images = DOMAIN disk.images \cup {name}
      /\ name \notin DOMAIN disk.images /\ name \notin DOMAIN disk.excluded
      /\ \A n \in DOMAIN disk.images : images[n] = disk.images[n]
  BY <1>4 DEF Intrinsic!Merge
<1>6. /\ IsSeq(Append(names, name)) /\ Len(names) \in Nat
      /\ DOMAIN names = 1 .. Len(names) /\ DOMAIN Append(names, name) = 1 .. Len(names) + 1
      /\ \A i \in DOMAIN names : Append(names, name)[i] = names[i]
      /\ Append(names, name)[Len(names) + 1] = name
  BY <1>4, SeqFacts, AppendFacts DEF AreThere
<1> HIDE DEF images, name, names
<1> DEFINE saved == Append(names, name)
<1>7. AreThere(saved, images)
  <2> HIDE DEF saved
  <2>0. /\ IsSeq(saved) /\ Len(names) \in Nat
        /\ DOMAIN names = 1 .. Len(names) /\ DOMAIN saved = 1 .. Len(names) + 1
        /\ \A i \in DOMAIN names : saved[i] = names[i]
        /\ saved[Len(names) + 1] = name
    BY <1>6 DEF saved
  <2>1. \A i \in DOMAIN saved : i \in DOMAIN names \/ i = Len(names) + 1
    BY <2>0
  <2>2. \A i \in DOMAIN names : names[i] \in DOMAIN disk.images /\ names[i] # name
    BY <1>4, <1>5 DEF AreThere
  <2>3. \A i \in DOMAIN saved : saved[i] \in DOMAIN images
    BY <1>5, <2>0, <2>1, <2>2
  <2>4. \A i, j \in DOMAIN saved : saved[i] = saved[j] => i = j
    BY <1>4, <2>0, <2>1, <2>2 DEF AreThere
  <2> QED BY <2>0, <2>3, <2>4 DEF AreThere
<1>8. PicturesInv'
  <2>1. \A n \in DOMAIN images \cup DOMAIN disk.excluded : n \in Nat /\ n < name + 1
    BY <1>4, <1>5
  <2>2. DOMAIN images \cap DOMAIN disk.excluded = {}
    BY <1>4, <1>5
  <2>3. IntrinsicShape' /\ name + 1 \in Nat
    BY <1>4 DEF IntrinsicInv
  <2> HIDE DEF saved
  <2> QED BY <1>2, <1>3, <1>4, <1>7, <2>1, <2>2, <2>3 DEF PicturesInv, saved
<1>9. Intrinsic!KeepsPictures
  <2>1. ASSUME NEW n \in DOMAIN disk.images
        PROVE  disk.images[n] \in {images[m] : m \in DOMAIN images}
    BY <1>5
  <2> QED BY <1>2, <2>1 DEF Intrinsic!KeepsPictures, Intrinsic!Kept
<1> QED BY <1>8, <1>9

\* Nor does one that is torn.
LEMMA TearPicture ==
  ASSUME IntrinsicInv', PicturesInv, Intrinsic!TearImage
  PROVE  PicturesInv' /\ Intrinsic!KeepsPictures
<1> DEFINE name == capture.next_image_id
<1>1. PICK picture :
        /\ disk' = [disk EXCEPT !.images = Intrinsic!Merge(name, picture, @)]
        /\ capture' = [capture EXCEPT !.at = "ended"]
  BY Zenon DEF Intrinsic!TearImage, Intrinsic!NextName
<1> DEFINE images == Intrinsic!Merge(name, picture, disk.images)
<1>2. disk'.images = images /\ disk'.excluded = disk.excluded
  BY <1>1 DEF PicturesInv, IntrinsicShape
<1>3. CaptureShape' /\ capture'.at = "ended"
  BY <1>1 DEF PicturesInv, CaptureShape
<1>4. /\ name \in Nat
      /\ \A n \in DOMAIN disk.images \cup DOMAIN disk.excluded : n \in Nat /\ n < name
      /\ DOMAIN disk.images \cap DOMAIN disk.excluded = {}
  BY DEF PicturesInv, Intrinsic!TearImage
<1>5. /\ DOMAIN images = DOMAIN disk.images \cup {name}
      /\ name \notin DOMAIN disk.excluded
      /\ \A n \in DOMAIN disk.images : images[n] = disk.images[n]
  BY <1>4 DEF Intrinsic!Merge
<1> HIDE DEF images, name
<1>6. PicturesInv'
  <2>1. DOMAIN images \cap DOMAIN disk.excluded = {}
    BY <1>4, <1>5
  <2>2. IntrinsicShape'
    BY DEF IntrinsicInv
  <2> QED BY <1>2, <1>3, <2>1, <2>2 DEF PicturesInv
<1>7. Intrinsic!KeepsPictures
  <2>1. ASSUME NEW n \in DOMAIN disk.images
        PROVE  disk.images[n] \in {images[m] : m \in DOMAIN images}
    BY <1>5
  <2> QED BY <1>2, <2>1 DEF Intrinsic!KeepsPictures, Intrinsic!Kept
<1> QED BY <1>6, <1>7

\* A picture that is excluded goes where none is.
LEMMA ExcludePicture ==
  ASSUME IntrinsicInv', PicturesInv, Intrinsic!ExcludeLast
  PROVE  PicturesInv' /\ Intrinsic!KeepsPictures
<1> DEFINE names == capture.images
           name == names[Len(names)]
           rest == SubSeq(names, 1, Len(names) - 1)
           images == Intrinsic!Without(name, disk.images)
           excluded == Intrinsic!Merge(name, disk.images[name], disk.excluded)
<1>1. /\ capture.at = "running" /\ names # <<>>
      /\ disk' = [disk EXCEPT !.excluded = excluded, !.images = images]
      /\ capture' = [capture EXCEPT !.images = rest]
  BY DEF Intrinsic!ExcludeLast, Intrinsic!Last, Intrinsic!Front
<1>2. /\ capture.next_image_id \in Nat /\ AreThere(names, disk.images)
      /\ \A n \in DOMAIN disk.images \cup DOMAIN disk.excluded :
           n \in Nat /\ n < capture.next_image_id
      /\ DOMAIN disk.images \cap DOMAIN disk.excluded = {}
  BY <1>1 DEF PicturesInv
<1>3. disk'.images = images /\ disk'.excluded = excluded
  BY <1>1 DEF PicturesInv, IntrinsicShape
<1>4. /\ CaptureShape' /\ capture'.at = capture.at /\ capture'.images = rest
      /\ capture'.next_image_id = capture.next_image_id
  BY <1>1 DEF PicturesInv, CaptureShape
<1>5. /\ Len(names) \in DOMAIN names /\ IsSeq(rest) /\ Len(rest) = Len(names) - 1
      /\ DOMAIN rest = 1 .. Len(names) - 1 /\ Len(names) \in Nat
      /\ \A i \in 1 .. Len(names) - 1 : i \in DOMAIN names /\ rest[i] = names[i]
  BY <1>1, <1>2, FrontFacts, SeqFacts DEF AreThere
<1>6. name \in DOMAIN disk.images
  BY <1>2, <1>5 DEF AreThere
<1>7. /\ DOMAIN images = DOMAIN disk.images \ {name}
      /\ \A n \in DOMAIN images : images[n] = disk.images[n]
      /\ DOMAIN excluded = DOMAIN disk.excluded \cup {name}
      /\ excluded[name] = disk.images[name]
      /\ \A n \in DOMAIN disk.excluded : excluded[n] = disk.excluded[n]
  BY <1>2, <1>6 DEF Intrinsic!Without, Intrinsic!Merge
<1>8. \A i \in 1 .. Len(names) - 1 : names[i] # name
  <2>1. \A i \in 1 .. Len(names) - 1 : i # Len(names)
    BY <1>5
  <2> QED BY <1>2, <1>5, <2>1 DEF AreThere
<1> HIDE DEF images, excluded, name, rest
<1>9. AreThere(rest, images)
  BY <1>2, <1>5, <1>7, <1>8 DEF AreThere
<1>10. PicturesInv'
  <2>1. \A n \in DOMAIN images \cup DOMAIN excluded :
          n \in Nat /\ n < capture.next_image_id
    BY <1>2, <1>6, <1>7
  <2>2. DOMAIN images \cap DOMAIN excluded = {}
    BY <1>2, <1>7
  <2>3. IntrinsicShape'
    BY DEF IntrinsicInv
  <2> QED BY <1>1, <1>2, <1>3, <1>4, <1>9, <2>1, <2>2, <2>3 DEF PicturesInv
<1>11. Intrinsic!KeepsPictures
  <2>1. ASSUME NEW n \in DOMAIN disk.images
        PROVE  \/ disk.images[n] \in {images[m] : m \in DOMAIN images}
               \/ disk.images[n] \in {excluded[m] : m \in DOMAIN excluded}
    <3>1. CASE n = name
      BY <1>7, <3>1
    <3>2. CASE n # name
      BY <1>7, <3>2
    <3> QED BY <3>1, <3>2
  <2>2. ASSUME NEW n \in DOMAIN disk.excluded
        PROVE  disk.excluded[n] \in {excluded[m] : m \in DOMAIN excluded}
    BY <1>7
  <2> QED BY <1>3, <2>1, <2>2 DEF Intrinsic!KeepsPictures, Intrinsic!Kept
<1> QED BY <1>10, <1>11

IntrinsicsInv == IntrinsicInv /\ PicturesInv

LEMMA IntrinsicsInit == Intrinsic!Init => IntrinsicsInv
  BY IntrinsicInit, PicturesInit DEF IntrinsicsInv

LEMMA IntrinsicsStep ==
  ASSUME IntrinsicsInv, [Intrinsic!Next]_Intrinsic!vars
  PROVE  IntrinsicsInv' /\ Intrinsic!KeepsPictures
<1>1. IntrinsicInv' /\ PicturesInv
  BY IntrinsicStep DEF IntrinsicsInv
<1>2. CASE UNCHANGED Intrinsic!vars
  <2>1. IntrinsicShape' /\ CaptureShape' /\ UNCHANGED <<disk, capture>>
    BY <1>1, <1>2 DEF IntrinsicInv, PicturesInv, CaptureShape, Intrinsic!vars
  <2> QED BY <1>1, <2>1, PicturesStay DEF IntrinsicsInv
<1>3. CASE Intrinsic!Next
  BY <1>1, <1>3, SessionFile, SavePictureStep, TearPicture, ExcludePicture, SolverStays
     DEF Intrinsic!Next, IntrinsicsInv
<1> QED BY <1>2, <1>3

-----------------------------------------------------------------------------
(* The recordings: the theorems. *)

\* handeye_application.cpp: every pair that the manifest on disk lists has its picture,
\* and is of the moment and the session of its orientation.
THEOREM PairsStayTrue == Handeye!Spec => []Handeye!PairsAreTrue
<1>1. HandeyeInv => Handeye!PairsAreTrue
  BY PairsAreTrueFollows DEF HandeyeInv
<1> QED BY <1>1, HandeyeInit, HandeyeStep, PTL DEF Handeye!Spec

\* extrinsic_capture_application.cpp: a session that ended in order lists the samples that
\* are on disk.
THEOREM SessionsStayWhole ==
  ASSUME Stamped
  PROVE  Extrinsic!Spec => []Extrinsic!SessionsAreWhole
<1>1. ExtrinsicsInv => Extrinsic!SessionsAreWhole
  BY SessionInvIsWhole DEF ExtrinsicsInv
<1>2. Stamped /\ ExtrinsicsInv /\ [Extrinsic!Next]_Extrinsic!vars => ExtrinsicsInv'
  BY ExtrinsicsStep
<1>3. []Stamped
  BY PTL
<1> QED BY <1>1, <1>2, <1>3, ExtrinsicsInit, PTL DEF Extrinsic!Spec

\* calibration.cpp: no picture of a session is overwritten or lost.
THEOREM PicturesAreKept == Intrinsic!Spec => [][Intrinsic!KeepsPictures]_Intrinsic!vars
<1>1. IntrinsicsInv /\ [Intrinsic!Next]_Intrinsic!vars
        => IntrinsicsInv' /\ [Intrinsic!KeepsPictures]_Intrinsic!vars
  BY IntrinsicsStep
<1> QED BY <1>1, IntrinsicsInit, PTL DEF Intrinsic!Spec

-----------------------------------------------------------------------------
(* The gimbal feedback estimator. *)

CONSTANTS Turn, MaxAge, MaxTicks, MaxRounds, MaxSequence
VARIABLES est, stepped, ticks
Estimator == INSTANCE GimbalFeedbackEstimator WITH
  session <- stepped, now <- ticks, MaxTime <- MaxTicks

\* A full turn has an odd number of directions.
TurnIsOdd == Turn \in Nat /\ Turn = 2 * Estimator!Half + 1 /\ Estimator!Half \in Nat

IsFeedback(f) ==
  /\ f = [valid |-> f.valid, sequence |-> f.sequence, at |-> f.at, yaw |-> f.yaw,
          round |-> f.round]
  /\ f.at \in Int /\ f.yaw \in Int

IsEstimate(e) ==
  /\ e = [state |-> e.state, measurement |-> e.measurement, source |-> e.source,
          projection |-> e.projection, runtime |-> e.runtime, stamp |-> e.stamp, dt |-> e.dt,
          round |-> e.round]
  /\ IsFeedback(e.state) /\ IsFeedback(e.measurement)
  /\ e.source \in {"NONE", "PUBLISHED_COMMAND", "CAMERA"} \cup Estimator!Runtime

IsSession(s) ==
  /\ s = [round |-> s.round, observed |-> s.observed, mode |-> s.mode,
          external |-> s.external, healthy |-> s.healthy, projected |-> s.projected,
          awaiting |-> s.awaiting, lastStep |-> s.lastStep]
  /\ s.lastStep \in Int

\* The source is the one the state is from, the state of a runtime source is of its stamp,
\* and what was observed was observed in this round.
IsSound(e, round) ==
  /\ IsEstimate(e) /\ e.round = round
  /\ e.source \in Estimator!Runtime <=> e.runtime
  /\ e.source = "PUBLISHED_COMMAND" <=> e.projection
  /\ e.source = "CAMERA" => e.state = e.measurement /\ e.state.valid
  /\ e.source = "NONE" => ~e.state.valid
  /\ e.runtime => e.stamp = e.state.at
  /\ e.state.valid => e.state.round = round
  /\ e.measurement.valid => e.measurement.round = round

EstimatorInv ==
  /\ ticks \in Int /\ IsSession(stepped)
  /\ IsSound(est, stepped.round)
  /\ Estimator!RuntimeIsFresh
  /\ est.projection => stepped.projected

Near(new, old) == new - old \in Estimator!Direction

LEMMA UnwrapIsNear ==
  ASSUME TurnIsOdd, NEW angle \in Int, NEW reference \in Int
  PROVE  /\ Estimator!UnwrapNear(angle, reference) \in Int
         /\ Near(Estimator!UnwrapNear(angle, reference), reference)
<1> DEFINE h == Estimator!Half
           x == angle - reference + h
<1>1. h \in Nat /\ x \in Int /\ Turn \in Nat /\ Turn = 2 * h + 1 /\ Turn > 0
  BY DEF TurnIsOdd
<1>2. x % Turn \in 0 .. Turn - 1
  <2> HIDE DEF x, h
  <2> QED BY <1>1
<1>3. Estimator!UnwrapNear(angle, reference) = reference + ((x % Turn) - h)
  BY DEF Estimator!UnwrapNear, Estimator!Wrap
<1>4. \A y \in 0 .. Turn - 1 : y - h \in -h .. h /\ (reference + (y - h)) - reference = y - h
                               /\ reference + (y - h) \in Int
  <2> HIDE DEF x, h
  <2> QED BY <1>1
<1>5. Estimator!Direction = -h .. h
  BY DEF Estimator!Direction
<1> HIDE DEF x, h
<1> QED BY <1>2, <1>3, <1>4, <1>5 DEF Near

\* What does not move is near where it was.
LEMMA NearItself ==
  ASSUME TurnIsOdd, NEW yaw \in Int
  PROVE  Near(yaw, yaw)
  BY DEF TurnIsOdd, Near, Estimator!Direction

LEMMA EstimatorInit == Estimator!Init => EstimatorInv
  BY DEF Estimator!Init, EstimatorInv, IsSound, IsEstimate, IsSession, IsFeedback,
         Estimator!FreshEstimator, Estimator!FreshSession, Estimator!NoFeedback,
         Estimator!Runtime, Estimator!Modes, Estimator!RuntimeIsFresh

LEMMA UntrustedFacts ==
  ASSUME NEW e, NEW round, IsSound(e, round), NEW changed \in BOOLEAN,
         NEW t, t = Estimator!Untrusted(e, changed)
  PROVE  /\ IsSound(t, round)
         /\ t.measurement = e.measurement /\ t.state \in {e.state, e.measurement}
         /\ t.projection => e.projection
         /\ changed => ~t.projection /\ ~t.runtime
<1>1. CASE changed
  <2> DEFINE s == IF e.measurement.valid THEN "CAMERA" ELSE "NONE"
  <2>1. t = [state |-> e.measurement, measurement |-> e.measurement, source |-> s,
             projection |-> FALSE, runtime |-> FALSE, stamp |-> 0, dt |-> 0,
             round |-> e.round]
    BY <1>1 DEF Estimator!Untrusted, Estimator!ClearCommandProjection,
          Estimator!ClearRuntimeActuator, Estimator!ToCamera, IsSound, IsEstimate
  <2>2. IsEstimate(e) /\ s \in {"CAMERA", "NONE"} /\ (s = "CAMERA" <=> e.measurement.valid)
    BY DEF IsSound
  <2> HIDE DEF s
  <2>3. IsEstimate(t)
    BY <2>1, <2>2 DEF IsEstimate
  <2>4. /\ t.state = e.measurement /\ t.measurement = e.measurement /\ t.source = s
        /\ ~t.projection /\ ~t.runtime /\ t.round = e.round
    BY <2>1
  <2>5. e.round = round /\ (e.measurement.valid => e.measurement.round = round)
    BY DEF IsSound
  <2>6. IsSound(t, round)
    BY <2>2, <2>3, <2>4, <2>5 DEF IsSound, Estimator!Runtime
  <2> QED BY <2>4, <2>6
<1>2. CASE ~changed
  BY <1>2 DEF Estimator!Untrusted
<1> QED BY <1>1, <1>2

\* What the telemetry does.
LEMMA ActuatorFacts ==
  ASSUME TurnIsOdd, ticks \in Int, NEW e, NEW round, IsSound(e, round),
         NEW a, a.at \in Int, a.yaw \in Int,
         NEW i, i = Estimator!ObserveActuatorTelemetry(e, a)
  PROVE  /\ IsSound(i, round)
         /\ i.measurement = e.measurement /\ (i.projection => e.projection)
         /\ i.runtime => ticks - i.state.at <= MaxAge
         /\ e.measurement.valid =>
              \/ i.state = e.state \/ i.source = "CAMERA"
              \/ Near(i.state.yaw, e.state.yaw) \/ Near(i.state.yaw, e.measurement.yaw)
<1>0. /\ IsEstimate(e) /\ e.round = round
      /\ e.source \in Estimator!Runtime <=> e.runtime
      /\ e.source = "PUBLISHED_COMMAND" <=> e.projection
      /\ e.source = "CAMERA" => e.state = e.measurement /\ e.state.valid
      /\ e.source = "NONE" => ~e.state.valid
      /\ e.runtime => e.stamp = e.state.at
      /\ e.state.valid => e.state.round = round
      /\ e.measurement.valid => e.measurement.round = round
  BY DEF IsSound
<1>1. CASE ~Estimator!Usable(a) /\ e.runtime
  <2> DEFINE s == IF e.measurement.valid THEN "CAMERA" ELSE "NONE"
  <2>1. i = [state |-> e.measurement, measurement |-> e.measurement, source |-> s,
             projection |-> e.projection, runtime |-> FALSE, stamp |-> 0, dt |-> e.dt,
             round |-> e.round]
    BY <1>0, <1>1 DEF Estimator!ObserveActuatorTelemetry, Estimator!ToCamera, IsEstimate
  <2>2. s \in {"CAMERA", "NONE"} /\ (s = "CAMERA" <=> e.measurement.valid)
    OBVIOUS
  <2>3. ~e.projection
    BY <1>0, <1>1 DEF Estimator!Runtime
  <2> HIDE DEF s
  <2>4. IsEstimate(i)
    BY <1>0, <2>1, <2>2 DEF IsEstimate
  <2>5. /\ i.state = e.measurement /\ i.measurement = e.measurement /\ i.source = s
        /\ i.projection = e.projection /\ ~i.runtime /\ i.round = e.round
    BY <2>1
  <2>6. IsSound(i, round)
    BY <1>0, <2>2, <2>3, <2>4, <2>5 DEF IsSound, Estimator!Runtime
  <2> QED BY <2>2, <2>5, <2>6
<1>2. CASE ~Estimator!Usable(a) /\ ~e.runtime
  BY <1>2 DEF Estimator!ObserveActuatorTelemetry
<1>3. CASE Estimator!Usable(a) /\ e.runtime /\ a.at = e.stamp
  <2>1. i = [state |-> e.state, measurement |-> e.measurement,
             source |-> "ACTUATOR_RUNTIME_HOLD",
             projection |-> e.projection, runtime |-> e.runtime, stamp |-> e.stamp,
             dt |-> e.dt, round |-> e.round]
    BY <1>0, <1>3 DEF Estimator!ObserveActuatorTelemetry, IsEstimate
  <2>2. ~e.projection
    BY <1>0, <1>3 DEF Estimator!Runtime
  <2>3. IsEstimate(i)
    BY <1>0, <2>1 DEF IsEstimate, Estimator!Runtime
  <2>4. /\ i.state = e.state /\ i.measurement = e.measurement
        /\ i.source = "ACTUATOR_RUNTIME_HOLD" /\ i.stamp = e.stamp
        /\ i.projection = e.projection /\ i.runtime = e.runtime /\ i.round = e.round
    BY <2>1
  <2>5. IsSound(i, round)
    BY <1>0, <1>3, <2>2, <2>3, <2>4 DEF IsSound, Estimator!Runtime
  <2> QED BY <1>0, <1>3, <2>4, <2>5 DEF Estimator!Usable
<1>4. CASE Estimator!Usable(a) /\ ~(e.runtime /\ a.at = e.stamp)
  <2> DEFINE reference == Estimator!Reference(e, a)
             yaw == Estimator!UnwrapNear(a.yaw, reference)
             state == [valid |-> TRUE, sequence |-> e.measurement.sequence, at |-> a.at,
                       yaw |-> yaw, round |-> e.round]
  <2>1. i = [state |-> state, measurement |-> e.measurement,
             source |-> "ACTUATOR_RUNTIME_DIRECT",
             projection |-> FALSE, runtime |-> TRUE, stamp |-> a.at,
             dt |-> e.dt, round |-> e.round]
    BY <1>0, <1>4 DEF Estimator!ObserveActuatorTelemetry, IsEstimate
  <2>2. /\ reference \in Int
        /\ e.measurement.valid => reference \in {e.state.yaw, e.measurement.yaw}
    BY <1>0 DEF Estimator!Reference, IsEstimate, IsFeedback
  <2> HIDE DEF reference
  <2>3. yaw \in Int /\ Near(yaw, reference)
    BY <2>2, UnwrapIsNear
  <2> HIDE DEF yaw
  <2>4. IsFeedback(state) /\ state.valid /\ state.yaw = yaw /\ state.round = e.round
        /\ state.at = a.at
    BY <2>3 DEF IsFeedback
  <2> HIDE DEF state
  <2>5. IsEstimate(i)
    BY <1>0, <2>1, <2>4 DEF IsEstimate, Estimator!Runtime
  <2>6. /\ i.state = state /\ i.measurement = e.measurement
        /\ i.source = "ACTUATOR_RUNTIME_DIRECT" /\ i.stamp = a.at
        /\ ~i.projection /\ i.runtime /\ i.round = e.round
    BY <2>1
  <2>7. IsSound(i, round)
    BY <1>0, <2>4, <2>5, <2>6 DEF IsSound, Estimator!Runtime
  <2>8. ticks - i.state.at <= MaxAge
    BY <1>4, <2>4, <2>6 DEF Estimator!Usable
  <2> QED BY <2>2, <2>3, <2>4, <2>6, <2>7, <2>8
<1> QED BY <1>1, <1>2, <1>3, <1>4

LEMMA UnprojectedFacts ==
  ASSUME NEW e, NEW round, IsSound(e, round), NEW changed \in BOOLEAN,
         NEW u, u = Estimator!Unprojected(e, changed)
  PROVE  /\ IsSound(u, round)
         /\ u.measurement = e.measurement /\ u.runtime = e.runtime
         /\ (u.projection => e.projection) /\ (changed => ~u.projection)
         /\ e.runtime => u.state = e.state
         /\ e.measurement.valid => u.state = e.state \/ u.source = "CAMERA"
         /\ e.source = "CAMERA" => u.source = "CAMERA"
<1>0. /\ IsEstimate(e) /\ e.round = round
      /\ e.source \in Estimator!Runtime <=> e.runtime
      /\ e.source = "CAMERA" => e.state = e.measurement /\ e.state.valid
      /\ e.runtime => e.stamp = e.state.at
      /\ e.state.valid => e.state.round = round
      /\ e.measurement.valid => e.measurement.round = round
      /\ e.source = "NONE" => ~e.state.valid
  BY DEF IsSound
<1>1. CASE ~changed
  BY <1>1 DEF Estimator!Unprojected
<1>2. CASE changed /\ e.runtime
  <2>1. u = [state |-> e.state, measurement |-> e.measurement,
             source |-> "ACTUATOR_RUNTIME_HOLD",
             projection |-> FALSE, runtime |-> e.runtime, stamp |-> e.stamp,
             dt |-> 0, round |-> e.round]
    BY <1>0, <1>2 DEF Estimator!Unprojected, Estimator!ClearCommandProjection, IsEstimate
  <2>2. IsEstimate(u)
    BY <1>0, <2>1 DEF IsEstimate, Estimator!Runtime
  <2>3. /\ u.state = e.state /\ u.measurement = e.measurement
        /\ u.source = "ACTUATOR_RUNTIME_HOLD" /\ u.stamp = e.stamp
        /\ ~u.projection /\ u.runtime = e.runtime /\ u.round = e.round
    BY <2>1
  <2>4. IsSound(u, round)
    BY <1>0, <1>2, <2>2, <2>3 DEF IsSound, Estimator!Runtime
  <2>5. e.source # "CAMERA"
    BY <1>0, <1>2 DEF Estimator!Runtime
  <2> QED BY <2>3, <2>4, <2>5
<1>3. CASE changed /\ ~e.runtime
  <2> DEFINE s == IF e.measurement.valid THEN "CAMERA" ELSE "NONE"
  <2>1. u = [state |-> e.measurement, measurement |-> e.measurement, source |-> s,
             projection |-> FALSE, runtime |-> e.runtime, stamp |-> e.stamp, dt |-> 0,
             round |-> e.round]
    BY <1>0, <1>3 DEF Estimator!Unprojected, Estimator!ClearCommandProjection,
                      Estimator!ToCamera, IsEstimate
  <2>2. s \in {"CAMERA", "NONE"} /\ (s = "CAMERA" <=> e.measurement.valid)
    OBVIOUS
  <2> HIDE DEF s
  <2>3. IsEstimate(u)
    BY <1>0, <2>1, <2>2 DEF IsEstimate
  <2>4. /\ u.state = e.measurement /\ u.measurement = e.measurement /\ u.source = s
        /\ ~u.projection /\ u.runtime = e.runtime /\ u.round = e.round
    BY <2>1
  <2>5. IsSound(u, round)
    BY <1>0, <1>3, <2>2, <2>3, <2>4 DEF IsSound, Estimator!Runtime
  <2> QED BY <1>0, <1>3, <2>2, <2>4, <2>5
<1> QED BY <1>1, <1>2, <1>3

\* What a frame does: the measurement goes forward, and on by less than half a turn.
LEMMA MeasurementFacts ==
  ASSUME TurnIsOdd, NEW e, NEW round, IsSound(e, round), NEW f, f.at \in Int, f.yaw \in Int,
         NEW m, m = Estimator!ObserveMeasurement(e, f)
  PROVE  /\ IsSound(m, round)
         /\ m.runtime = e.runtime /\ m.projection = e.projection
         /\ m.runtime => m.state.at = e.state.at
         /\ e.source = "CAMERA" => m.source = "CAMERA"
         /\ m.state.yaw = e.state.yaw \/ m.source = "CAMERA"
         /\ e.measurement.valid =>
              /\ m.measurement.valid /\ Near(m.measurement.yaw, e.measurement.yaw)
              /\ m.measurement # e.measurement =>
                   /\ m.measurement.at > e.measurement.at
                   /\ m.measurement.sequence # e.measurement.sequence
<1>0. /\ IsEstimate(e) /\ e.round = round
      /\ e.source \in Estimator!Runtime <=> e.runtime
      /\ e.source = "PUBLISHED_COMMAND" <=> e.projection
      /\ e.source = "CAMERA" => e.state = e.measurement /\ e.state.valid
      /\ e.runtime => e.stamp = e.state.at
      /\ e.state.valid => e.state.round = round
      /\ e.measurement.valid => e.measurement.round = round
      /\ e.source = "NONE" => ~e.state.valid
      /\ e.measurement.yaw \in Int /\ e.measurement.at \in Int /\ e.state.yaw \in Int
  BY DEF IsSound, IsEstimate, IsFeedback
<1> DEFINE first == ~e.measurement.valid
<1>1. CASE ~first /\ Estimator!Seen(e, f)
  <2>1. m = e
    BY <1>1 DEF Estimator!ObserveMeasurement
  <2> QED BY <1>0, <2>1, NearItself
<1>2. CASE ~(~first /\ Estimator!Seen(e, f))
  <2> DEFINE yaw == IF first THEN f.yaw ELSE Estimator!UnwrapNear(f.yaw, e.measurement.yaw)
             measurement == [valid |-> TRUE, sequence |-> f.sequence, at |-> f.at,
                             round |-> e.round, yaw |-> yaw]
  <2>1. yaw \in Int /\ (~first => Near(yaw, e.measurement.yaw))
    BY <1>0, UnwrapIsNear
  <2>2. ~first => f.sequence # e.measurement.sequence /\ f.at > e.measurement.at
    BY <1>0, <1>2 DEF Estimator!Seen
  <2>3. m = IF e.runtime THEN [[e EXCEPT !.measurement = measurement]
                                 EXCEPT !.state.sequence = f.sequence]
            ELSE IF e.projection THEN [e EXCEPT !.measurement = measurement]
            ELSE Estimator!ToCamera([e EXCEPT !.measurement = measurement])
    BY <1>2 DEF Estimator!ObserveMeasurement
  <2> HIDE DEF yaw
  <2>4. /\ IsFeedback(measurement) /\ measurement.valid /\ measurement.yaw = yaw
        /\ measurement.round = e.round /\ measurement.at = f.at
        /\ measurement.sequence = f.sequence
    BY <2>1 DEF IsFeedback
  <2> HIDE DEF measurement
  <2>5. /\ m.measurement = measurement
        /\ e.measurement.valid =>
              /\ m.measurement.valid /\ Near(m.measurement.yaw, e.measurement.yaw)
              /\ m.measurement # e.measurement =>
                   /\ m.measurement.at > e.measurement.at
                   /\ m.measurement.sequence # e.measurement.sequence
    <3>1. m.measurement = measurement
      BY <1>0, <2>3 DEF Estimator!ToCamera, IsEstimate
    <3> QED BY <2>1, <2>2, <2>4, <3>1
  <2>6. CASE e.runtime
    <3> DEFINE state == [valid |-> e.state.valid, sequence |-> f.sequence,
                         at |-> e.state.at, yaw |-> e.state.yaw, round |-> e.state.round]
    <3>1. [e.state EXCEPT !.sequence = f.sequence] = state
      BY <1>0 DEF IsEstimate, IsFeedback
    <3>2. m = [state |-> state, measurement |-> measurement, source |-> e.source,
               projection |-> e.projection, runtime |-> e.runtime, stamp |-> e.stamp,
               dt |-> e.dt, round |-> e.round]
      BY <1>0, <2>3, <2>6, <3>1 DEF IsEstimate
    <3>3. /\ IsFeedback(state) /\ state.valid = e.state.valid /\ state.yaw = e.state.yaw
          /\ state.at = e.state.at /\ state.round = e.state.round
      BY <1>0 DEF IsEstimate, IsFeedback
    <3> HIDE DEF state
    <3>4. IsEstimate(m)
      BY <1>0, <2>4, <3>2, <3>3 DEF IsEstimate
    <3>5. /\ m.state = state /\ m.source = e.source /\ m.projection = e.projection
          /\ m.runtime = e.runtime /\ m.stamp = e.stamp /\ m.round = e.round
      BY <3>2
    <3>6. e.source # "CAMERA" /\ e.source # "NONE"
      BY <1>0, <2>6 DEF Estimator!Runtime
    <3>7. IsSound(m, round)
      BY <1>0, <2>4, <2>5, <2>6, <3>3, <3>4, <3>5, <3>6 DEF IsSound
    <3> QED BY <2>5, <3>3, <3>5, <3>6, <3>7
  <2>7. CASE ~e.runtime /\ e.projection
    <3>1. m = [state |-> e.state, measurement |-> measurement, source |-> e.source,
               projection |-> e.projection, runtime |-> e.runtime, stamp |-> e.stamp,
               dt |-> e.dt, round |-> e.round]
      BY <1>0, <2>3, <2>7 DEF IsEstimate
    <3>2. IsEstimate(m)
      BY <1>0, <2>4, <3>1 DEF IsEstimate
    <3>3. /\ m.state = e.state /\ m.source = e.source /\ m.projection = e.projection
          /\ m.runtime = e.runtime /\ m.stamp = e.stamp /\ m.round = e.round
      BY <3>1
    <3>4. e.source = "PUBLISHED_COMMAND"
      BY <1>0, <2>7
    <3>5. IsSound(m, round)
      BY <1>0, <2>4, <2>5, <2>7, <3>2, <3>3, <3>4 DEF IsSound
    <3> QED BY <2>5, <3>3, <3>4, <3>5
  <2>8. CASE ~e.runtime /\ ~e.projection
    <3>1. m = [state |-> measurement, measurement |-> measurement, source |-> "CAMERA",
               projection |-> e.projection, runtime |-> e.runtime, stamp |-> e.stamp,
               dt |-> e.dt, round |-> e.round]
      BY <1>0, <2>3, <2>4, <2>8 DEF IsEstimate, Estimator!ToCamera
    <3>2. IsEstimate(m)
      BY <1>0, <2>4, <3>1 DEF IsEstimate
    <3>3. /\ m.state = measurement /\ m.source = "CAMERA" /\ m.projection = e.projection
          /\ m.runtime = e.runtime /\ m.stamp = e.stamp /\ m.round = e.round
      BY <3>1
    <3>4. IsSound(m, round)
      BY <1>0, <2>4, <2>5, <2>8, <3>2, <3>3 DEF IsSound, Estimator!Runtime
    <3> QED BY <2>5, <2>8, <3>3, <3>4
  <2> QED BY <2>6, <2>7, <2>8
<1> QED BY <1>1, <1>2

\* The projection to the present only says how far it goes.
LEMMA EstimateFacts ==
  ASSUME NEW e, NEW round, IsSound(e, round), NEW p, p = Estimator!Estimate(e)
  PROVE  /\ IsSound(p, round)
         /\ p.state = e.state /\ p.measurement = e.measurement /\ p.source = e.source
         /\ p.projection = e.projection /\ p.runtime = e.runtime
<1>1. PICK dt : p = [e EXCEPT !.dt = dt]
  BY DEF Estimator!Estimate
<1>2. IsEstimate(e)
  BY DEF IsSound
<1>3. p = [state |-> e.state, measurement |-> e.measurement, source |-> e.source,
           projection |-> e.projection, runtime |-> e.runtime, stamp |-> e.stamp, dt |-> dt,
           round |-> e.round]
  BY <1>1, <1>2 DEF IsEstimate
<1>4. /\ p.state = e.state /\ p.measurement = e.measurement /\ p.source = e.source
      /\ p.projection = e.projection /\ p.runtime = e.runtime /\ p.round = e.round
      /\ p.stamp = e.stamp
  BY <1>3
<1>5. IsEstimate(p)
  BY <1>2, <1>3 DEF IsEstimate
<1> QED BY <1>4, <1>5 DEF IsSound

Unwraps(new, old) ==
  /\ Near(new.measurement.yaw, old.measurement.yaw)
  /\ \/ new.source = "CAMERA"
     \/ Near(new.state.yaw, old.state.yaw) \/ Near(new.state.yaw, old.measurement.yaw)

Forward(new, old) ==
  new.measurement # old.measurement =>
    /\ new.measurement.at > old.measurement.at
    /\ new.measurement.sequence # old.measurement.sequence

LEMMA EstimatorStepInRound ==
  ASSUME TurnIsOdd, ticks \in Int, NEW s, IsSession(s), NEW e, IsSound(e, s.round),
         e.projection => s.projected,
         NEW a, a.at \in Int, a.yaw \in Int, NEW f, f.at \in Int, f.yaw \in Int,
         NEW external, NEW healthy, Estimator!StepInRound(s, e, a, f, external, healthy)
  PROVE  /\ IsSound(est', s.round) /\ IsSession(stepped') /\ stepped'.round = s.round
         /\ est'.runtime => stepped'.lastStep - est'.state.at <= MaxAge
         /\ est'.projection => stepped'.projected
         /\ e.measurement.valid => Unwraps(est', e) /\ Forward(est', e)
<1> DEFINE modeChanged == a.mode # s.mode
           externalChanged == external # s.external
           unhealthy == healthy # s.healthy /\ healthy = "NO"
           suspect == Estimator!Untrusted(e, modeChanged)
           trusted == Estimator!Untrusted(suspect, externalChanged)
           informed == Estimator!ObserveActuatorTelemetry(trusted, a)
           runtimeChanged == trusted.runtime # informed.runtime
           switched == Estimator!Unprojected(informed, runtimeChanged)
           measured == IF f.sequence # s.observed /\ f.at # 0
                       THEN Estimator!ObserveMeasurement(switched, f) ELSE switched
           cleared == Estimator!Unprojected(measured, unhealthy)
<1>1. /\ est' = Estimator!Estimate(cleared)
      /\ stepped' = [s EXCEPT
           !.mode = a.mode, !.external = external, !.healthy = healthy,
           !.observed = f.sequence, !.awaiting = TRUE, !.lastStep = ticks,
           !.projected =
             @ /\ ~(modeChanged \/ externalChanged \/ runtimeChanged \/ unhealthy)]
  BY DEF Estimator!StepInRound
<1>2. /\ modeChanged \in BOOLEAN /\ externalChanged \in BOOLEAN
      /\ runtimeChanged \in BOOLEAN /\ unhealthy \in BOOLEAN
  OBVIOUS
<1> HIDE DEF modeChanged, externalChanged, unhealthy
<1>3. /\ IsSound(suspect, s.round) /\ suspect.measurement = e.measurement
      /\ suspect.state \in {e.state, e.measurement}
      /\ suspect.projection => e.projection
      /\ modeChanged => ~suspect.projection
  BY <1>2, UntrustedFacts
<1> HIDE DEF suspect
<1>4. /\ IsSound(trusted, s.round) /\ trusted.measurement = e.measurement
      /\ trusted.state \in {e.state, e.measurement}
      /\ trusted.projection => suspect.projection
      /\ externalChanged => ~trusted.projection
  BY <1>2, <1>3, UntrustedFacts
<1> HIDE DEF trusted
<1>5. /\ IsSound(informed, s.round)
      /\ informed.measurement = e.measurement
      /\ informed.projection => trusted.projection
      /\ informed.runtime => ticks - informed.state.at <= MaxAge
      /\ e.measurement.valid =>
           \/ informed.state = trusted.state \/ informed.source = "CAMERA"
           \/ Near(informed.state.yaw, trusted.state.yaw)
           \/ Near(informed.state.yaw, e.measurement.yaw)
  BY <1>4, ActuatorFacts
<1>6. e.state.yaw \in Int /\ e.measurement.yaw \in Int
  BY DEF IsSound, IsEstimate, IsFeedback
<1>7. e.measurement.valid =>
        \/ informed.source = "CAMERA"
        \/ Near(informed.state.yaw, e.state.yaw) \/ Near(informed.state.yaw, e.measurement.yaw)
  BY <1>4, <1>5, <1>6, NearItself
<1> HIDE DEF informed
<1>8. /\ IsSound(switched, s.round) /\ switched.measurement = e.measurement
      /\ switched.runtime = informed.runtime
      /\ switched.projection => informed.projection
      /\ runtimeChanged => ~switched.projection
      /\ informed.runtime => switched.state = informed.state
      /\ e.measurement.valid => switched.state = informed.state \/ switched.source = "CAMERA"
      /\ informed.source = "CAMERA" => switched.source = "CAMERA"
  <2> HIDE DEF runtimeChanged
  <2>1. switched = Estimator!Unprojected(informed, runtimeChanged)
    OBVIOUS
  <2> HIDE DEF switched
  <2>2. runtimeChanged \in BOOLEAN /\ IsSound(informed, s.round)
    BY <1>2, <1>5
  <2>3. /\ IsSound(switched, s.round) /\ switched.measurement = informed.measurement
        /\ switched.runtime = informed.runtime
        /\ switched.projection => informed.projection
        /\ runtimeChanged => ~switched.projection
        /\ informed.runtime => switched.state = informed.state
        /\ informed.measurement.valid =>
             switched.state = informed.state \/ switched.source = "CAMERA"
        /\ informed.source = "CAMERA" => switched.source = "CAMERA"
    BY <2>1, <2>2, UnprojectedFacts
  <2> QED BY <1>5, <2>3
<1> HIDE DEF switched, runtimeChanged
<1>9. /\ IsSound(measured, s.round)
      /\ measured.runtime = switched.runtime /\ measured.projection = switched.projection
      /\ measured.runtime => measured.state.at = switched.state.at
      /\ switched.source = "CAMERA" => measured.source = "CAMERA"
      /\ measured.state.yaw = switched.state.yaw \/ measured.source = "CAMERA"
      /\ e.measurement.valid =>
           /\ measured.measurement.valid
           /\ Near(measured.measurement.yaw, e.measurement.yaw)
           /\ Forward(measured, e)
  <2>1. CASE measured = switched
    BY <1>6, <1>8, <2>1, NearItself DEF Forward
  <2>2. CASE measured = Estimator!ObserveMeasurement(switched, f)
    <3> HIDE DEF measured
    <3>1. IsSound(switched, s.round)
      BY <1>8
    <3>2. /\ IsSound(measured, s.round)
          /\ measured.runtime = switched.runtime /\ measured.projection = switched.projection
          /\ measured.runtime => measured.state.at = switched.state.at
          /\ switched.source = "CAMERA" => measured.source = "CAMERA"
          /\ measured.state.yaw = switched.state.yaw \/ measured.source = "CAMERA"
          /\ switched.measurement.valid =>
               /\ measured.measurement.valid
               /\ Near(measured.measurement.yaw, switched.measurement.yaw)
               /\ measured.measurement # switched.measurement =>
                    /\ measured.measurement.at > switched.measurement.at
                    /\ measured.measurement.sequence # switched.measurement.sequence
      BY <2>2, <3>1, MeasurementFacts
    <3> QED BY <1>8, <3>2 DEF Forward
  <2> QED BY <2>1, <2>2
<1> HIDE DEF measured
<1>10. /\ IsSound(cleared, s.round)
       /\ cleared.measurement = measured.measurement /\ cleared.runtime = measured.runtime
       /\ cleared.projection => measured.projection
       /\ unhealthy => ~cleared.projection
       /\ measured.runtime => cleared.state = measured.state
       /\ measured.measurement.valid =>
            cleared.state = measured.state \/ cleared.source = "CAMERA"
       /\ measured.source = "CAMERA" => cleared.source = "CAMERA"
  <2>1. cleared = Estimator!Unprojected(measured, unhealthy) /\ IsSound(measured, s.round)
    BY <1>9
  <2> HIDE DEF cleared
  <2>2. unhealthy \in BOOLEAN
    BY <1>2
  <2> QED BY <2>1, <2>2, UnprojectedFacts
<1> HIDE DEF cleared
<1>11. /\ IsSound(est', s.round)
       /\ est'.state = cleared.state /\ est'.measurement = cleared.measurement
       /\ est'.source = cleared.source /\ est'.projection = cleared.projection
       /\ est'.runtime = cleared.runtime
  <2>1. PICK p : p = Estimator!Estimate(cleared)
    OBVIOUS
  <2>2. est' = p
    BY <1>1, <2>1
  <2>3. /\ IsSound(p, s.round)
        /\ p.state = cleared.state /\ p.measurement = cleared.measurement
        /\ p.source = cleared.source /\ p.projection = cleared.projection
        /\ p.runtime = cleared.runtime
    BY <1>10, <2>1, EstimateFacts
  <2> QED BY <2>2, <2>3
<1> DEFINE projected ==
      s.projected /\ ~(modeChanged \/ externalChanged \/ runtimeChanged \/ unhealthy)
<1>12. /\ IsSession(stepped') /\ stepped'.round = s.round /\ stepped'.lastStep = ticks
       /\ stepped'.projected = projected
  <2>1. stepped' = [round |-> s.round, observed |-> f.sequence, mode |-> a.mode,
                    external |-> external, healthy |-> healthy, projected |-> projected,
                    awaiting |-> TRUE, lastStep |-> ticks]
    BY <1>1 DEF IsSession
  <2> HIDE DEF projected
  <2> QED BY <2>1 DEF IsSession
<1>13. est'.projection => projected
  BY <1>3, <1>4, <1>5, <1>8, <1>9, <1>10, <1>11
<1> HIDE DEF projected
<1>14. est'.projection => stepped'.projected
  BY <1>12, <1>13
<1>15. est'.runtime => stepped'.lastStep - est'.state.at <= MaxAge
  BY <1>5, <1>8, <1>9, <1>10, <1>11, <1>12
<1>16. e.measurement.valid => Unwraps(est', e) /\ Forward(est', e)
  BY <1>7, <1>8, <1>9, <1>10, <1>11 DEF Unwraps, Forward
<1> QED BY <1>11, <1>12, <1>14, <1>15, <1>16

\* What a command that was sent does.
LEMMA PublishedFacts ==
  ASSUME TurnIsOdd, ticks \in Int, NEW e, NEW round, IsSound(e, round), NEW yaw \in Int,
         NEW p, p = Estimator!ObservePublishedCommand(e, yaw)
  PROVE  /\ IsSound(p, round)
         /\ p.measurement = e.measurement /\ p.runtime = e.runtime
         /\ e.runtime => p.state = e.state
         /\ Near(p.state.yaw, e.state.yaw)
<1>0. /\ IsEstimate(e) /\ e.round = round
      /\ e.measurement.valid => e.measurement.round = round
      /\ e.state.yaw \in Int
  BY DEF IsSound, IsEstimate, IsFeedback
<1>1. CASE e.runtime \/ ~e.measurement.valid
  <2>1. p = e
    BY <1>1 DEF Estimator!ObservePublishedCommand
  <2> QED BY <1>0, <2>1, NearItself
<1>2. CASE ~e.runtime /\ e.measurement.valid
  <2> DEFINE near == Estimator!UnwrapNear(yaw, e.state.yaw)
             state == [valid |-> TRUE, sequence |-> e.measurement.sequence, at |-> ticks,
                       yaw |-> near, round |-> e.round]
  <2>1. p = [state |-> state, measurement |-> e.measurement, source |-> "PUBLISHED_COMMAND",
             projection |-> TRUE, runtime |-> e.runtime, stamp |-> e.stamp, dt |-> e.dt,
             round |-> e.round]
    BY <1>0, <1>2 DEF Estimator!ObservePublishedCommand, IsEstimate
  <2>2. near \in Int /\ Near(near, e.state.yaw)
    BY <1>0, UnwrapIsNear
  <2> HIDE DEF near
  <2>3. IsFeedback(state) /\ state.valid /\ state.yaw = near /\ state.round = e.round
    BY <2>2 DEF IsFeedback
  <2> HIDE DEF state
  <2>4. IsEstimate(p)
    BY <1>0, <2>1, <2>3 DEF IsEstimate
  <2>5. /\ p.state = state /\ p.measurement = e.measurement
        /\ p.source = "PUBLISHED_COMMAND" /\ p.projection /\ p.runtime = e.runtime
        /\ p.round = e.round
    BY <2>1
  <2>6. IsSound(p, round)
    BY <1>0, <1>2, <2>3, <2>4, <2>5 DEF IsSound, Estimator!Runtime
  <2> QED BY <1>2, <2>2, <2>3, <2>5, <2>6
<1> QED BY <1>1, <1>2

\* What is told of one step, besides that it keeps the invariant.
YawGoesOn == Estimator!UnwrapsYaw /\ Estimator!GoesForward

LEMMA YawGoesOnFrom ==
  ASSUME est.measurement.valid /\ stepped'.round = stepped.round
           => Unwraps(est', est) /\ Forward(est', est)
  PROVE  YawGoesOn
  BY DEF YawGoesOn, Unwraps, Forward, Near, Estimator!UnwrapsYaw, Estimator!GoesForward

\* What does not change the estimator, or the round.
LEMMA EstimatorStays ==
  ASSUME TurnIsOdd, EstimatorInv, est' = est
  PROVE  Unwraps(est', est) /\ Forward(est', est)
<1>1. est.measurement.yaw \in Int /\ est.state.yaw \in Int
  BY DEF EstimatorInv, IsSound, IsEstimate, IsFeedback
<1>2. Near(est.measurement.yaw, est.measurement.yaw) /\ Near(est.state.yaw, est.state.yaw)
  BY <1>1, NearItself
<1> QED BY <1>2 DEF Unwraps, Forward

LEMMA InRoundFacts ==
  ASSUME EstimatorInv, NEW round
  PROVE  LET start == Estimator!InRound(round)
         IN /\ IsSession(start.s) /\ IsSound(start.e, start.s.round)
            /\ start.s.round = round
            /\ start.e.projection => start.s.projected
            /\ round = stepped.round => start.e = est
<1>1. CASE round = stepped.round
  BY <1>1 DEF EstimatorInv, Estimator!InRound
<1>2. CASE round # stepped.round
  <2> DEFINE s == [Estimator!FreshSession EXCEPT !.round = round]
             e == Estimator!Reset(est, round)
  <2>1. Estimator!InRound(round) = [s |-> s, e |-> e]
    BY <1>2 DEF Estimator!InRound
  <2>2. IsSession(s) /\ s.round = round
    <3> DEFINE fresh == Estimator!FreshSession
    <3>1. fresh = [round |-> 1, observed |-> 0, mode |-> "NONE", external |-> "UNKNOWN",
                   healthy |-> "UNKNOWN", projected |-> FALSE, awaiting |-> FALSE,
                   lastStep |-> 0]
      BY DEF Estimator!FreshSession
    <3>2. s = [fresh EXCEPT !.round = round]
      OBVIOUS
    <3> HIDE DEF s, fresh
    <3>3. s = [round |-> round, observed |-> 0, mode |-> "NONE", external |-> "UNKNOWN",
               healthy |-> "UNKNOWN", projected |-> FALSE, awaiting |-> FALSE, lastStep |-> 0]
      BY <3>1, <3>2
    <3> QED BY <3>3 DEF IsSession
  <2>3. e = [state |-> Estimator!NoFeedback, measurement |-> Estimator!NoFeedback,
             source |-> "NONE", projection |-> FALSE, runtime |-> FALSE, stamp |-> 0,
             dt |-> 0, round |-> round]
    <3> DEFINE fresh == Estimator!FreshEstimator
    <3>1. fresh = [state |-> Estimator!NoFeedback, measurement |-> Estimator!NoFeedback,
             source |-> "NONE", projection |-> FALSE, runtime |-> FALSE, stamp |-> 0,
             dt |-> 0, round |-> 1]
      BY DEF Estimator!FreshEstimator
    <3>2. e = [fresh EXCEPT !.round = round]
      BY DEF Estimator!Reset
    <3> HIDE DEF fresh, e
    <3> QED BY <3>1, <3>2
  <2>4. IsFeedback(Estimator!NoFeedback) /\ ~Estimator!NoFeedback.valid
    BY DEF Estimator!NoFeedback, IsFeedback
  <2> HIDE DEF s, e
  <2>5. IsEstimate(e)
    BY <2>3, <2>4 DEF IsEstimate
  <2>6. IsSound(e, round) /\ ~e.projection
    BY <2>3, <2>4, <2>5 DEF IsSound, Estimator!Runtime
  <2> QED BY <1>2, <2>1, <2>2, <2>6
<1> QED BY <1>1, <1>2

LEMMA StepKeepsEstimator ==
  ASSUME TurnIsOdd, EstimatorInv, Estimator!Step
  PROVE  EstimatorInv' /\ YawGoesOn
<1>1. ticks \in Int
  BY DEF EstimatorInv
<1>2. /\ \A a \in Estimator!Telemetries : a.at \in Int /\ a.yaw \in Int
      /\ \A s : \A f \in Estimator!Frames(s) : f.at \in Int /\ f.yaw \in Int
  BY <1>1 DEF TurnIsOdd, Estimator!Telemetries, Estimator!Frames, Estimator!Direction
<1>3. PICK round : LET start == Estimator!InRound(round)
                   IN \E a \in Estimator!Telemetries, f \in Estimator!Frames(start.s) :
                        \/ \E external \in {"YES", "NO"} :
                             Estimator!StepInRound(start.s, start.e, a, f, external, "YES")
                        \/ Estimator!StepInRound(start.s, start.e, a, f, "YES", "NO")
  BY DEF Estimator!Step
<1> DEFINE s == Estimator!InRound(round).s
           e == Estimator!InRound(round).e
<1>4. /\ IsSession(s) /\ IsSound(e, s.round) /\ s.round = round
      /\ e.projection => s.projected
      /\ round = stepped.round => e = est
  BY InRoundFacts
<1>5. PICK a, f, external, healthy :
        /\ a.at \in Int /\ a.yaw \in Int /\ f.at \in Int /\ f.yaw \in Int
        /\ Estimator!StepInRound(s, e, a, f, external, healthy)
  BY <1>2, <1>3
<1> HIDE DEF s, e
<1>6. /\ IsSound(est', s.round) /\ IsSession(stepped') /\ stepped'.round = s.round
      /\ est'.runtime => stepped'.lastStep - est'.state.at <= MaxAge
      /\ est'.projection => stepped'.projected
      /\ e.measurement.valid => Unwraps(est', e) /\ Forward(est', e)
  BY <1>1, <1>4, <1>5, EstimatorStepInRound
<1>7. ticks' = ticks
  BY DEF Estimator!Step
<1>8. EstimatorInv'
  BY <1>1, <1>6, <1>7 DEF EstimatorInv, Estimator!RuntimeIsFresh
<1>9. YawGoesOn
  BY <1>4, <1>6, YawGoesOnFrom
<1> QED BY <1>8, <1>9

LEMMA AnswersKeepEstimator ==
  ASSUME TurnIsOdd, EstimatorInv, Estimator!Published \/ Estimator!NotSent
  PROVE  EstimatorInv' /\ YawGoesOn
<1>1. /\ ticks' = ticks /\ ticks \in Int /\ IsSession(stepped)
      /\ IsSound(est, stepped.round) /\ Estimator!RuntimeIsFresh
      /\ est.projection => stepped.projected
  BY DEF EstimatorInv, Estimator!Published, Estimator!NotSent
<1>2. ASSUME NEW projected, stepped' = [stepped EXCEPT !.awaiting = FALSE, !.projected = projected]
      PROVE  /\ IsSession(stepped') /\ stepped'.round = stepped.round
             /\ stepped'.lastStep = stepped.lastStep /\ stepped'.projected = projected
  <2>1. stepped' = [round |-> stepped.round, observed |-> stepped.observed,
                    mode |-> stepped.mode, external |-> stepped.external,
                    healthy |-> stepped.healthy, projected |-> projected,
                    awaiting |-> FALSE, lastStep |-> stepped.lastStep]
    BY <1>1, <1>2 DEF IsSession
  <2> QED BY <1>1, <2>1 DEF IsSession
<1>3. CASE \E yaw \in 0 .. Estimator!Half :
             /\ est' = Estimator!ObservePublishedCommand(est, yaw)
             /\ stepped' = [stepped EXCEPT !.awaiting = FALSE, !.projected = TRUE]
  <2>1. PICK yaw \in Int : est' = Estimator!ObservePublishedCommand(est, yaw)
    BY <1>3 DEF TurnIsOdd
  <2>2. /\ IsSession(stepped') /\ stepped'.round = stepped.round
        /\ stepped'.lastStep = stepped.lastStep /\ stepped'.projected = TRUE
    BY <1>2, <1>3
  <2>3. PICK p : p = Estimator!ObservePublishedCommand(est, yaw)
    OBVIOUS
  <2>4. /\ IsSound(p, stepped.round)
        /\ p.measurement = est.measurement /\ p.runtime = est.runtime
        /\ est.runtime => p.state = est.state
        /\ Near(p.state.yaw, est.state.yaw)
    BY <1>1, <2>3, PublishedFacts
  <2>5. est' = p
    BY <2>1, <2>3
  <2>6. EstimatorInv'
    BY <1>1, <2>2, <2>4, <2>5 DEF EstimatorInv, Estimator!RuntimeIsFresh
  <2>7. Near(est.measurement.yaw, est.measurement.yaw)
    BY <1>1, NearItself DEF IsSound, IsEstimate, IsFeedback
  <2>8. Unwraps(est', est) /\ Forward(est', est)
    BY <2>4, <2>5, <2>7 DEF Unwraps, Forward
  <2> QED BY <2>6, <2>8, YawGoesOnFrom
<1>4. CASE est' = est /\ stepped' = [stepped EXCEPT !.awaiting = FALSE]
  <2>1. stepped' = [round |-> stepped.round, observed |-> stepped.observed,
                    mode |-> stepped.mode, external |-> stepped.external,
                    healthy |-> stepped.healthy, projected |-> stepped.projected,
                    awaiting |-> FALSE, lastStep |-> stepped.lastStep]
    BY <1>1, <1>4 DEF IsSession
  <2>2. /\ IsSession(stepped') /\ stepped'.round = stepped.round
        /\ stepped'.lastStep = stepped.lastStep /\ stepped'.projected = stepped.projected
    BY <1>1, <2>1 DEF IsSession
  <2>3. EstimatorInv'
    BY <1>1, <1>4, <2>2 DEF EstimatorInv, Estimator!RuntimeIsFresh
  <2> QED BY <1>4, <2>3, EstimatorStays, YawGoesOnFrom
<1>5. CASE Estimator!NotSent
  <2>1. /\ est' = Estimator!ClearCommandProjection(est)
        /\ stepped' = [stepped EXCEPT !.awaiting = FALSE, !.projected = FALSE]
    BY <1>5 DEF Estimator!NotSent
  <2>2. /\ IsSession(stepped') /\ stepped'.round = stepped.round
        /\ stepped'.lastStep = stepped.lastStep /\ stepped'.projected = FALSE
    BY <1>2, <2>1
  <2>3. PICK u : u = Estimator!Unprojected(est, TRUE)
    OBVIOUS
  <2>4. est' = u
    BY <2>1, <2>3 DEF Estimator!Unprojected
  <2>5. /\ IsSound(u, stepped.round)
        /\ u.measurement = est.measurement /\ u.runtime = est.runtime
        /\ ~u.projection
        /\ est.runtime => u.state = est.state
        /\ est.measurement.valid => u.state = est.state \/ u.source = "CAMERA"
    <3>1. PICK c \in BOOLEAN : c = TRUE
      OBVIOUS
    <3>2. u = Estimator!Unprojected(est, c) /\ IsSound(est, stepped.round)
      BY <1>1, <2>3, <3>1
    <3>3. /\ IsSound(u, stepped.round)
          /\ u.measurement = est.measurement /\ u.runtime = est.runtime
          /\ (u.projection => est.projection) /\ (c => ~u.projection)
          /\ est.runtime => u.state = est.state
          /\ est.measurement.valid => u.state = est.state \/ u.source = "CAMERA"
          /\ est.source = "CAMERA" => u.source = "CAMERA"
      BY <3>2, UnprojectedFacts
    <3> QED BY <3>1, <3>3
  <2>6. EstimatorInv'
    BY <1>1, <2>2, <2>4, <2>5 DEF EstimatorInv, Estimator!RuntimeIsFresh
  <2>7. Near(est.measurement.yaw, est.measurement.yaw) /\ Near(est.state.yaw, est.state.yaw)
    BY <1>1, NearItself DEF IsSound, IsEstimate, IsFeedback
  <2>8. est.measurement.valid => Unwraps(est', est) /\ Forward(est', est)
    BY <2>4, <2>5, <2>7 DEF Unwraps, Forward
  <2> QED BY <2>6, <2>8, YawGoesOnFrom
<1> QED BY <1>3, <1>4, <1>5 DEF Estimator!Published

LEMMA EstimatorStep ==
  ASSUME TurnIsOdd, EstimatorInv, [Estimator!Next]_Estimator!vars
  PROVE  EstimatorInv' /\ YawGoesOn
<1>1. CASE Estimator!Tick \/ UNCHANGED Estimator!vars
  <2>1. est' = est /\ stepped' = stepped /\ ticks' \in Int
    BY <1>1 DEF Estimator!Tick, Estimator!vars, EstimatorInv
  <2>2. EstimatorInv'
    BY <2>1 DEF EstimatorInv, Estimator!RuntimeIsFresh
  <2> QED BY <2>1, <2>2, EstimatorStays, YawGoesOnFrom
<1>2. CASE Estimator!Step
  BY <1>2, StepKeepsEstimator
<1>3. CASE Estimator!Published \/ Estimator!NotSent
  BY <1>3, AnswersKeepEstimator
<1> QED BY <1>1, <1>2, <1>3 DEF Estimator!Next

LEMMA EstimatorInvIsSound ==
  EstimatorInv => /\ Estimator!SourceIsTheStates /\ Estimator!RuntimeIsFresh
                  /\ Estimator!ProjectionIsTheSessions
  BY DEF EstimatorInv, IsSound, Estimator!SourceIsTheStates,
         Estimator!ProjectionIsTheSessions

\* gimbal_feedback_estimator.cpp: the state is from the source the diagnostics name, no
\* older than it may be and of this round; the yaw is unwrapped and frames go forward.
THEOREM FeedbackIsOfItsSource ==
  ASSUME TurnIsOdd
  PROVE  /\ Estimator!Spec => []Estimator!SourceIsTheStates
         /\ Estimator!Spec => []Estimator!RuntimeIsFresh
         /\ Estimator!Spec => []Estimator!ProjectionIsTheSessions
         /\ Estimator!Spec => [][YawGoesOn]_Estimator!vars
<1>1. TurnIsOdd /\ EstimatorInv /\ [Estimator!Next]_Estimator!vars
        => EstimatorInv' /\ [YawGoesOn]_Estimator!vars
  BY EstimatorStep
<1> QED BY <1>1, EstimatorInit, EstimatorInvIsSound, PTL DEF Estimator!Spec

-----------------------------------------------------------------------------
(* The MindVision camera: capture times. *)

CONSTANTS
  TickRange, MaxDelta, Window, MaxOffsets, MinOffsets, Intervals, MaxReception, MaxSessions
VARIABLES device, clock, received, stamp, sensor, geometry, attitude
MindVision == INSTANCE MindVisionCamera WITH
  now <- received, imu <- sensor, pose <- attitude, MaxTime <- MaxReception,
  MaxGeneration <- MaxSessions

\* Ticks are counted, a clock is trusted with one offset at the earliest, and no two
\* frames are received at once.
ClockCounts ==
  /\ {TickRange, MaxDelta, MinOffsets} \subseteq Nat \ {0}
  /\ {Window, MaxOffsets, MaxReception} \subseteq Nat
  /\ Intervals \subseteq Nat \ {0}

Receptions == [receive : Int, offset : Int]

\* By no offset the last tick was captured before the last frame that got a time.
IsClock(c, earliest) ==
  /\ c.extended \in Int
  /\ c.offsets \in Seq(Receptions)
  /\ \A i \in DOMAIN c.offsets : c.extended + c.offsets[i].offset >= earliest

ClockInv ==
  /\ received \in Int /\ received >= 0
  /\ stamp.time \in Int /\ 0 <= stamp.time /\ stamp.time <= received
  /\ clock = [started |-> clock.started, last |-> clock.last, extended |-> clock.extended,
              offsets |-> clock.offsets]
  /\ IsClock(clock, stamp.time)

LEMMA ClockInit == MindVision!Init => ClockInv
<1> SUFFICES ASSUME MindVision!Init PROVE ClockInv
  OBVIOUS
<1>1. received = 0 /\ stamp.time = 0 /\ clock.extended = 0 /\ clock.offsets = <<>>
      /\ clock = [started |-> clock.started, last |-> clock.last, extended |-> clock.extended,
                  offsets |-> clock.offsets]
  BY DEF MindVision!Init, MindVision!Unset, MindVision!Unstarted
<1>2. <<>> \in Seq(Receptions) /\ DOMAIN <<>> = {}
  OBVIOUS
<1> QED BY <1>1, <1>2 DEF ClockInv, IsClock

\* Offsets are dropped from the front: what is left ends as it did before.
LEMMA RecentFacts ==
  ASSUME NEW s \in Seq(Receptions), NEW t
  PROVE  LET r == MindVision!Recent(s, t)
         IN /\ r \in Seq(Receptions)
            /\ \A i \in DOMAIN r : \E j \in DOMAIN s : r[i] = s[j]
            /\ r # <<>> => s # <<>> /\ r[Len(r)] = s[Len(s)]
<1> DEFINE d == MindVision!Dropped(s, t)
           k == Cardinality(d) + 1
           n == Len(s)
           r == SubSeq(s, k, n)
<1>1. n \in Nat /\ DOMAIN s = 1 .. n /\ \A i \in 1 .. n : s[i] \in Receptions
  OBVIOUS
<1>2. k \in Int /\ k >= 1
  <2>1. IsFiniteSet(1 .. n)
    BY <1>1, IndicesAreCounted
  <2>2. d \in SUBSET (1 .. n)
    BY <1>1 DEF MindVision!Dropped
  <2> HIDE DEF d
  <2>3. IsFiniteSet(d)
    BY <2>1, <2>2, FS_Subset
  <2>4. Cardinality(d) \in Nat
    BY <2>3, FS_CardinalityType
  <2> QED BY <2>4
<1> HIDE DEF d, k, n
<1>3. /\ r \in Seq(Receptions) /\ Len(r) = (IF k <= n THEN n - k + 1 ELSE 0)
      /\ \A i \in 1 .. n - k + 1 : r[i] = s[k + i - 1]
  BY <1>1, <1>2, SubSeqProperties
<1>4. DOMAIN r = 1 .. Len(r) /\ (r # <<>> => Len(r) > 0)
  BY <1>3
<1>5. ASSUME NEW i \in DOMAIN r PROVE \E j \in DOMAIN s : r[i] = s[j]
  <2>1. k + i - 1 \in 1 .. n /\ i \in 1 .. n - k + 1
    BY <1>1, <1>2, <1>3, <1>4
  <2> QED BY <1>1, <1>3, <2>1
<1>6. ASSUME r # <<>> PROVE s # <<>> /\ r[Len(r)] = s[Len(s)]
  <2>1. k <= n /\ Len(r) = n - k + 1 /\ Len(r) \in 1 .. n - k + 1
    BY <1>1, <1>2, <1>3, <1>4, <1>6
  <2>2. n > 0 /\ k + Len(r) - 1 = n
    BY <1>1, <1>2, <2>1
  <2>3. s # <<>>
    BY <1>1, <2>2 DEF n
  <2> QED BY <1>3, <2>1, <2>2, <2>3 DEF n
<1>7. MindVision!Recent(s, t) = r
  BY DEF MindVision!Recent, MindVision!Cardinality, Cardinality, r, k, d, n
<1> HIDE DEF r
<1> QED BY <1>3, <1>5, <1>6, <1>7

\* The clock goes on or starts anew: either way no offset dates the tick as early as the
\* last frame that got a time, and the last offset dates it at its reception.
LEMMA TickedFacts ==
  ASSUME ClockCounts, ClockInv, NEW tick \in Int, NEW t \in Int, t > received
  PROVE  LET c == MindVision!Ticked(tick, t)
         IN /\ IsClock(c, stamp.time + 1)
            /\ c = [started |-> c.started, last |-> c.last, extended |-> c.extended,
                    offsets |-> c.offsets]
            /\ c.offsets # <<>> => c.offsets[Len(c.offsets)].offset = t - c.extended
<1> DEFINE goesOn == MindVision!Continues(tick)
           e == IF goesOn THEN clock.extended + MindVision!Delta(tick) ELSE tick
           kept == IF goesOn THEN clock.offsets ELSE <<>>
           o == [receive |-> t, offset |-> t - e]
           s == Append(kept, o)
           r == MindVision!Recent(s, t)
           c == MindVision!Ticked(tick, t)
<1>1. goesOn => MindVision!Delta(tick) \in Int /\ MindVision!Delta(tick) >= 1
  BY DEF MindVision!Continues, ClockCounts
<1>2. clock.extended \in Int /\ clock.offsets \in Seq(Receptions) /\ stamp.time \in Int
      /\ stamp.time < t
      /\ \A i \in DOMAIN clock.offsets :
           clock.extended + clock.offsets[i].offset >= stamp.time
  BY DEF ClockInv, IsClock
<1> HIDE DEF goesOn
<1>3. e \in Int
  BY <1>1, <1>2
<1>4. kept \in Seq(Receptions)
  BY <1>2
<1>5. \A i \in DOMAIN kept : kept[i] \in Receptions /\ e + kept[i].offset >= stamp.time + 1
  <2>1. CASE goesOn
    <3>1. kept = clock.offsets /\ e >= clock.extended + 1
      BY <2>1, <1>1, <1>2
    <3>2. \A i \in DOMAIN kept : kept[i] \in Receptions
      BY <1>4
    <3>3. \A x \in Receptions : x.offset \in Int
      BY DEF Receptions
    <3> QED BY <1>2, <1>3, <3>1, <3>2, <3>3
  <2>2. CASE ~goesOn
    BY <2>2
  <2> QED BY <2>1, <2>2
<1>6. o \in Receptions /\ o.offset = t - e /\ e + o.offset >= stamp.time + 1
  BY <1>2, <1>3 DEF Receptions
<1> HIDE DEF e, kept, o
<1>7. /\ s \in Seq(Receptions) /\ Len(s) = Len(kept) + 1 /\ s[Len(kept) + 1] = o
      /\ \A i \in 1 .. Len(kept) : s[i] = kept[i]
      /\ Len(kept) \in Nat /\ DOMAIN kept = 1 .. Len(kept) /\ DOMAIN s = 1 .. Len(s)
  BY <1>4, <1>6
<1> HIDE DEF s
<1>8. \A i \in DOMAIN s : e + s[i].offset >= stamp.time + 1
  <2> SUFFICES ASSUME NEW i \in DOMAIN s PROVE e + s[i].offset >= stamp.time + 1
    OBVIOUS
  <2>1. i = Len(kept) + 1 \/ i \in 1 .. Len(kept)
    BY <1>7
  <2> QED BY <1>5, <1>6, <1>7, <2>1
<1>9. /\ r \in Seq(Receptions)
      /\ \A i \in DOMAIN r : \E j \in DOMAIN s : r[i] = s[j]
      /\ r # <<>> => r[Len(r)] = o
  BY <1>7, RecentFacts
<1> HIDE DEF r
<1>10. \A i \in DOMAIN r : e + r[i].offset >= stamp.time + 1
  BY <1>8, <1>9
<1>11. c = [started |-> TRUE, last |-> tick, extended |-> e, offsets |-> r]
  BY DEF MindVision!Ticked, r, s, o, e, kept, goesOn
<1> HIDE DEF c
<1>12. c.extended = e /\ c.offsets = r /\ c.started = TRUE /\ c.last = tick
  BY <1>11
<1> QED BY <1>3, <1>6, <1>9, <1>10, <1>11, <1>12 DEF IsClock, c

\* The least offset dates the frame: the frame comes after the one before, not after its
\* reception, and by no offset it was captured earlier.
LEMMA CaptureFacts ==
  ASSUME NEW c, NEW first \in Int, NEW t \in Int, IsClock(c, first), c.offsets # <<>>,
         c.offsets[Len(c.offsets)].offset = t - c.extended
  PROVE  /\ MindVision!CaptureTime(c) \in Int
         /\ first <= MindVision!CaptureTime(c) /\ MindVision!CaptureTime(c) <= t
         /\ IsClock(c, MindVision!CaptureTime(c))
<1> DEFINE s == c.offsets
           S == {s[i].offset : i \in DOMAIN s}
           T == {c.extended + x - first : x \in S}
           R == OpToRel(<, Nat)
<1>1. c.extended \in Int /\ s \in Seq(Receptions) /\ DOMAIN s = 1 .. Len(s) /\ Len(s) \in Nat
  BY DEF IsClock
<1>2. Len(s) \in DOMAIN s
  BY <1>1
<1>3. \A i \in DOMAIN s : s[i].offset \in Int /\ c.extended + s[i].offset >= first
  <2>1. \A i \in DOMAIN s : s[i] \in Receptions
    BY <1>1
  <2> QED BY <2>1 DEF IsClock, Receptions
<1>4. s[Len(s)].offset = t - c.extended
  OBVIOUS
<1> HIDE DEF s
<1>5. S \subseteq Int /\ (\A x \in S : c.extended + x >= first) /\ t - c.extended \in S
  BY <1>2, <1>3, <1>4
<1> HIDE DEF S
<1>6. T \subseteq Nat /\ T # {}
  <2>1. \A x \in S : c.extended + x - first \in Nat
    BY <1>1, <1>5
  <2> QED BY <1>5, <2>1
<1>7. PICK z \in T : \A y \in T : ~ (<<y, z>> \in R)
  <2> HIDE DEF T, R
  <2>1. IsWellFoundedOn(R, Nat)
    BY NatLessThanWellFounded DEF R
  <2> QED BY <1>6, <2>1, WFMin
<1>8. \A y \in T : ~(y < z)
  BY <1>6, <1>7 DEF OpToRel
<1>9. PICK x \in S : z = c.extended + x - first
  OBVIOUS
<1>10. \A y \in S : x <= y
  <2> SUFFICES ASSUME NEW y \in S PROVE x <= y
    OBVIOUS
  <2>1. c.extended + y - first \in T
    OBVIOUS
  <2> HIDE DEF T
  <2> QED BY <1>1, <1>5, <1>8, <1>9, <2>1
<1>11. MindVision!Min(S) \in S /\ \A y \in S : MindVision!Min(S) <= y
  BY <1>10 DEF MindVision!Min
<1>12. MindVision!CaptureTime(c) = c.extended + MindVision!Min(S)
  BY DEF MindVision!CaptureTime, S, s
<1>13. \A i \in DOMAIN s : s[i].offset \in S
  BY DEF S
<1>14. IsClock(c, c.extended + MindVision!Min(S))
  <2> DEFINE least == MindVision!Min(S)
  <2>1. least \in Int /\ \A y \in S : y \in Int /\ least <= y
    BY <1>5, <1>11
  <2> HIDE DEF least
  <2>2. ASSUME NEW i \in DOMAIN s PROVE c.extended + s[i].offset >= c.extended + least
    <3>1. s[i].offset \in Int /\ least <= s[i].offset
      BY <1>13, <2>1
    <3> QED BY <1>1, <2>1, <3>1
  <2> QED BY <1>1, <2>1, <2>2 DEF IsClock, s, least
<1>15. c.extended + MindVision!Min(S) \in Int /\ first <= c.extended + MindVision!Min(S)
       /\ c.extended + MindVision!Min(S) <= t
  <2> DEFINE least == MindVision!Min(S)
  <2>1. least \in Int /\ least \in S /\ least <= t - c.extended
    BY <1>5, <1>11
  <2> HIDE DEF least
  <2>2. c.extended + least >= first
    BY <1>5, <2>1
  <2> QED BY <1>1, <2>1, <2>2 DEF least
<1> QED BY <1>12, <1>14, <1>15

LEMMA ClockStep ==
  ASSUME ClockCounts, ClockInv, [MindVision!Next]_MindVision!vars
  PROVE  ClockInv' /\ MindVision!StampRises
<1>1. CASE UNCHANGED MindVision!vars
  BY <1>1 DEF ClockInv, IsClock, MindVision!vars, MindVision!StampRises
<1>2. CASE MindVision!Reset
  BY <1>2 DEF ClockInv, IsClock, MindVision!Reset, MindVision!StampRises
<1>3. CASE MindVision!Open
  <2> USE <1>3 DEF MindVision!Open
  <2>1. UNCHANGED <<received, stamp>>
    OBVIOUS
  <2>2. clock' = clock \/ clock' = [clock EXCEPT !.started = FALSE, !.offsets = <<>>]
    OBVIOUS
  <2>3. CASE clock' = clock
    BY <2>1, <2>3 DEF ClockInv, IsClock, MindVision!StampRises
  <2>4. CASE clock' = [clock EXCEPT !.started = FALSE, !.offsets = <<>>]
    <3>1. clock' = [started |-> FALSE, last |-> clock.last, extended |-> clock.extended,
                    offsets |-> <<>>]
      BY <2>4 DEF ClockInv
    <3>2. <<>> \in Seq(Receptions) /\ DOMAIN <<>> = {}
      OBVIOUS
    <3> QED BY <2>1, <3>1, <3>2 DEF ClockInv, IsClock, MindVision!StampRises
  <2> QED BY <2>2, <2>3, <2>4
<1>4. CASE MindVision!Grab
  <2>1. PICK interval \in Intervals, tick \in 0 .. TickRange - 1 :
          /\ received' = received + interval
          /\ clock' = MindVision!Ticked(tick, received')
          /\ \/ stamp' = stamp
             \/ /\ MindVision!Trusted(tick, clock')
                /\ stamp' = [set |-> TRUE, time |-> MindVision!CaptureTime(clock')]
    BY <1>4 DEF MindVision!Grab, MindVision!Unset
  <2>2. tick \in Int /\ received' \in Int /\ received' > received /\ received \in Int
        /\ received >= 0 /\ stamp.time \in Int /\ 0 <= stamp.time /\ stamp.time <= received
    BY <2>1 DEF ClockCounts, ClockInv
  <2>3. /\ IsClock(clock', stamp.time + 1)
        /\ clock' = [started |-> clock'.started, last |-> clock'.last,
                     extended |-> clock'.extended, offsets |-> clock'.offsets]
        /\ clock'.offsets # <<>> =>
             clock'.offsets[Len(clock'.offsets)].offset = received' - clock'.extended
    BY <2>1, <2>2, TickedFacts
  <2>4. CASE stamp' = stamp
    <3>1. IsClock(clock', stamp.time)
      <4>1. \A i \in DOMAIN clock'.offsets : clock'.offsets[i].offset \in Int
        <5>1. clock'.offsets \in Seq(Receptions)
          BY <2>3 DEF IsClock
        <5>2. \A i \in DOMAIN clock'.offsets : clock'.offsets[i] \in Receptions
          BY <5>1
        <5> QED BY <5>2 DEF Receptions
      <4> QED BY <2>2, <2>3, <4>1 DEF IsClock
    <3> QED BY <2>2, <2>3, <2>4, <3>1 DEF ClockInv, IsClock, MindVision!StampRises
  <2>5. CASE /\ MindVision!Trusted(tick, clock')
             /\ stamp' = [set |-> TRUE, time |-> MindVision!CaptureTime(clock')]
    <3>1. clock'.offsets # <<>>
      BY <2>5, <2>3 DEF MindVision!Trusted, ClockCounts, IsClock
    <3> DEFINE time == MindVision!CaptureTime(clock')
    <3>2. time \in Int /\ stamp.time + 1 <= time /\ time <= received' /\ IsClock(clock', time)
      BY <2>2, <2>3, <3>1, CaptureFacts
    <3>3. stamp'.time = time
      BY <2>5
    <3> HIDE DEF time
    <3> QED BY <2>2, <2>3, <3>2, <3>3 DEF ClockInv, IsClock, MindVision!StampRises
  <2> QED BY <2>1, <2>4, <2>5
<1> QED BY <1>1, <1>2, <1>3, <1>4 DEF MindVision!Next

\* mindvision_device.cpp: estimated capture times rise and never pass the reception.
THEOREM StampsRise ==
  ASSUME ClockCounts
  PROVE  MindVision!Spec => [][MindVision!StampRises]_MindVision!vars
<1>1. ClockInv /\ [MindVision!Next]_MindVision!vars
        => ClockInv' /\ [MindVision!StampRises]_MindVision!vars
  BY ClockStep
<1> QED BY <1>1, ClockInit, PTL DEF MindVision!Spec

-----------------------------------------------------------------------------
(* The decoding of armors. *)

CONSTANTS Content, Scale, Rows, Objectness, Ends
VARIABLES rows, decoded, candidates, order, retained, detector
Detector == INSTANCE ArmorDecoding WITH next <- decoded, MaxRows <- Rows, kept <- retained

\* The image has a size, and there are intervals with scores.
ImageHasSize ==
  /\ {Content, Scale} \subseteq Nat \ {0}
  /\ Ends \subseteq Int /\ Objectness \subseteq Int /\ Objectness # {}
  /\ \E l, r \in Ends : l < r

Boxes == [objectness : Int, l : Int, r : Int]

\* An image is as wide as it is.
Width == Content * Scale

\* What is left of an interval whose ends lie at p and q of the image.
LEMMA CutFacts ==
  ASSUME NEW w \in Int, NEW p \in Int, NEW q \in Int, w > 0, p < q,
         NEW a, a = (IF p < 0 THEN 0 ELSE IF p > w - 1 THEN w - 1 ELSE p),
         NEW b, b = (IF q < 0 THEN 0 ELSE IF q > w - 1 THEN w - 1 ELSE q),
         a < b
  PROVE  /\ a \in Int /\ b \in Int /\ 0 <= a /\ b <= w - 1
         /\ LET cut == Detector!Larger(0, -p) + Detector!Larger(0, q - (w - 1))
            IN a + b - (p + q) \in -cut .. cut
  BY DEF Detector!Larger

\* Multiplied by the scale, sums and order stay.
LEMMA ScaledFacts ==
  ASSUME ImageHasSize, NEW l \in Int, NEW r \in Int, l < r, l + r >= 0, l + r < 2 * Content
  PROVE  /\ l * Scale \in Int /\ r * Scale \in Int /\ Width \in Int /\ Width > 0
         /\ l * Scale < r * Scale
         /\ (l + r) * Scale = l * Scale + r * Scale
         /\ 0 <= (l + r) * Scale /\ (l + r) * Scale < 2 * Content * Scale
         /\ 2 * Content * Scale = 2 * Width
<1>1. Scale \in Int /\ Scale > 0 /\ Content \in Int /\ Content > 0
  BY DEF ImageHasSize
<1>2. \A x \in Int : x > 0 => x * Scale > 0
  BY <1>1
<1>3. \A x, y \in Int : (x + y) * Scale = x * Scale + y * Scale /\ x * Scale \in Int
  BY <1>1
<1>4. (r - l) * Scale > 0 /\ (2 * Content - (l + r)) * Scale > 0 /\ Content * Scale > 0
  BY <1>1, <1>2
<1>5. r * Scale = l * Scale + (r - l) * Scale
  BY <1>3
<1>6. (2 * Content) * Scale = (l + r) * Scale + (2 * Content - (l + r)) * Scale
  BY <1>1, <1>3
<1>7. (2 * Content) * Scale = 2 * (Content * Scale)
  BY <1>1
<1>8. (l + r) * Scale >= 0
  <2>1. l + r = 0 \/ l + r > 0
    OBVIOUS
  <2> QED BY <1>1, <1>2, <2>1
<1>9. (r - l) * Scale \in Int /\ (2 * Content - (l + r)) * Scale \in Int
      /\ (l + r) * Scale \in Int /\ l * Scale \in Int /\ r * Scale \in Int
      /\ Content * Scale \in Int /\ (2 * Content) * Scale \in Int
  BY <1>1, <1>3
<1>10. l * Scale < r * Scale
  BY <1>4, <1>5, <1>9
<1>11. (l + r) * Scale < (2 * Content) * Scale
  BY <1>4, <1>6, <1>9
<1> QED BY <1>3, <1>4, <1>7, <1>8, <1>9, <1>10, <1>11 DEF Width

IsRow(r) ==
  r = [color |-> r.color, objectness |-> r.objectness, l |-> r.l, r |-> r.r]
  /\ r.objectness \in Int /\ r.l \in Int /\ r.r \in Int /\ r.l < r.r

\* A detection of this row.
IsOf(box, r) ==
  /\ r.color = "ENEMY" /\ r.objectness = box.objectness
  /\ LET middle == (r.l + r.r) * Scale
         cut == Detector!Larger(0, -(r.l * Scale))
                  + Detector!Larger(0, r.r * Scale - (Content * Scale - 1))
     IN /\ 0 <= middle /\ middle < 2 * Content * Scale
        /\ box.l + box.r - middle \in -cut .. cut

InImage(box) == 0 <= box.l /\ box.l < box.r /\ box.r <= Content * Scale - 1

\* What a row that passes becomes.
LEMMA PassedIsInImage ==
  ASSUME ImageHasSize, NEW r, IsRow(r), Detector!Passes(r)
  PROVE  LET box == Detector!Mapped(r)
         IN box \in Boxes /\ InImage(box) /\ IsOf(box, r)
<1> DEFINE p == r.l * Scale
           q == r.r * Scale
           a == Detector!MapPoint(r.l)
           b == Detector!MapPoint(r.r)
           box == Detector!Mapped(r)
<1>1. r.l + r.r >= 0 /\ r.l + r.r < 2 * Content /\ r.color = "ENEMY" /\ box.l < box.r
  BY DEF Detector!Passes, Detector!Centered, Detector!HasExtent
<1>2. box = [objectness |-> r.objectness, l |-> a, r |-> b]
  BY DEF Detector!Mapped
<1>3. r.l \in Int /\ r.r \in Int /\ r.l < r.r /\ r.objectness \in Int
  BY DEF IsRow
<1>4. /\ p \in Int /\ q \in Int /\ Width \in Int /\ Width > 0 /\ p < q
      /\ (r.l + r.r) * Scale = p + q
      /\ 0 <= (r.l + r.r) * Scale /\ (r.l + r.r) * Scale < 2 * Content * Scale
  BY <1>1, <1>3, ScaledFacts
<1>5. /\ a = (IF p < 0 THEN 0 ELSE IF p > Width - 1 THEN Width - 1 ELSE p)
      /\ b = (IF q < 0 THEN 0 ELSE IF q > Width - 1 THEN Width - 1 ELSE q)
  BY DEF Detector!MapPoint, Width
<1>6. a < b /\ box.l = a /\ box.r = b /\ box.objectness = r.objectness
  BY <1>1, <1>2
<1> HIDE DEF p, q, a, b, box
<1>7. /\ a \in Int /\ b \in Int /\ 0 <= a /\ b <= Width - 1
      /\ LET cut == Detector!Larger(0, -p) + Detector!Larger(0, q - (Width - 1))
         IN a + b - (p + q) \in -cut .. cut
  BY <1>4, <1>5, <1>6, CutFacts
<1>8. box \in Boxes
  BY <1>2, <1>3, <1>7 DEF Boxes
<1>9. InImage(box)
  BY <1>6, <1>7 DEF InImage, Width
<1>10. IsOf(box, r)
  BY <1>1, <1>4, <1>6, <1>7 DEF IsOf, Width, p, q
<1> QED BY <1>8, <1>9, <1>10 DEF box

Elements(s) == {s[i] : i \in DOMAIN s}

RowsInv ==
  /\ Len(rows) \in Nat /\ DOMAIN rows = 1 .. Len(rows)
  /\ \A i \in DOMAIN rows : IsRow(rows[i])
  /\ decoded \in Nat \ {0}

CandidatesInv ==
  /\ candidates \in Seq(Boxes)
  /\ \A i \in DOMAIN candidates :
       InImage(candidates[i]) /\ \E j \in DOMAIN rows : IsOf(candidates[i], rows[j])

\* By falling score.
Falls(s) == \A m, n \in DOMAIN s : m < n => Detector!Before(s[m], s[n])

Overlap(i, k) == Detector!Overlapping(candidates[i], candidates[k])

\* Between the kept ones and those still to come: the former are better and do not
\* overlap, and what is in neither overlaps a better one that was kept.
ThinnedInv ==
  /\ order \in Seq(DOMAIN candidates) /\ Falls(order)
  /\ retained \in Seq(DOMAIN candidates) /\ Falls(retained)
  /\ \A k \in Elements(retained), i \in Elements(order) : Detector!Before(k, i)
  /\ \A j, k \in Elements(retained) : j # k => ~Overlap(j, k)
  /\ \A i \in DOMAIN candidates :
       \/ i \in Elements(order) \cup Elements(retained)
       \/ \E k \in Elements(retained) : Detector!Before(k, i) /\ Overlap(i, k)

DetectorInv ==
  /\ detector \in {"DECODE", "SUPPRESS", "DONE", "FAILED"}
  /\ RowsInv /\ CandidatesInv
  /\ detector \in {"SUPPRESS", "DONE"} => ThinnedInv
  /\ detector = "DECODE" => order = <<>> /\ retained = <<>>
  /\ detector = "DONE" => order = <<>>

LEMMA DetectorInit == ImageHasSize /\ Detector!Init => DetectorInv
<1> SUFFICES ASSUME ImageHasSize, Detector!Init PROVE DetectorInv
  OBVIOUS
<1> DEFINE enemies == {r \in Detector!Row : r.color = "ENEMY" /\ r.l < r.r}
           other == CHOOSE r \in Detector!Row : r.color = "OTHER" /\ r.l < r.r
<1>1. PICK n \in 0 .. Rows : rows \in [1 .. n -> enemies \cup {other}]
  BY DEF Detector!Init, Detector!Outputs
<1>2. other \in Detector!Row /\ other.l < other.r
  <2>1. PICK l \in Ends, r \in Ends : l < r
    BY DEF ImageHasSize
  <2>2. PICK o \in Objectness : TRUE
    BY DEF ImageHasSize
  <2> DEFINE one == [color |-> "OTHER", objectness |-> o, l |-> l, r |-> r]
  <2>3. one \in Detector!Row /\ one.color = "OTHER" /\ one.l < one.r
    BY <2>1, <2>2 DEF Detector!Row
  <2> HIDE DEF one
  <2> QED BY <2>3
<1>3. \A r \in Detector!Row : r.l < r.r => IsRow(r)
  <2> SUFFICES ASSUME NEW r \in Detector!Row, r.l < r.r PROVE IsRow(r)
    OBVIOUS
  <2>1. /\ r = [color |-> r.color, objectness |-> r.objectness, l |-> r.l, r |-> r.r]
        /\ r.objectness \in Objectness /\ r.l \in Ends /\ r.r \in Ends
    BY DEF Detector!Row
  <2>2. r.objectness \in Int /\ r.l \in Int /\ r.r \in Int
    BY <2>1 DEF ImageHasSize
  <2> QED BY <2>1, <2>2 DEF IsRow
<1>4. \A r \in enemies \cup {other} : IsRow(r)
  BY <1>2, <1>3
<1> HIDE DEF enemies, other
<1>5. n \in Nat /\ Len(rows) = n /\ DOMAIN rows = 1 .. n
  BY <1>1
<1>6. \A i \in DOMAIN rows : IsRow(rows[i])
  BY <1>1, <1>4, <1>5
<1>7. candidates = <<>> /\ order = <<>> /\ retained = <<>> /\ detector = "DECODE" /\ decoded = 1
  BY DEF Detector!Init
<1>8. <<>> \in Seq(Boxes) /\ DOMAIN <<>> = {}
  OBVIOUS
<1> QED BY <1>5, <1>6, <1>7, <1>8 DEF DetectorInv, RowsInv, CandidatesInv

\* The order of a sort that goes by score first and index second.
LEMMA BeforeIsAnOrder ==
  ASSUME candidates \in Seq(Boxes)
  PROVE  /\ \A i, j, k \in DOMAIN candidates :
              Detector!Before(i, j) /\ Detector!Before(j, k) => Detector!Before(i, k)
         /\ \A i, j \in DOMAIN candidates :
              Detector!Before(i, j) =>
                i # j /\ candidates[i].objectness >= candidates[j].objectness
<1>1. \A i \in DOMAIN candidates : candidates[i] \in Boxes /\ i \in Int
  OBVIOUS
<1>2. \A i \in DOMAIN candidates : candidates[i].objectness \in Int /\ i \in Int
  BY <1>1 DEF Boxes
<1> QED BY <1>2 DEF Detector!Before

LEMMA OverlappingBoxes ==
  ASSUME NEW a \in Boxes, NEW b \in Boxes
  PROVE  Detector!Overlapping(a, b) <=> Detector!Overlapping(b, a)
<1>1. a.l \in Int /\ a.r \in Int /\ b.l \in Int /\ b.r \in Int
  BY DEF Boxes
<1>2. PICK x : x = Detector!Intersection(a, b)
  OBVIOUS
<1>3. x = Detector!Intersection(b, a) /\ x \in Int
  BY <1>1, <1>2 DEF Detector!Intersection, Detector!Larger, Detector!Smaller
<1> QED BY <1>1, <1>2, <1>3 DEF Detector!Overlapping

LEMMA OverlapIsMutual ==
  ASSUME candidates \in Seq(Boxes), NEW i \in DOMAIN candidates, NEW k \in DOMAIN candidates
  PROVE  Overlap(i, k) <=> Overlap(k, i)
<1>1. candidates[i] \in Boxes /\ candidates[k] \in Boxes
  OBVIOUS
<1> QED BY <1>1, OverlappingBoxes DEF Overlap

\* One more at the end.
LEMMA AppendedElements ==
  ASSUME NEW S, NEW s \in Seq(S), NEW e \in S
  PROVE  /\ Append(s, e) \in Seq(S)
         /\ Elements(Append(s, e)) = Elements(s) \cup {e}
         /\ Len(s) + 1 \in DOMAIN Append(s, e)
         /\ \A i \in DOMAIN Append(s, e) :
              i = Len(s) + 1 \/ (i \in DOMAIN s /\ i < Len(s) + 1)
         /\ \A i \in DOMAIN s : Append(s, e)[i] = s[i]
         /\ Append(s, e)[Len(s) + 1] = e
<1> DEFINE a == Append(s, e)
<1>1. /\ a \in Seq(S) /\ Len(a) = Len(s) + 1 /\ a[Len(s) + 1] = e /\ Len(s) \in Nat
      /\ DOMAIN a = 1 .. Len(s) + 1 /\ DOMAIN s = 1 .. Len(s)
      /\ \A i \in 1 .. Len(s) : a[i] = s[i]
  OBVIOUS
<1> HIDE DEF a
<1>2. \A i \in DOMAIN a : i = Len(s) + 1 \/ (i \in DOMAIN s /\ i < Len(s) + 1)
  BY <1>1
<1>3. Elements(a) = Elements(s) \cup {e}
  BY <1>1, <1>2 DEF Elements
<1> QED BY <1>1, <1>2, <1>3 DEF a

\* Without the first.
LEMMA TailElements ==
  ASSUME NEW S, NEW s \in Seq(S), s # <<>>
  PROVE  /\ Tail(s) \in Seq(S) /\ Head(s) = s[1] /\ 1 \in DOMAIN s /\ Head(s) \in S
         /\ Elements(s) = Elements(Tail(s)) \cup {Head(s)}
         /\ \A i \in DOMAIN Tail(s) : i + 1 \in DOMAIN s /\ i + 1 > 1 /\ Tail(s)[i] = s[i + 1]
<1> DEFINE t == Tail(s)
<1>1. /\ t \in Seq(S) /\ Len(t) = Len(s) - 1 /\ Head(s) = s[1] /\ Len(s) \in Nat /\ Len(s) > 0
      /\ DOMAIN s = 1 .. Len(s) /\ DOMAIN t = 1 .. Len(s) - 1
      /\ \A i \in 1 .. Len(s) - 1 : t[i] = s[i + 1]
  OBVIOUS
<1>2. 1 \in DOMAIN s /\ Head(s) \in S
  BY <1>1
<1> HIDE DEF t
<1>3. \A i \in DOMAIN t : i + 1 \in DOMAIN s /\ i + 1 > 1 /\ t[i] = s[i + 1]
  BY <1>1
<1>4. \A i \in DOMAIN s : i = 1 \/ (i - 1 \in DOMAIN t /\ t[i - 1] = s[i])
  BY <1>1
<1>5. Elements(s) = Elements(t) \cup {s[1]}
  BY <1>2, <1>3, <1>4 DEF Elements
<1> QED BY <1>1, <1>2, <1>3, <1>5 DEF t

LEMMA SuppressStep ==
  ASSUME CandidatesInv, ThinnedInv, Detector!Suppress
  PROVE  ThinnedInv'
<1> DEFINE h == Head(order)
           D == DOMAIN candidates
<1>1. /\ candidates' = candidates /\ order # <<>> /\ order' = Tail(order)
      /\ retained' = IF Detector!Suppressed(h) THEN retained ELSE Append(retained, h)
  BY DEF Detector!Suppress
<1>2. candidates \in Seq(Boxes) /\ order \in Seq(D) /\ retained \in Seq(D)
  BY DEF CandidatesInv, ThinnedInv
<1> HIDE DEF D
<1>3. /\ Tail(order) \in Seq(D) /\ h = order[1] /\ 1 \in DOMAIN order /\ h \in D
      /\ Elements(order) = Elements(Tail(order)) \cup {h}
      /\ \A i \in DOMAIN Tail(order) :
           i + 1 \in DOMAIN order /\ i + 1 > 1 /\ Tail(order)[i] = order[i + 1]
  BY <1>1, <1>2, TailElements
<1> HIDE DEF h
<1>4. \A i \in DOMAIN order : i \in Int
  BY <1>2
<1>5. \A i, j : Detector!Before(i, j)' <=> Detector!Before(i, j)
  BY <1>1 DEF Detector!Before
<1>6. \A i, j : Overlap(i, j)' <=> Overlap(i, j)
  BY <1>1 DEF Overlap, Detector!Overlapping, Detector!Intersection, Detector!Larger,
         Detector!Smaller
<1>7. \A i \in Elements(Tail(order)) : Detector!Before(h, i) /\ i \in Elements(order)
  BY <1>3 DEF Elements, ThinnedInv, Falls
<1>8. Falls(order)'
  <2> SUFFICES ASSUME NEW m \in DOMAIN Tail(order), NEW n \in DOMAIN Tail(order), m < n
               PROVE  Detector!Before(Tail(order)[m], Tail(order)[n])
    BY <1>1, <1>5 DEF Falls
  <2>1. m \in Int /\ n \in Int
    BY <1>3
  <2>2. m + 1 < n + 1 /\ m + 1 \in DOMAIN order /\ n + 1 \in DOMAIN order
    BY <1>3, <2>1
  <2> QED BY <1>3, <2>2 DEF ThinnedInv, Falls
<1>9. h \in Elements(order) /\ \A k \in Elements(retained) : Detector!Before(k, h)
  BY <1>3 DEF ThinnedInv
<1>10. Detector!Suppressed(h) <=> \E k \in Elements(retained) : Overlap(h, k)
  BY DEF Detector!Suppressed, Detector!Range, Elements, Overlap
<1>11. DOMAIN candidates' = D /\ DOMAIN candidates = D
  BY <1>1 DEF D
<1>12. CASE Detector!Suppressed(h)
  <2>1. retained' = retained /\ Elements(retained)' = Elements(retained)
    BY <1>1, <1>12
  <2>2. Falls(retained)'
    BY <1>5, <2>1 DEF Falls, ThinnedInv
  <2>3. \A k \in Elements(retained), i \in Elements(Tail(order)) : Detector!Before(k, i)
    BY <1>7 DEF ThinnedInv
  <2>4. \A i \in D : \/ i \in Elements(Tail(order)) \cup Elements(retained)
                     \/ \E k \in Elements(retained) : Detector!Before(k, i) /\ Overlap(i, k)
    BY <1>3, <1>9, <1>10, <1>11, <1>12 DEF ThinnedInv
  <2>5. Elements(order)' = Elements(Tail(order))
    BY <1>1 DEF Elements
  <2> HIDE DEF Elements
  <2>6. \A j, k \in Elements(retained) : j # k => ~Overlap(j, k)
    BY DEF ThinnedInv
  <2> QED BY <1>1, <1>2, <1>3, <1>5, <1>6, <1>8, <1>11, <2>1, <2>2, <2>3, <2>4, <2>5, <2>6
          DEF ThinnedInv
<1>13. CASE ~Detector!Suppressed(h)
  <2> DEFINE a == Append(retained, h)
  <2>1. retained' = a
    BY <1>1, <1>13
  <2>2. /\ a \in Seq(D) /\ Elements(a) = Elements(retained) \cup {h}
        /\ Len(retained) + 1 \in DOMAIN a
        /\ \A i \in DOMAIN a : i = Len(retained) + 1 \/ (i \in DOMAIN retained /\ i < Len(retained) + 1)
        /\ \A i \in DOMAIN retained : a[i] = retained[i]
        /\ a[Len(retained) + 1] = h
    BY <1>2, <1>3, AppendedElements
  <2>3. Len(retained) \in Nat
    BY <1>2
  <2> HIDE DEF a
  <2>4. Falls(a)
    <3> SUFFICES ASSUME NEW m \in DOMAIN a, NEW n \in DOMAIN a, m < n
                 PROVE  Detector!Before(a[m], a[n])
      BY DEF Falls
    <3>1. m \in DOMAIN retained
      <4>1. m # Len(retained) + 1
        BY <2>2, <2>3
      <4> QED BY <2>2, <4>1
    <3>2. a[m] = retained[m] /\ retained[m] \in Elements(retained)
      BY <2>2, <3>1 DEF Elements
    <3>3. CASE n = Len(retained) + 1
      BY <1>9, <2>2, <3>2, <3>3
    <3>4. CASE n \in DOMAIN retained
      BY <2>2, <3>1, <3>2, <3>4 DEF ThinnedInv, Falls
    <3> QED BY <2>2, <3>3, <3>4
  <2>5. Falls(retained)'
    BY <1>5, <2>1, <2>4 DEF Falls
  <2>6. \A k \in Elements(a), i \in Elements(Tail(order)) : Detector!Before(k, i)
    BY <1>7, <2>2 DEF ThinnedInv
  <2>7. \A k \in Elements(retained) : k \in D
    BY <1>2 DEF Elements
  <2>8. \A k \in Elements(retained) : ~Overlap(h, k) /\ ~Overlap(k, h)
    <3>1. \A k \in Elements(retained) : Overlap(h, k) <=> Overlap(k, h)
      BY <1>2, <1>3, <1>11, <2>7, OverlapIsMutual
    <3> QED BY <1>10, <1>13, <3>1
  <2>9. \A j, k \in Elements(a) : j # k => ~Overlap(j, k)
    BY <2>2, <2>8 DEF ThinnedInv
  <2>10. \A i \in D : \/ i \in Elements(Tail(order)) \cup Elements(a)
                      \/ \E k \in Elements(a) : Detector!Before(k, i) /\ Overlap(i, k)
    BY <1>3, <1>11, <2>2 DEF ThinnedInv
  <2>11. Elements(order)' = Elements(Tail(order)) /\ Elements(retained)' = Elements(a)
    BY <1>1, <2>1 DEF Elements
  <2> QED BY <1>1, <1>2, <1>3, <1>5, <1>6, <1>8, <1>11, <2>1, <2>2, <2>5, <2>6, <2>9, <2>10,
             <2>11 DEF ThinnedInv
<1> QED BY <1>12, <1>13

LEMMA DetectorStep ==
  ASSUME ImageHasSize, DetectorInv, [Detector!Next]_Detector!vars
  PROVE  DetectorInv'
<1>1. CASE UNCHANGED Detector!vars
  BY <1>1 DEF DetectorInv, RowsInv, CandidatesInv, ThinnedInv, Falls, Overlap, Elements,
              Detector!Before, Detector!Overlapping, Detector!Intersection, Detector!Larger,
              Detector!Smaller, Detector!vars
<1>2. CASE Detector!InferenceFails
  BY <1>2 DEF DetectorInv, RowsInv, CandidatesInv, Detector!InferenceFails
<1>3. CASE Detector!DecodeRow
  <2> DEFINE r == rows[decoded]
             box == Detector!Mapped(r)
  <2>1. /\ detector = "DECODE" /\ decoded <= Len(rows) /\ decoded' = decoded + 1
        /\ candidates' = IF Detector!Passes(r) THEN Append(candidates, box) ELSE candidates
        /\ UNCHANGED <<rows, order, retained, detector>>
    BY <1>3 DEF Detector!DecodeRow
  <2>2. RowsInv' /\ decoded \in DOMAIN rows /\ IsRow(r)
    BY <2>1 DEF DetectorInv, RowsInv
  <2>3. CandidatesInv'
    <3>1. CASE ~Detector!Passes(r)
      BY <2>1, <3>1 DEF DetectorInv, CandidatesInv
    <3>2. CASE Detector!Passes(r)
      <4>1. box \in Boxes /\ InImage(box) /\ IsOf(box, r)
        BY <2>2, <3>2, PassedIsInImage
      <4>2. candidates \in Seq(Boxes) /\ candidates' = Append(candidates, box)
        BY <2>1, <3>2 DEF DetectorInv, CandidatesInv
      <4> HIDE DEF box
      <4>3. /\ candidates' \in Seq(Boxes)
            /\ \A i \in DOMAIN candidates' :
                 i = Len(candidates) + 1 \/ i \in DOMAIN candidates
            /\ \A i \in DOMAIN candidates : candidates'[i] = candidates[i]
            /\ candidates'[Len(candidates) + 1] = box
        BY <4>1, <4>2, AppendedElements
      <4> QED BY <2>1, <2>2, <4>1, <4>3 DEF DetectorInv, CandidatesInv
    <3> QED BY <3>1, <3>2
  <2> QED BY <2>1, <2>2, <2>3 DEF DetectorInv
<1>4. CASE Detector!SortCandidates
  <2> DEFINE D == DOMAIN candidates
  <2>1. /\ detector = "DECODE" /\ detector' = "SUPPRESS" /\ retained = <<>> /\ retained' = <<>>
        /\ UNCHANGED <<rows, decoded, candidates>>
        /\ order' \in [D -> D] /\ Elements(order') = D
        /\ \A m, n \in D : m < n => Detector!Before(order'[m], order'[n])
    BY <1>4 DEF Detector!SortCandidates, Detector!ByObjectness, DetectorInv, Detector!Range,
                Elements
  <2>2. D = 1 .. Len(candidates) /\ Len(candidates) \in Nat
    BY DEF DetectorInv, CandidatesInv
  <2> HIDE DEF D
  <2>3. order' \in Seq(D) /\ DOMAIN order' = D
    BY <2>1, <2>2, SeqDef
  <2>4. <<>> \in Seq(D) /\ DOMAIN <<>> = {}
    OBVIOUS
  <2>5. Falls(order)' /\ Falls(retained)'
    BY <2>1, <2>3, <2>4 DEF Falls, Detector!Before
  <2>6. Elements(retained)' = {} /\ Elements(order)' = D
    BY <2>1, <2>4 DEF Elements
  <2>7. DOMAIN candidates' = D
    BY <2>1 DEF D
  <2>8. ThinnedInv'
    BY <2>1, <2>3, <2>4, <2>5, <2>6, <2>7 DEF ThinnedInv
  <2> QED BY <2>1, <2>8 DEF DetectorInv, RowsInv, CandidatesInv
<1>5. CASE Detector!Suppress
  <2>1. ThinnedInv'
    BY <1>5, SuppressStep DEF DetectorInv, Detector!Suppress
  <2> QED BY <1>5, <2>1 DEF DetectorInv, RowsInv, CandidatesInv, Detector!Suppress
<1>6. CASE Detector!Finish
  <2>1. UNCHANGED <<rows, decoded, candidates, order, retained>> /\ detector' = "DONE"
        /\ detector = "SUPPRESS" /\ order = <<>>
    BY <1>6 DEF Detector!Finish
  <2>2. ThinnedInv'
    BY <2>1 DEF DetectorInv, ThinnedInv, Falls, Overlap, Elements, Detector!Before,
                Detector!Overlapping, Detector!Intersection, Detector!Larger, Detector!Smaller
  <2> QED BY <2>1, <2>2 DEF DetectorInv, RowsInv, CandidatesInv
<1> QED BY <1>1, <1>2, <1>3, <1>4, <1>5, <1>6 DEF Detector!Next

LEMMA DetectorInvIsSound ==
  DetectorInv => Detector!ArmorsAreDetectedOnce /\ Detector!DetectionsAreInTheImage
<1> SUFFICES ASSUME DetectorInv
             PROVE  Detector!ArmorsAreDetectedOnce /\ Detector!DetectionsAreInTheImage
  OBVIOUS
<1>1. Detector!DetectionsAreInTheImage
  <2>1. \A i \in DOMAIN candidates :
          InImage(candidates[i]) /\ \E r \in Detector!Range(rows) : IsOf(candidates[i], r)
    BY DEF DetectorInv, CandidatesInv, Detector!Range
  <2> QED BY <2>1 DEF Detector!DetectionsAreInTheImage, Detector!Range, InImage, IsOf
<1>2. ASSUME detector = "DONE"
      PROVE  /\ \A j, k \in Elements(retained) : j # k => ~Overlap(j, k)
             /\ \A i \in DOMAIN candidates \ Elements(retained) :
                  \E k \in Elements(retained) :
                    candidates[k].objectness >= candidates[i].objectness /\ Overlap(i, k)
             /\ \A m, n \in DOMAIN retained :
                  m < n => candidates[retained[m]].objectness >= candidates[retained[n]].objectness
  <2>1. candidates \in Seq(Boxes) /\ ThinnedInv /\ Elements(order) = {}
    BY <1>2 DEF DetectorInv, CandidatesInv, Elements
  <2>2. \A k \in Elements(retained) : k \in DOMAIN candidates
    BY <2>1 DEF ThinnedInv, Elements
  <2>3. \A m \in DOMAIN retained : retained[m] \in DOMAIN candidates
    BY <2>1 DEF ThinnedInv
  <2>4. \A i, j \in DOMAIN candidates : Detector!Before(i, j) =>
          candidates[i].objectness >= candidates[j].objectness
    BY <2>1, BeforeIsAnOrder
  <2> QED BY <2>1, <2>2, <2>3, <2>4 DEF ThinnedInv, Falls
<1>3. Elements(retained) = Detector!Range(retained)
  BY DEF Elements, Detector!Range
<1>4. Detector!ArmorsAreDetectedOnce
  BY <1>2, <1>3 DEF Detector!ArmorsAreDetectedOnce, Overlap
<1> QED BY <1>1, <1>4

\* armor_detector_postprocess.cpp: every armor of the image is handed on once, best first,
\* and lies in the image.
THEOREM ArmorsAreOfTheImage ==
  ASSUME ImageHasSize
  PROVE  /\ Detector!Spec => []Detector!ArmorsAreDetectedOnce
         /\ Detector!Spec => []Detector!DetectionsAreInTheImage
BY DetectorInit, DetectorStep, DetectorInvIsSound, PTL DEF Detector!Spec

-----------------------------------------------------------------------------
(* The detection of light bars. *)

CONSTANTS
  MaximumCandidates, FixedThreshold, ReferenceOffset, MinThreshold, MaxThreshold,
  MinimumColorDifference, Brightness, MaxContours, Differences, Areas
VARIABLES barStep, threshold, contours, passed, bars
Lightbars == INSTANCE LightbarDetection WITH step <- barStep, result <- bars

\* A number of bars is kept, and scores are numbers.
ScoresAreNumbers ==
  /\ MaximumCandidates \in Nat
  /\ \A d \in Differences, a \in Areas : d * a \in Int

Bars == [input_index : Nat, score : Int]

\* The lightbars are the best of those that passed, numbered from 0.
AreTheBest(lightbars) ==
  /\ \A i \in DOMAIN lightbars : lightbars[i].input_index = i - 1
  /\ Len(lightbars) = Len(Lightbars!Cut(passed))
  /\ \E better \in SUBSET DOMAIN passed :
       /\ Cardinality(better) = Len(lightbars)
       /\ \A i \in better : \E j \in DOMAIN lightbars :
            lightbars[j].score = passed[i].score
       /\ \A i \in better, j \in DOMAIN passed \ better :
            passed[i].score >= passed[j].score
       /\ \A i \in DOMAIN lightbars :
            Cardinality({j \in better : passed[j].score >= lightbars[i].score}) >= i

\* So are the first ones by falling score.
LEMMA BestFirst ==
  ASSUME ScoresAreNumbers, passed \in Seq(Bars), NEW places \in Lightbars!ByScore,
         NEW lightbars,
         lightbars = Lightbars!Numbered(Lightbars!Cut([i \in DOMAIN passed |-> passed[places[i]]]))
  PROVE  AreTheBest(lightbars)
<1> DEFINE n == Len(passed)
           k == IF n > MaximumCandidates THEN MaximumCandidates ELSE n
           D == DOMAIN passed
           sorted == [i \in D |-> passed[places[i]]]
           Score(i) == passed[i].score
<1>1. n \in Nat /\ D = 1 .. n /\ \A i \in D : passed[i] \in Bars
  OBVIOUS
<1>2. \A i \in D : Score(i) \in Int
  BY <1>1 DEF Bars
<1>3. k \in Nat /\ k <= n
  BY <1>1 DEF ScoresAreNumbers
<1>4. /\ places \in [D -> D] /\ {places[i] : i \in D} = D
      /\ \A i, j \in D : i < j => Score(places[i]) >= Score(places[j])
  BY DEF Lightbars!ByScore, Lightbars!Range
<1>5. sorted \in Seq(Bars) /\ Len(sorted) = n /\ \A i \in D : sorted[i] = passed[places[i]]
  <2>1. sorted \in [1 .. n -> Bars]
    BY <1>1, <1>4
  <2> HIDE DEF sorted
  <2>2. sorted \in Seq(Bars) /\ Len(sorted) = n
    BY <1>1, <2>1, SeqDef
  <2> QED BY <2>2 DEF sorted
<1>6. places \in Surjection(D, D) /\ IsFiniteSet(D)
  <2>1. IsFiniteSet(D)
    BY <1>1, IndicesAreCounted
  <2> QED BY <1>4, <2>1 DEF Surjection
<1>7. places \in Injection(D, D)
  BY <1>6, FS_SurjSameCardinalityImpliesInj
<1> HIDE DEF D, sorted, Score, n
<1>8. Lightbars!Cut(sorted) = SubSeq(sorted, 1, k) /\ Lightbars!Cut(passed) = SubSeq(passed, 1, k)
  BY <1>5 DEF Lightbars!Cut, n
<1> HIDE DEF k
<1>9. \A i \in 1 .. k : i \in D
  BY <1>1, <1>3
<1>10. /\ Len(SubSeq(passed, 1, k)) = k
       /\ Len(SubSeq(sorted, 1, k)) = k /\ DOMAIN SubSeq(sorted, 1, k) = 1 .. k
       /\ \A i \in 1 .. k : SubSeq(sorted, 1, k)[i] = sorted[i]
  <2>1. /\ \A i \in 1 .. k : passed[i] \in Bars
        /\ \A i \in 1 .. k : sorted[i] \in Bars
    BY <1>1, <1>4, <1>5, <1>9
  <2>2. /\ SubSeq(passed, 1, k) \in Seq(Bars)
        /\ Len(SubSeq(passed, 1, k)) = IF 1 <= k THEN k - 1 + 1 ELSE 0
    BY <1>3, <2>1, SubSeqProperties
  <2>3. /\ SubSeq(sorted, 1, k) \in Seq(Bars)
        /\ Len(SubSeq(sorted, 1, k)) = IF 1 <= k THEN k - 1 + 1 ELSE 0
        /\ \A i \in 1 .. k - 1 + 1 : SubSeq(sorted, 1, k)[i] = sorted[1 + i - 1]
    BY <1>3, <2>1, SubSeqProperties
  <2>4. DOMAIN SubSeq(sorted, 1, k) = 1 .. Len(SubSeq(sorted, 1, k))
    BY <2>3
  <2> QED BY <1>3, <2>2, <2>3, <2>4
<1>11. lightbars = [i \in 1 .. k |-> [sorted[i] EXCEPT !.input_index = i - 1]]
  <2> DEFINE c == SubSeq(sorted, 1, k)
  <2>1. lightbars = Lightbars!Numbered(c)
    BY <1>8 DEF sorted, D
  <2>2. DOMAIN c = 1 .. k /\ \A i \in 1 .. k : c[i] = sorted[i]
    BY <1>10
  <2> HIDE DEF c
  <2>3. lightbars = [i \in DOMAIN c |-> [c[i] EXCEPT !.input_index = i - 1]]
    BY <2>1 DEF Lightbars!Numbered
  <2> QED BY <2>2, <2>3
<1>12. \A i \in 1 .. k : lightbars[i].input_index = i - 1 /\ lightbars[i].score = Score(places[i])
  <2> SUFFICES ASSUME NEW i \in 1 .. k
               PROVE  /\ lightbars[i].input_index = i - 1
                      /\ lightbars[i].score = Score(places[i])
    OBVIOUS
  <2>1. lightbars[i] = [sorted[i] EXCEPT !.input_index = i - 1]
    BY <1>11
  <2>2. sorted[i] = passed[places[i]] /\ sorted[i] \in Bars
    BY <1>1, <1>4, <1>5, <1>9
  <2> QED BY <2>1, <2>2 DEF Bars, Score
<1>13. DOMAIN lightbars = 1 .. k /\ Len(lightbars) = k
  BY <1>3, <1>11
<1> DEFINE First(m) == {places[i] : i \in 1 .. m}
<1>14. ASSUME NEW m \in 0 .. k
       PROVE  First(m) \subseteq D /\ IsFiniteSet(First(m)) /\ Cardinality(First(m)) = m
  <2> DEFINE f == [i \in 1 .. m |-> places[i]]
  <2>1. \A i \in 1 .. m : i \in D
    BY <1>3, <1>9
  <2>2. f \in Bijection(1 .. m, First(m))
    <3>1. \A i, j \in 1 .. m : places[i] = places[j] => i = j
      BY <1>7, <2>1 DEF Injection, IsInjective
    <3>2. f \in [1 .. m -> First(m)] /\ \A i \in 1 .. m : f[i] = places[i]
      OBVIOUS
    <3>3. \A t \in First(m) : \E i \in 1 .. m : f[i] = t
      OBVIOUS
    <3> HIDE DEF f, First
    <3>4. DOMAIN f = 1 .. m /\ \A i, j \in DOMAIN f : f[i] = f[j] => i = j
      BY <3>1, <3>2
    <3>5. f \in Injection(1 .. m, First(m))
      BY <3>2, <3>4 DEF Injection, IsInjective
    <3>6. f \in Surjection(1 .. m, First(m))
      BY <3>2, <3>3 DEF Surjection
    <3> QED BY <3>5, <3>6 DEF Bijection
  <2>3. IsFiniteSet(1 .. m) /\ Cardinality(1 .. m) = m
    <3>1. m \in Nat
      BY <1>3
    <3> HIDE DEF f, k, First
    <3> QED BY <3>1, IndicesAreCounted
  <2>4. IsFiniteSet(First(m)) /\ Cardinality(First(m)) = Cardinality(1 .. m)
    <3>1. ExistsBijection(1 .. m, First(m))
      BY <2>2 DEF ExistsBijection
    <3> HIDE DEF First
    <3> QED BY <2>3, <3>1, FS_Bijection
  <2>5. First(m) \subseteq D
    BY <1>4, <2>1
  <2> QED BY <2>3, <2>4, <2>5
<1>15. First(k) \in SUBSET D /\ Cardinality(First(k)) = k
  <2>1. k \in 0 .. k
    BY <1>3
  <2> HIDE DEF First
  <2> QED BY <1>14, <2>1
<1>16. \A i \in First(k) : \E j \in 1 .. k : lightbars[j].score = Score(i)
  BY <1>12
<1>17. \A i \in First(k), j \in D \ First(k) : Score(i) >= Score(j)
  <2> SUFFICES ASSUME NEW i \in First(k), NEW j \in D \ First(k) PROVE Score(i) >= Score(j)
    OBVIOUS
  <2>1. PICK a \in 1 .. k : i = places[a]
    OBVIOUS
  <2>2. PICK b \in D : j = places[b]
    BY <1>4
  <2>3. b \notin 1 .. k
    BY <2>2
  <2>4. a < b /\ a \in D
    BY <1>1, <1>3, <1>9, <2>3
  <2> QED BY <1>4, <2>1, <2>2, <2>4
<1>18. \A i \in 1 .. k : Cardinality({j \in First(k) : Score(j) >= lightbars[i].score}) >= i
  <2> SUFFICES ASSUME NEW i \in 1 .. k
               PROVE  Cardinality({j \in First(k) : Score(j) >= lightbars[i].score}) >= i
    OBVIOUS
  <2> DEFINE T == {j \in First(k) : Score(j) >= lightbars[i].score}
  <2>1. IsFiniteSet(First(k)) /\ T \in SUBSET First(k)
    BY <1>3, <1>14
  <2>2. First(i) \in SUBSET T
    <3> SUFFICES ASSUME NEW a \in 1 .. i PROVE places[a] \in T
      OBVIOUS
    <3>1. a \in 1 .. k /\ (a < i \/ a = i)
      BY <1>3
    <3>2. Score(places[a]) >= Score(places[i])
      <4>1. i \in D /\ a \in D
        BY <1>9, <3>1
      <4>2. Score(places[i]) \in Int
        BY <1>2, <1>4, <4>1
      <4> QED BY <1>4, <3>1, <4>1, <4>2
    <3> QED BY <1>12, <3>1, <3>2
  <2>3. IsFiniteSet(T)
    BY <2>1, FS_Subset
  <2>4. Cardinality(First(i)) = i /\ Cardinality(First(i)) <= Cardinality(T)
    <3>1. i \in 0 .. k
      BY <1>3
    <3>2. Cardinality(First(i)) = i
      BY <1>14, <3>1
    <3> HIDE DEF First, T
    <3> QED BY <2>2, <2>3, <3>2, FS_Subset
  <2>5. Cardinality(T) \in Nat
    BY <2>3, FS_CardinalityType
  <2> HIDE DEF First, T
  <2> QED BY <2>4, <2>5 DEF T
<1> HIDE DEF First
<1>19. \E better \in SUBSET D :
         /\ Cardinality(better) = k
         /\ \A i \in better : \E j \in 1 .. k : lightbars[j].score = Score(i)
         /\ \A i \in better, j \in D \ better : Score(i) >= Score(j)
         /\ \A i \in 1 .. k : Cardinality({j \in better : Score(j) >= lightbars[i].score}) >= i
  BY <1>15, <1>16, <1>17, <1>18
<1>20. Len(lightbars) = Len(Lightbars!Cut(passed))
  BY <1>8, <1>10, <1>13
<1> QED BY <1>12, <1>13, <1>19, <1>20 DEF AreTheBest, D, Score

BarsInv ==
  /\ passed \in Seq(Bars)
  /\ barStep = "FILTER" =>
       /\ contours \in Seq(Lightbars!Contour)
  /\ Lightbars!BestLightbarsAreNumbered

LEMMA NoBarsAtAll == <<>> \in Seq(Bars) /\ DOMAIN <<>> = {}
  OBVIOUS

LEMMA BarsInit == Lightbars!Init => BarsInv
  BY NoBarsAtAll DEF Lightbars!Init, BarsInv, Lightbars!BestLightbarsAreNumbered

\* Nothing is found when anything was wrong.
LEMMA NoBars ==
  ASSUME NEW reason, reason # "", bars' = Lightbars!NoLightbars(reason)
  PROVE  Lightbars!BestLightbarsAreNumbered'
<1>1. bars'.lightbars = <<>> /\ bars'.reason = reason
  BY DEF Lightbars!NoLightbars
<1> QED BY <1>1, NoBarsAtAll DEF Lightbars!BestLightbarsAreNumbered

LEMMA BarsStep ==
  ASSUME ScoresAreNumbers, BarsInv, [Lightbars!Next]_Lightbars!vars
  PROVE  BarsInv'
<1>1. CASE UNCHANGED Lightbars!vars
  BY <1>1 DEF BarsInv, Lightbars!vars, Lightbars!BestLightbarsAreNumbered, Lightbars!Cut
<1>2. CASE Lightbars!Refuse
  <2>1. PICK reason \in {"disabled", "invalid_image"} : bars' = Lightbars!NoLightbars(reason)
    BY <1>2 DEF Lightbars!Refuse
  <2>2. Lightbars!BestLightbarsAreNumbered'
    BY <2>1, NoBars
  <2> QED BY <1>2, <2>2 DEF BarsInv, Lightbars!Refuse
<1>3. CASE Lightbars!ChooseThreshold
  BY <1>3 DEF BarsInv, Lightbars!ChooseThreshold, Lightbars!BestLightbarsAreNumbered
<1>4. CASE Lightbars!FindContours
  <2>1. PICK n \in 0 .. MaxContours : contours' \in [1 .. n -> Lightbars!Contour]
    BY <1>4 DEF Lightbars!FindContours
  <2>2. n \in Nat
    OBVIOUS
  <2>3. contours' \in Seq(Lightbars!Contour)
    BY <2>1, <2>2, SeqDef
  <2> QED BY <1>4, <2>3 DEF BarsInv, Lightbars!FindContours, Lightbars!BestLightbarsAreNumbered
<1>5. CASE Lightbars!FilterContour
  <2> DEFINE h == Head(contours)
             new == Lightbars!Lightbar(h, Len(passed))
  <2>1. /\ barStep = "FILTER" /\ contours # <<>> /\ barStep' = "FILTER"
        /\ passed' = (IF Lightbars!Accepted(h) THEN Append(passed, new) ELSE passed)
        /\ contours' = Tail(contours)
    BY <1>5 DEF Lightbars!FilterContour
  <2>2. contours \in Seq(Lightbars!Contour) /\ passed \in Seq(Bars)
    BY <2>1 DEF BarsInv
  <2>3. h \in Lightbars!Contour /\ contours' \in Seq(Lightbars!Contour)
    BY <2>1, <2>2
  <2>4. new \in Bars
    <3>1. h.difference * h.area \in Int
      BY <2>3 DEF Lightbars!Contour, ScoresAreNumbers
    <3>2. Len(passed) \in Nat
      BY <2>2
    <3>3. new = [input_index |-> Len(passed), score |-> h.difference * h.area]
      BY DEF Lightbars!Lightbar
    <3> HIDE DEF h, new
    <3> QED BY <3>1, <3>2, <3>3 DEF Bars
  <2> HIDE DEF new, h
  <2>5. passed' \in Seq(Bars)
    BY <2>1, <2>2, <2>4
  <2> QED BY <2>1, <2>3, <2>5 DEF BarsInv, Lightbars!BestLightbarsAreNumbered
<1>6. CASE Lightbars!EndFilter
  BY <1>6 DEF BarsInv, Lightbars!EndFilter, Lightbars!BestLightbarsAreNumbered
<1>7. CASE Lightbars!Return
  <2>1. PICK places \in Lightbars!ByScore :
          bars' = [lightbars |-> Lightbars!Numbered(Lightbars!Cut(
                                   [i \in DOMAIN passed |-> passed[places[i]]])),
                   reason |-> ""]
    BY <1>7 DEF Lightbars!Return
  <2>2. barStep' = "DONE" /\ passed' = passed /\ passed \in Seq(Bars)
    BY <1>7 DEF Lightbars!Return, BarsInv
  <2>3. PICK lightbars :
          lightbars = Lightbars!Numbered(Lightbars!Cut([i \in DOMAIN passed |-> passed[places[i]]]))
    OBVIOUS
  <2>4. bars'.lightbars = lightbars /\ bars'.reason = ""
    BY <2>1, <2>3
  <2>5. AreTheBest(lightbars)
    BY <2>2, <2>3, BestFirst
  <2>6. Lightbars!Cut(passed)' = Lightbars!Cut(passed)
    BY <2>2 DEF Lightbars!Cut
  <2>7. \A S : Lightbars!Cardinality(S) = Cardinality(S)
    BY DEF Lightbars!Cardinality, Cardinality
  <2>8. Lightbars!BestLightbarsAreNumbered'
    BY <2>2, <2>4, <2>5, <2>6, <2>7 DEF AreTheBest, Lightbars!BestLightbarsAreNumbered
  <2> QED BY <2>2, <2>8 DEF BarsInv
<1>8. CASE Lightbars!Throw
  <2>1. Lightbars!BestLightbarsAreNumbered'
    BY <1>8, NoBars DEF Lightbars!Throw
  <2> QED BY <1>8, <2>1 DEF BarsInv, Lightbars!Throw
<1> QED BY <1>1, <1>2, <1>3, <1>4, <1>5, <1>6, <1>7, <1>8 DEF Lightbars!Next

\* armor_light_detector.cpp: the bars handed on are the best, and numbered.
THEOREM BestBarsAreNumbered ==
  ASSUME ScoresAreNumbers
  PROVE  Lightbars!Spec => []Lightbars!BestLightbarsAreNumbered
<1>1. BarsInv => Lightbars!BestLightbarsAreNumbered
  BY DEF BarsInv
<1> QED BY <1>1, BarsInit, BarsStep, PTL DEF Lightbars!Spec

-----------------------------------------------------------------------------
(* The refinement of corners: the search along a scan line. *)

CONSTANTS MinBrightness, MinWidth, Widths, Means, Profiles
VARIABLES light, width, mean, lightStatus, corners, found, lines, cornerStep, refined
Corners == INSTANCE CornerRefinement WITH
  status <- lightStatus, step <- cornerStep, result <- refined

\* Brightness is counted.
BrightnessIsCounted ==
  Means \subseteq Int /\ Profiles \subseteq Seq(Int)

\* A set of places that is not empty has a first one.
LEMMA FirstPlace ==
  ASSUME NEW S, S \subseteq Nat, S # {}
  PROVE  \E i \in S : \A j \in S : i <= j
<1> DEFINE R == OpToRel(<, Nat)
<1>1. PICK x \in S : \A y \in S : ~ (<<y, x>> \in R)
  <2> HIDE DEF R
  <2>1. IsWellFoundedOn(R, Nat)
    BY NatLessThanWellFounded DEF R
  <2> QED BY <2>1, WFMin
<1>2. \A y \in S : ~(y < x)
  BY <1>1 DEF OpToRel
<1> HIDE DEF R
<1> QED BY <1>2

\* One pixel further: the steepest drop so far, and where it is.
Further(profile, b, i) ==
  LET drop == profile[i - 1] - profile[i]
  IN IF Corners!Brighter(drop, b.drop) /\ profile[i - 1] > mean
     THEN [drop |-> drop, at |-> i - 1] ELSE b

Start == [drop |-> 0, at |-> 0]

\* best tells the steepest drop before each pixel up to n.
IsSearch(profile, best, n) ==
  best = [i \in 0 .. n |-> IF i <= 1 THEN Start ELSE Further(profile, best[i - 1], i)]

\* The search can be done, to any length.
LEMMA SearchExists ==
  ASSUME NEW profile, NEW n \in Nat
  PROVE  \E best : IsSearch(profile, best, n)
<1> DEFINE Fails == {m \in Nat : ~ \E best : IsSearch(profile, best, m)}
<1> SUFFICES ASSUME Fails # {} PROVE FALSE
  OBVIOUS
<1>1. PICK m \in Fails : \A j \in Fails : m <= j
  BY FirstPlace
<1>2. m \in Nat /\ ~ \E best : IsSearch(profile, best, m)
  OBVIOUS
<1>3. CASE m = 0
  <2> DEFINE f == [i \in 0 .. 0 |-> Start]
  <2>1. \A i \in 0 .. 0 : i <= 1
    OBVIOUS
  <2>2. IsSearch(profile, f, 0)
    BY <2>1 DEF IsSearch
  <2> QED BY <1>2, <1>3, <2>2
<1>4. CASE m > 0
  <2>1. m - 1 \in Nat /\ m - 1 \notin Fails
    BY <1>1, <1>2, <1>4
  <2>2. PICK g : IsSearch(profile, g, m - 1)
    BY <2>1
  <2> DEFINE last == IF m <= 1 THEN Start ELSE Further(profile, g[m - 1], m)
             f == [i \in 0 .. m |-> IF i = m THEN last ELSE g[i]]
  <2>3. \A i \in 0 .. m : i # m => i \in 0 .. m - 1
    BY <1>2
  <2>4. \A i \in 0 .. m - 1 : /\ i # m /\ i \in 0 .. m
                              /\ g[i] = IF i <= 1 THEN Start ELSE Further(profile, g[i - 1], i)
    <3>1. \A i \in 0 .. m - 1 : i # m /\ i \in 0 .. m
      BY <1>2
    <3>2. g = [i \in 0 .. m - 1 |-> IF i <= 1 THEN Start ELSE Further(profile, g[i - 1], i)]
      BY <2>2 DEF IsSearch
    <3> QED BY <3>1, <3>2
  <2>5. \A i \in 0 .. m : ~(i <= 1) => i - 1 \in 0 .. m - 1 /\ f[i - 1] = g[i - 1]
    <3>1. \A i \in 0 .. m : ~(i <= 1) => i - 1 \in 0 .. m - 1
      BY <1>2
    <3> QED BY <2>4, <3>1
  <2>6. \A i \in 0 .. m :
          f[i] = IF i <= 1 THEN Start ELSE Further(profile, f[i - 1], i)
    <3> SUFFICES ASSUME NEW i \in 0 .. m
                 PROVE  f[i] = IF i <= 1 THEN Start ELSE Further(profile, f[i - 1], i)
      OBVIOUS
    <3>1. CASE i = m
      <4>1. f[i] = last
        BY <3>1
      <4>2. CASE i <= 1
        BY <3>1, <4>1, <4>2
      <4>3. CASE ~(i <= 1)
        <5>1. f[i - 1] = g[m - 1]
          BY <2>5, <3>1, <4>3
        <5> HIDE DEF f
        <5> QED BY <3>1, <4>1, <4>3, <5>1
      <4> QED BY <4>2, <4>3
    <3>2. CASE i # m
      <4>1. f[i] = g[i] /\ i \in 0 .. m - 1
        BY <2>3, <3>2
      <4>2. CASE i <= 1
        BY <2>4, <4>1, <4>2
      <4>3. CASE ~(i <= 1)
        <5>1. f[i - 1] = g[i - 1]
          BY <2>5, <4>3
        <5> HIDE DEF f
        <5> QED BY <2>4, <4>1, <4>3, <5>1
      <4> QED BY <4>2, <4>3
    <3> QED BY <3>1, <3>2
  <2>7. f = [i \in 0 .. m |-> f[i]]
    OBVIOUS
  <2> HIDE DEF f
  <2>8. IsSearch(profile, f, m)
    BY <2>6, <2>7 DEF IsSearch
  <2> QED BY <1>2, <2>8
<1> QED BY <1>2, <1>3, <1>4

\* The reference: where a pixel brighter than its surroundings drops.
Drop(profile, i) == profile[i] - profile[i + 1]

Drops(profile, m) ==
  {i \in 1 .. m - 1 : profile[i] > mean /\ profile[i + 1] < profile[i]}

\* b is the first of the steepest drops before pixel m.
IsSteepest(profile, b, m) ==
  IF Drops(profile, m) = {} THEN b = Start
  ELSE /\ b.at \in Drops(profile, m) /\ b = [drop |-> Drop(profile, b.at), at |-> b.at]
       /\ \A i \in Drops(profile, m) :
            Drop(profile, i) < b.drop \/ (Drop(profile, i) = b.drop /\ b.at <= i)

\* One pixel further it is so again.
LEMMA FurtherIsSteepest ==
  ASSUME NEW profile \in Seq(Int), mean \in Int, NEW m \in 2 .. Len(profile),
         NEW b, IsSteepest(profile, b, m - 1)
  PROVE  IsSteepest(profile, Further(profile, b, m), m)
<1> DEFINE p == profile[m - 1]
           q == profile[m]
           D == Drops(profile, m - 1)
           E == Drops(profile, m)
<1>1. m \in Int /\ m >= 2 /\ p \in Int /\ q \in Int
  <2>1. m - 1 \in 1 .. Len(profile) /\ m \in 1 .. Len(profile)
    OBVIOUS
  <2> QED BY <2>1
<1>2. Drop(profile, m - 1) = p - q
  <2>1. (m - 1) + 1 = m
    BY <1>1
  <2> QED BY <2>1 DEF Drop
<1>3. E = IF p > mean /\ q < p THEN D \cup {m - 1} ELSE D
  <2>1. \A i \in 1 .. m - 1 : i = m - 1 \/ i \in 1 .. (m - 1) - 1
    BY <1>1
  <2>2. \A i \in 1 .. (m - 1) - 1 : i \in 1 .. m - 1 /\ i # m - 1
    BY <1>1
  <2>3. m - 1 \in 1 .. m - 1 /\ (m - 1) + 1 = m
    BY <1>1
  <2>4. \A i : i \in E <=> i \in D \/ (i = m - 1 /\ p > mean /\ q < p)
    BY <2>1, <2>2, <2>3 DEF Drops
  <2> HIDE DEF D, E, p, q
  <2> QED BY <2>4
<1>4. \A i \in D : i \in Int /\ i < m - 1 /\ Drop(profile, i) \in Int /\ Drop(profile, i) > 0
  <2> SUFFICES ASSUME NEW i \in D
               PROVE  i \in Int /\ i < m - 1 /\ Drop(profile, i) \in Int /\ Drop(profile, i) > 0
    OBVIOUS
  <2>1. i \in 1 .. (m - 1) - 1 /\ profile[i + 1] < profile[i]
    BY DEF Drops
  <2>2. i \in 1 .. Len(profile) /\ i + 1 \in 1 .. Len(profile) /\ i < m - 1
    BY <1>1, <2>1
  <2>3. profile[i] \in Int /\ profile[i + 1] \in Int
    BY <2>2
  <2> QED BY <2>1, <2>2, <2>3 DEF Drop
<1>5. /\ D = {} => b = Start
      /\ D # {} => /\ b.at \in D /\ b = [drop |-> Drop(profile, b.at), at |-> b.at]
                   /\ \A i \in D : Drop(profile, i) < b.drop
                                   \/ (Drop(profile, i) = b.drop /\ b.at <= i)
  BY DEF IsSteepest
<1>6. b.drop \in Int /\ b.drop >= 0
  <2>1. CASE D = {}
    BY <1>5, <2>1 DEF Start
  <2>2. CASE D # {}
    BY <1>4, <1>5, <2>2
  <2> QED BY <2>1, <2>2
<1>7. Further(profile, b, m) = IF p - q > b.drop /\ p > mean
                               THEN [drop |-> p - q, at |-> m - 1] ELSE b
  BY DEF Further, Corners!Brighter
<1> HIDE DEF D, E, p, q
<1>8. CASE p - q > b.drop /\ p > mean
  <2> DEFINE c == [drop |-> p - q, at |-> m - 1]
  <2>1. E = D \cup {m - 1} /\ Further(profile, b, m) = c
    BY <1>1, <1>3, <1>6, <1>7, <1>8
  <2>2. c.at = m - 1 /\ c.drop = p - q
    OBVIOUS
  <2>3. \A i \in D : Drop(profile, i) < p - q
    <3> SUFFICES ASSUME NEW i \in D PROVE Drop(profile, i) < p - q
      OBVIOUS
    <3>1. Drop(profile, i) \in Int /\ Drop(profile, i) <= b.drop
      BY <1>4, <1>5, <1>6
    <3> QED BY <1>1, <1>6, <1>8, <3>1
  <2>4. c = [drop |-> Drop(profile, c.at), at |-> c.at]
    BY <1>2, <2>2
  <2> HIDE DEF c
  <2>5. \A i \in E : Drop(profile, i) < c.drop \/ (Drop(profile, i) = c.drop /\ c.at <= i)
    BY <1>1, <1>2, <2>1, <2>2, <2>3
  <2> QED BY <2>1, <2>2, <2>4, <2>5 DEF IsSteepest, E
<1>9. CASE ~(p - q > b.drop /\ p > mean)
  <2>1. Further(profile, b, m) = b
    BY <1>7, <1>9
  <2>2. CASE E = D
    BY <1>5, <2>1, <2>2 DEF IsSteepest, E
  <2>3. CASE E # D
    <3>1. E = D \cup {m - 1} /\ q < p /\ p > mean
      BY <1>3, <2>3
    <3>2. p - q <= b.drop /\ p - q > 0
      BY <1>1, <1>6, <1>9, <3>1
    <3>3. D # {}
      BY <1>1, <1>5, <3>2 DEF Start
    <3>4. b.at \in Int /\ b.at < m - 1
      BY <1>4, <1>5, <3>3
    <3>5. p - q < b.drop \/ (p - q = b.drop /\ b.at <= m - 1)
      BY <1>1, <1>6, <3>2, <3>4
    <3> QED BY <1>2, <1>5, <2>1, <3>1, <3>3, <3>5 DEF IsSteepest, E
  <2> QED BY <2>2, <2>3
<1> QED BY <1>8, <1>9

\* Edge finds the first of the steepest drops.
LEMMA EdgeIsTheSteepest ==
  ASSUME NEW profile \in Seq(Int), mean \in Int
  PROVE  LET drops == {i \in 1 .. Len(profile) - 1 :
                         profile[i] > mean /\ profile[i + 1] < profile[i]}
             edge == Corners!Edge(profile)
         IN IF drops = {} THEN edge = 0
            ELSE /\ edge \in drops
                 /\ \A i \in drops : \/ Drop(profile, i) < Drop(profile, edge)
                                     \/ Drop(profile, i) = Drop(profile, edge) /\ edge <= i
<1> DEFINE n == Len(profile)
           best == CHOOSE b : IsSearch(profile, b, n)
<1>1. n \in Nat
  OBVIOUS
<1>2. Corners!Edge(profile) = best[n].at
  BY DEF Corners!Edge, IsSearch, Further, Start
<1>3. IsSearch(profile, best, n)
  BY <1>1, SearchExists
<1> HIDE DEF best
<1>4. \A i \in 0 .. n : best[i] = IF i <= 1 THEN Start ELSE Further(profile, best[i - 1], i)
  BY <1>3 DEF IsSearch
<1> DEFINE Fails == {m \in 0 .. n : ~IsSteepest(profile, best[m], m)}
<1>5. Fails = {}
  <2> SUFFICES ASSUME Fails # {} PROVE FALSE
    OBVIOUS
  <2>1. Fails \subseteq Nat
    BY <1>1
  <2>2. PICK m \in Fails : \A j \in Fails : m <= j
    BY <2>1, FirstPlace
  <2>3. m \in 0 .. n /\ ~IsSteepest(profile, best[m], m)
    OBVIOUS
  <2>4. CASE m <= 1
    <3>1. best[m] = Start
      BY <1>4, <2>3, <2>4
    <3>2. Drops(profile, m) = {}
      BY <2>3, <2>4 DEF Drops
    <3> QED BY <2>3, <3>1, <3>2 DEF IsSteepest
  <2>5. CASE m > 1
    <3>1. m \in 2 .. n /\ m - 1 \in 0 .. n /\ m - 1 < m /\ m - 1 \in Int /\ m \in Int
      BY <1>1, <2>3, <2>5
    <3>2. m - 1 \notin Fails
      BY <2>2, <3>1
    <3>3. IsSteepest(profile, best[m - 1], m - 1)
      BY <3>1, <3>2
    <3>4. best[m] = Further(profile, best[m - 1], m)
      BY <1>4, <2>3, <2>5, <3>1
    <3> QED BY <2>3, <3>1, <3>3, <3>4, FurtherIsSteepest
  <2> QED BY <2>3, <2>4, <2>5
<1>6. IsSteepest(profile, best[n], n)
  BY <1>1, <1>5
<1> HIDE DEF Fails
<1>7. PICK b : b = best[n]
  OBVIOUS
<1>8. IsSteepest(profile, b, n) /\ Corners!Edge(profile) = b.at
  BY <1>2, <1>6, <1>7
<1>9. Start.at = 0
  BY DEF Start
<1>10. CASE Drops(profile, n) = {}
  BY <1>8, <1>9, <1>10 DEF IsSteepest, Drops
<1>11. CASE Drops(profile, n) # {}
  <2>1. b.at \in Drops(profile, n) /\ b.drop = Drop(profile, b.at)
        /\ \A i \in Drops(profile, n) :
             Drop(profile, i) < b.drop \/ (Drop(profile, i) = b.drop /\ b.at <= i)
    BY <1>8, <1>11 DEF IsSteepest
  <2> QED BY <1>8, <1>11, <2>1 DEF Drops
<1> QED BY <1>10, <1>11

\* Whatever is seen around it, the end of a bar is the steepest drop on every line.
LinesInv ==
  /\ mean \in Int
  /\ \A o \in DOMAIN lines : lines[o] \in Seq(Int)

\* Corners that are not the detector's are those that were found, and a bar that is done
\* without a failure has both its ends among them.
EndsInv ==
  /\ light \in 1 .. 3
  /\ lightStatus = [l \in Corners!Lights |-> lightStatus[l]]
  /\ corners = [corner \in Corners!Corner |-> corners[corner]]
  /\ found \subseteq Corners!Corner
  /\ \A corner \in Corners!Corner : corner \in found <=> corners[corner] # Corners!Original
  /\ \A l \in Corners!Lights : l < light /\ lightStatus[l] = "SUCCESS" =>
       <<l, "TOP">> \in found /\ <<l, "BOTTOM">> \in found
  /\ cornerStep \in {"BEGIN", "AXIS", "TOP", "BOTTOM"} => light \in Corners!Lights
  /\ cornerStep = "BOTTOM" => <<light, "TOP">> \in found
  /\ cornerStep = "FINISH" => light = 3

CornersInv == LinesInv /\ EndsInv /\ Corners!CornersAreOfOneKind

LEMMA CornersInvIsSound ==
  ASSUME CornersInv
  PROVE  Corners!CornersAreOfOneKind /\ Corners!EdgesAreTheSteepest
<1> SUFFICES ASSUME NEW o \in DOMAIN lines
             PROVE  LET profile == lines[o]
                        drops == {i \in 1 .. Len(profile) - 1 :
                                    profile[i] > mean /\ profile[i + 1] < profile[i]}
                        edge == Corners!Edge(profile)
                    IN IF drops = {} THEN edge = 0
                       ELSE /\ edge \in drops
                            /\ \A i \in drops :
                                 LET D(j) == profile[j] - profile[j + 1]
                                 IN D(i) < D(edge) \/ (D(i) = D(edge) /\ edge <= i)
  BY DEF CornersInv, Corners!EdgesAreTheSteepest
<1>1. lines[o] \in Seq(Int) /\ mean \in Int
  BY DEF CornersInv, LinesInv
<1> QED BY <1>1, EdgeIsTheSteepest DEF Drop

LEMMA NoLines == DOMAIN <<>> = {}
  OBVIOUS

LEMMA CornersInit ==
  ASSUME BrightnessIsCounted, Corners!Init
  PROVE  CornersInv
<1>1. LinesInv
  BY NoLines DEF Corners!Init, LinesInv
<1>2. EndsInv
  BY DEF Corners!Init, EndsInv, Corners!Unrefined, Corners!Corner, Corners!Lights, Corners!Original
<1>3. Corners!CornersAreOfOneKind
  BY DEF Corners!Init, Corners!CornersAreOfOneKind
<1> QED BY <1>1, <1>2, <1>3 DEF CornersInv

\* The lines are dropped, or are new ones.
LEMMA LinesStep ==
  ASSUME BrightnessIsCounted, LinesInv, Corners!Next
  PROVE  LinesInv'
<1>1. mean' \in Int
  BY DEF BrightnessIsCounted, LinesInv, Corners!Next, Corners!Refuse, Corners!Return,
         Corners!MakeLightbar, Corners!FindSymmetryAxis, Corners!FindEnd, Corners!Finish
<1>2. \A o \in DOMAIN lines' : lines'[o] \in Seq(Int)
  <2>1. CASE lines' = lines
    BY <2>1 DEF LinesInv
  <2>2. CASE lines' = <<>>
    BY <2>2, NoLines
  <2>3. CASE \E end \in {"TOP", "BOTTOM"} : Corners!FindEnd(end)
    <3>1. PICK scan \in [Corners!Offsets(width) -> Profiles] : lines' = scan
      BY <2>3 DEF Corners!FindEnd
    <3> QED BY <3>1 DEF BrightnessIsCounted
  <2> QED BY <2>1, <2>2, <2>3 DEF Corners!Next, Corners!Refuse, Corners!Return,
               Corners!MakeLightbar, Corners!FindSymmetryAxis, Corners!Finish
<1> QED BY <1>1, <1>2 DEF LinesInv

\* A bar that fails needs no ends.
LEMMA NextLightKeepsEnds ==
  ASSUME EndsInv, light \in Corners!Lights, NEW reason, Corners!NextLight(reason),
         reason = "SUCCESS" => <<light, "TOP">> \in found' /\ <<light, "BOTTOM">> \in found',
         found \subseteq found', found' \subseteq Corners!Corner,
         corners' = [corner \in Corners!Corner |-> corners'[corner]],
         \A corner \in Corners!Corner : corner \in found' <=> corners'[corner] # Corners!Original
  PROVE  EndsInv' /\ cornerStep' # "DONE"
<1>1. light' \in 1 .. 3 /\ (light' \in Corners!Lights <=> light = 1)
  BY DEF Corners!NextLight, Corners!Lights
<1>2. \A l \in Corners!Lights : lightStatus'[l] = IF l = light THEN reason ELSE lightStatus[l]
  BY DEF EndsInv, Corners!NextLight
<1>3. lightStatus' = [l \in Corners!Lights |-> lightStatus'[l]]
  BY DEF EndsInv, Corners!NextLight
<1>4. \A l \in Corners!Lights : l < light' /\ lightStatus'[l] = "SUCCESS" =>
        <<l, "TOP">> \in found' /\ <<l, "BOTTOM">> \in found'
  BY <1>2 DEF EndsInv, Corners!NextLight, Corners!Lights
<1>5. /\ cornerStep' \in {"BEGIN", "FINISH"}
      /\ cornerStep' = "BEGIN" => light' \in Corners!Lights
      /\ cornerStep' = "FINISH" => light' = 3
  BY <1>1 DEF Corners!NextLight, Corners!Lights
<1> QED BY <1>1, <1>3, <1>4, <1>5 DEF EndsInv

\* What is told at the end.
LEMMA ReturnIsOfOneKind ==
  ASSUME EndsInv, NEW reason, NEW places, Corners!Return(reason, places),
         reason = "SUCCESS" => found = Corners!Corner /\ places = corners,
         reason # "SUCCESS" =>
           /\ places = Corners!Unrefined
           /\ \E l \in Corners!Lights :
                /\ reason \in {lightStatus[l], "DISABLED", "INVALID_IMAGE", "INVALID_GEOMETRY"}
                /\ \A before \in 1 .. l - 1 : lightStatus[before] = "SUCCESS"
  PROVE  EndsInv' /\ Corners!CornersAreOfOneKind'
<1>1. EndsInv'
  BY DEF EndsInv, Corners!Return
<1>2. /\ refined'.refined <=> reason = "SUCCESS"
      /\ refined'.status = reason /\ refined'.corners = places
      /\ found' = found /\ lightStatus' = lightStatus /\ corners' = corners
  BY DEF Corners!Return
<1>3. CASE reason = "SUCCESS"
  <2>1. \A corner \in Corners!Corner : corners[corner] # Corners!Original
    BY <1>3 DEF EndsInv
  <2>2. refined'.refined /\ found' = Corners!Corner /\ refined'.corners = corners
    BY <1>2, <1>3
  <2> QED BY <1>1, <2>1, <2>2 DEF Corners!CornersAreOfOneKind
<1>4. CASE reason # "SUCCESS"
  <2>1. ~refined'.refined
    BY <1>2, <1>4
  <2>2. \A corner \in Corners!Corner : refined'.corners[corner] = Corners!Original
    BY <1>2, <1>4 DEF Corners!Unrefined
  <2>3. PICK l \in Corners!Lights :
          /\ refined'.status \in {lightStatus'[l], "DISABLED", "INVALID_IMAGE", "INVALID_GEOMETRY"}
          /\ \A before \in 1 .. l - 1 : lightStatus'[before] = "SUCCESS"
    BY <1>2, <1>4
  <2> QED BY <1>1, <2>1, <2>2, <2>3 DEF Corners!CornersAreOfOneKind
<1> QED BY <1>3, <1>4

LEMMA EndsStep ==
  ASSUME EndsInv, Corners!Next
  PROVE  EndsInv' /\ Corners!CornersAreOfOneKind'
<1>1. CASE Corners!Refuse
  <2>1. PICK reason \in {"DISABLED", "INVALID_IMAGE", "INVALID_GEOMETRY"} :
          Corners!Return(reason, Corners!Unrefined)
    BY <1>1 DEF Corners!Refuse
  <2>2. /\ reason # "SUCCESS" /\ 1 \in Corners!Lights
        /\ \A before \in 1 .. 1 - 1 : lightStatus[before] = "SUCCESS"
    BY DEF Corners!Lights
  <2>3. reason \in {lightStatus[1], "DISABLED", "INVALID_IMAGE", "INVALID_GEOMETRY"}
    OBVIOUS
  <2> QED BY <2>1, <2>2, <2>3, ReturnIsOfOneKind
<1>2. CASE Corners!Finish
  <2> DEFINE reason == IF lightStatus[1] # "SUCCESS" THEN lightStatus[1] ELSE lightStatus[2]
  <2>1. light = 3 /\ Corners!Return(reason, Corners!Final(reason))
    BY <1>2 DEF Corners!Finish, EndsInv
  <2>2. reason = "SUCCESS" => found = Corners!Corner
    BY <2>1 DEF EndsInv, Corners!Corner, Corners!Lights
  <2>3. CASE lightStatus[1] # "SUCCESS"
    <3>1. 1 \in Corners!Lights /\ \A before \in 1 .. 1 - 1 : lightStatus[before] = "SUCCESS"
      BY DEF Corners!Lights
    <3>2. reason = lightStatus[1]
      BY <2>3
    <3> HIDE DEF reason
    <3> QED BY <2>1, <2>2, <2>3, <3>1, <3>2, ReturnIsOfOneKind DEF Corners!Final
  <2>4. CASE lightStatus[1] = "SUCCESS"
    <3>1. 2 \in Corners!Lights /\ \A before \in 1 .. 2 - 1 : lightStatus[before] = "SUCCESS"
      BY <2>4 DEF Corners!Lights
    <3>2. reason = lightStatus[2]
      BY <2>4
    <3> HIDE DEF reason
    <3> QED BY <2>1, <2>2, <2>4, <3>1, <3>2, ReturnIsOfOneKind DEF Corners!Final
  <2> QED BY <2>3, <2>4
<1>3. CASE Corners!MakeLightbar
  <2>1. /\ light \in Corners!Lights /\ corners' = corners /\ found' = found
        /\ \/ \E r \in {"INVALID_GEOMETRY", "LIGHT_TOO_NARROW"} : Corners!NextLight(r)
           \/ cornerStep' = "AXIS" /\ UNCHANGED <<lightStatus, light>>
    BY <1>3 DEF EndsInv, Corners!MakeLightbar
  <2>2. CASE \E r \in {"INVALID_GEOMETRY", "LIGHT_TOO_NARROW"} : Corners!NextLight(r)
    BY <2>1, <2>2, NextLightKeepsEnds DEF EndsInv, Corners!CornersAreOfOneKind
  <2>3. CASE cornerStep' = "AXIS" /\ UNCHANGED <<lightStatus, light>>
    BY <2>1, <2>3 DEF EndsInv, Corners!CornersAreOfOneKind
  <2> QED BY <2>1, <2>2, <2>3
<1>4. CASE Corners!FindSymmetryAxis
  <2>1. /\ light \in Corners!Lights /\ corners' = corners /\ found' = found
        /\ \/ \E r \in Corners!AxisFailures \cup {"LIGHT_TOO_DARK"} : Corners!NextLight(r)
           \/ cornerStep' = "TOP" /\ UNCHANGED <<lightStatus, light>>
    BY <1>4 DEF EndsInv, Corners!FindSymmetryAxis
  <2>2. CASE \E r \in Corners!AxisFailures \cup {"LIGHT_TOO_DARK"} : Corners!NextLight(r)
    <3>1. PICK r \in Corners!AxisFailures \cup {"LIGHT_TOO_DARK"} : Corners!NextLight(r)
      BY <2>2
    <3>2. r # "SUCCESS"
      BY DEF Corners!AxisFailures
    <3> QED BY <2>1, <3>1, <3>2, NextLightKeepsEnds DEF EndsInv, Corners!CornersAreOfOneKind
  <2>3. CASE cornerStep' = "TOP" /\ UNCHANGED <<lightStatus, light>>
    BY <2>1, <2>3 DEF EndsInv, Corners!CornersAreOfOneKind
  <2> QED BY <2>1, <2>2, <2>3
<1>5. CASE \E end \in {"TOP", "BOTTOM"} : Corners!FindEnd(end)
  <2>1. PICK end \in {"TOP", "BOTTOM"} : Corners!FindEnd(end)
    BY <1>5
  <2>2. cornerStep = end /\ light \in Corners!Lights
    BY <2>1 DEF Corners!FindEnd, EndsInv
  <2>3. PICK corner :
          IF corner.count = 0
          THEN Corners!NextLight(Corners!NotFound[end]) /\ UNCHANGED <<corners, found>>
          ELSE /\ corners' = [corners EXCEPT ![<<light, end>>] = corner]
               /\ found' = found \cup {<<light, end>>}
               /\ IF end = "TOP" THEN cornerStep' = "BOTTOM" /\ UNCHANGED <<lightStatus, light>>
                  ELSE Corners!NextLight("SUCCESS")
    BY <2>1 DEF Corners!FindEnd
  <2>4. CASE corner.count = 0
    <3>1. Corners!NotFound[end] # "SUCCESS"
      BY DEF Corners!NotFound
    <3>2. PICK reason : reason = Corners!NotFound[end]
      OBVIOUS
    <3> QED BY <2>2, <2>3, <2>4, <3>1, <3>2, NextLightKeepsEnds
            DEF EndsInv, Corners!CornersAreOfOneKind
  <2>5. CASE corner.count # 0
    <3>1. corner # Corners!Original
      BY <2>5 DEF Corners!Original
    <3>2. <<light, end>> \in Corners!Corner
      BY <2>2 DEF Corners!Corner
    <3>3. /\ corners' = [c \in Corners!Corner |-> corners'[c]]
          /\ \A c \in Corners!Corner :
               corners'[c] = IF c = <<light, end>> THEN corner ELSE corners[c]
      BY <2>3, <2>5, <3>2 DEF EndsInv
    <3>4. /\ found \subseteq found' /\ found' \subseteq Corners!Corner /\ <<light, end>> \in found'
          /\ \A c \in Corners!Corner : c \in found' <=> corners'[c] # Corners!Original
      BY <2>3, <2>5, <3>1, <3>2, <3>3 DEF EndsInv
    <3>5. CASE end = "TOP"
      <4>1. cornerStep' = "BOTTOM" /\ lightStatus' = lightStatus /\ light' = light
        BY <2>3, <2>5, <3>5
      <4> QED BY <2>2, <3>3, <3>4, <3>5, <4>1 DEF EndsInv, Corners!CornersAreOfOneKind
    <3>6. CASE end = "BOTTOM"
      <4>1. Corners!NextLight("SUCCESS")
        BY <2>3, <2>5, <3>6
      <4>2. <<light, "TOP">> \in found' /\ <<light, "BOTTOM">> \in found'
        BY <2>2, <3>4, <3>6 DEF EndsInv
      <4> QED BY <2>2, <3>3, <3>4, <4>1, <4>2, NextLightKeepsEnds
              DEF Corners!CornersAreOfOneKind
    <3> QED BY <3>5, <3>6
  <2> QED BY <2>4, <2>5
<1> QED BY <1>1, <1>2, <1>3, <1>4, <1>5 DEF Corners!Next

\* Every step of the refiner keeps its invariant.
LEMMA CornersStep ==
  ASSUME BrightnessIsCounted, CornersInv, [Corners!Next]_(Corners!vars)
  PROVE  CornersInv'
<1>1. CASE Corners!Next
  BY <1>1, LinesStep, EndsStep DEF CornersInv
<1>2. CASE UNCHANGED Corners!vars
  BY <1>2 DEF Corners!vars, CornersInv, LinesInv, EndsInv, Corners!CornersAreOfOneKind
<1> QED BY <1>1, <1>2

\* armor_corner_refiner.cpp: all corners of a detection are found or none is replaced, and
\* each end is the steepest drop of its line.
THEOREM CornersAreTheBars ==
  ASSUME BrightnessIsCounted
  PROVE  /\ Corners!Spec => []Corners!CornersAreOfOneKind
         /\ Corners!Spec => []Corners!EdgesAreTheSteepest
BY CornersInit, CornersStep, CornersInvIsSound, PTL DEF Corners!Spec

-----------------------------------------------------------------------------
(* The evaluator of the simulation. *)

CONSTANTS Truths, Period, MaxEvaluated
VARIABLES evaluated, previous, counts, summary, evaluation, frames
Evaluator == INSTANCE SimulationEvaluator WITH
  sequence <- evaluated, snapshot <- summary, result <- evaluation, hist <- frames,
  MaxSequence <- MaxEvaluated

\* An armour was seen last in the last recorded frame just if that frame solved it; the
\* frames that threw since then are not recorded.
RecordInv ==
  /\ evaluated \in 0 .. MaxEvaluated
  /\ frames.last.sequence \in 0 .. evaluated
  /\ DOMAIN frames.last.poses \subseteq Evaluator!Key
  /\ frames.last.sequence = 0 => DOMAIN frames.last.poses = {}
  /\ \A key \in Evaluator!Key :
       /\ previous[key].at \in -1 .. frames.last.sequence
       /\ key \in DOMAIN frames.last.poses <=>
            previous[key].at # -1 /\ previous[key].at = frames.last.sequence
  /\ Evaluator!JitterIsBetweenNeighbours

\* The summary that is repeated was drawn up in the frame it names.
SummaryInv ==
  /\ DOMAIN frames.counts = 1 .. MaxEvaluated
  /\ evaluation.summary = summary
  /\ summary.sequence \in 0 .. evaluated
  /\ summary.sequence # 0 => summary.counts = frames.counts[summary.sequence]

EvaluatorInv == RecordInv /\ SummaryInv

LEMMA EvaluatorInit ==
  ASSUME MaxEvaluated \in Nat
  PROVE  Evaluator!Init => EvaluatorInv
<1> SUFFICES ASSUME Evaluator!Init PROVE RecordInv /\ SummaryInv
  BY DEF EvaluatorInv
<1>1. DOMAIN <<>> = {}
  OBVIOUS
<1>2. \A key \in Evaluator!Key : previous[key].at = -1
  BY DEF Evaluator!Init, Evaluator!Never
<1>3. evaluated = 0 /\ frames.last = [sequence |-> 0, poses |-> <<>>]
      /\ frames.before = [sequence |-> 0, poses |-> <<>>] /\ evaluation.jitter = {}
  BY DEF Evaluator!Init
<1>4. RecordInv
  BY <1>1, <1>2, <1>3 DEF RecordInv, Evaluator!JitterIsBetweenNeighbours
<1>5. SummaryInv
  BY DEF Evaluator!Init, SummaryInv
<1> QED BY <1>4, <1>5

\* A frame that is evaluated to the end.
LEMMA EvaluateKeepsInv ==
  ASSUME MaxEvaluated \in Nat, EvaluatorInv,
         NEW number \in evaluated + 1 .. MaxEvaluated, NEW armors, NEW stray,
         Evaluator!Evaluate(number, armors, stray)
  PROVE  EvaluatorInv'
<1> DEFINE poses == Evaluator!Poses(armors)
           last == frames.last
<1>1. /\ evaluated \in Nat /\ number \in Nat /\ number > evaluated /\ number <= MaxEvaluated
      /\ last.sequence \in Nat /\ last.sequence < number
  BY DEF EvaluatorInv, RecordInv
<1>2. DOMAIN poses \subseteq Evaluator!Key
  BY DEF Evaluator!Poses
<1>3. /\ evaluated' = number
      /\ frames'.last = [sequence |-> number, poses |-> poses]
      /\ frames'.before = last
  BY DEF Evaluator!Evaluate
<1>4. /\ previous' = [key \in Evaluator!Key |->
                        IF key \in DOMAIN poses THEN [at |-> number, candidate |-> poses[key]]
                        ELSE previous[key]]
      /\ evaluation'.jitter = {key \in DOMAIN poses : Evaluator!Consecutive(key, number)}
  BY DEF Evaluator!Evaluate, Evaluator!RecordAttempts
<1> HIDE DEF poses
<1>5. \A key \in Evaluator!Key :
        /\ previous[key].at \in -1 .. last.sequence
        /\ key \in DOMAIN last.poses <=> previous[key].at # -1 /\ previous[key].at = last.sequence
  BY DEF EvaluatorInv, RecordInv
<1>6. \A key \in Evaluator!Key :
        /\ previous'[key].at \in -1 .. number
        /\ key \in DOMAIN poses <=> previous'[key].at # -1 /\ previous'[key].at = number
  <2> SUFFICES ASSUME NEW key \in Evaluator!Key
               PROVE  /\ previous'[key].at \in -1 .. number
                      /\ key \in DOMAIN poses
                           <=> previous'[key].at # -1 /\ previous'[key].at = number
    OBVIOUS
  <2>1. previous'[key].at = IF key \in DOMAIN poses THEN number ELSE previous[key].at
    BY <1>4
  <2> QED BY <1>1, <1>5, <2>1
<1>7. \A key \in Evaluator!Key :
        Evaluator!Consecutive(key, number) <=> last.sequence + 1 = number /\ key \in DOMAIN last.poses
  BY <1>1, <1>5 DEF Evaluator!Consecutive
<1>8. Evaluator!JitterIsBetweenNeighbours'
  BY <1>2, <1>3, <1>4, <1>7 DEF Evaluator!JitterIsBetweenNeighbours
<1>9. RecordInv'
  BY <1>1, <1>2, <1>3, <1>6, <1>8 DEF RecordInv
<1>10. SummaryInv'
  <2> DEFINE counted == counts'
             drawn == Evaluator!PopulateSnapshot(number, counted)
  <2>1. /\ summary' = drawn /\ evaluation'.summary = drawn
        /\ frames'.counts = [frames.counts EXCEPT ![number] = counted]
    BY DEF Evaluator!Evaluate
  <2> HIDE DEF counted
  <2>2. drawn = [sequence |-> number, counts |-> counted] \/ drawn = summary
    BY DEF Evaluator!PopulateSnapshot
  <2> HIDE DEF drawn
  <2>3. CASE drawn = summary
    BY <1>1, <1>3, <2>1, <2>3 DEF EvaluatorInv, SummaryInv
  <2>4. CASE drawn = [sequence |-> number, counts |-> counted]
    BY <1>1, <1>3, <2>1, <2>4 DEF EvaluatorInv, SummaryInv
  <2> QED BY <2>2, <2>3, <2>4
<1> QED BY <1>9, <1>10 DEF EvaluatorInv

LEMMA EvaluatorStep ==
  ASSUME MaxEvaluated \in Nat, EvaluatorInv, [Evaluator!Next]_(Evaluator!vars)
  PROVE  EvaluatorInv'
<1>1. CASE Evaluator!Next
  <2>0. PICK number \in evaluated + 1 .. MaxEvaluated :
          \E armors, stray : \/ Evaluator!Evaluate(number, armors, stray)
                            \/ Evaluator!EvaluationThrows(number, armors, stray)
    BY <1>1 DEF Evaluator!Next, Evaluator!EvaluateFrame
  <2>1. PICK armors, stray : \/ Evaluator!Evaluate(number, armors, stray)
                             \/ Evaluator!EvaluationThrows(number, armors, stray)
    BY <2>0
  <2>2. CASE Evaluator!Evaluate(number, armors, stray)
    BY <2>2, EvaluateKeepsInv
  <2>3. CASE Evaluator!EvaluationThrows(number, armors, stray)
    <3>1. evaluated' = number /\ UNCHANGED <<previous, summary, evaluation, frames>>
      BY <2>3 DEF Evaluator!EvaluationThrows
    <3> QED BY <3>1 DEF EvaluatorInv, RecordInv, SummaryInv, Evaluator!JitterIsBetweenNeighbours
  <2> QED BY <2>1, <2>2, <2>3
<1>2. CASE UNCHANGED Evaluator!vars
  BY <1>2 DEF Evaluator!vars, EvaluatorInv, RecordInv, SummaryInv,
              Evaluator!JitterIsBetweenNeighbours
<1> QED BY <1>1, <1>2

\* What the invariant says of the jitter and of the summary.
LEMMA EvaluatorInvIsSound ==
  EvaluatorInv => Evaluator!JitterIsBetweenNeighbours /\ Evaluator!SummaryIsOfItsFrame
BY DEF EvaluatorInv, RecordInv, SummaryInv, Evaluator!SummaryIsOfItsFrame

\* simulation_evaluator.cpp: a pose trembles between neighbouring frames only, and a
\* repeated summary stays the one of the frame it names, whatever throws between.
THEOREM EvaluationsNameTheirFrames ==
  ASSUME MaxEvaluated \in Nat
  PROVE  /\ Evaluator!Spec => []Evaluator!JitterIsBetweenNeighbours
         /\ Evaluator!Spec => []Evaluator!SummaryIsOfItsFrame
BY EvaluatorInit, EvaluatorStep, EvaluatorInvIsSound, PTL DEF Evaluator!Spec

===============================================================================
