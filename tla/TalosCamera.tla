------------------------------ MODULE TalosCamera ------------------------------
(***************************************************************************)
(* Frames from the Talos simulator to the vision process.  The simulator   *)
(* (external) fills the pixels and the metadata of its slot and offers it  *)
(* by the protocol the command sink uses in the other direction; the       *)
(* camera opens the mapping, polls, takes a slot, checks the metadata and  *)
(* copies the pixels.  Every access to shared memory is a step.  The       *)
(* vision process may be killed between any two of them and started again. *)
(***************************************************************************)
EXTENDS TripleBuffer, Integers

CONSTANTS
  HeartbeatTimeout, \* timeouts.heartbeat_ms
  MaxFrames,        \* bound: frames the simulator publishes
  MaxClockSteps     \* bound: jumps of the system clock

ASSUME TalosAssumption ==
  /\ HeartbeatTimeout \in Nat \ {0}
  /\ MaxFrames \in Nat
  /\ MaxClockSteps \in Nat

\* The number of the publication a frame is from, and what the camera's checks
\* make of it: in order, invalid in itself, or numbered or stamped as an older one.
Kinds == {"GOOD", "INVALID", "RENUMBERED"}
Frame == [id : Nat, kind : Kinds \cup {"TORN"}]

\* What a reader sees of a slot that is being written.
Torn == [id |-> 0, kind |-> "TORN"]
Never == -1

VARIABLES
  buffer, \* indices of the frame triple buffer
  slots,  \* the metadata in each slot
  pool,   \* the pixels in each slot
  sim,    \* the simulator
  camera, \* the camera of the vision process
  clock,  \* age of the heartbeat by the system clock, and jumps of it so far
  hist    \* history only

vars == <<buffer, slots, pool, sim, camera, clock, hist>>

SimPCs == {"IDLE", "PIXELS", "META", "OFFER", "STORE"}
CameraPCs == {"CLOSED", "READY", "LOOP", "LOAD", "SWAP", "STORE", "COPY", "CHECK", "CLONE"}

\* old: the slot the exchange returned; frame: the frame being published.
Sim == [pc : SimPCs, alive : BOOLEAN, frame : Frame, old : Index]

\* last: the number of the frame accepted last on this connection.
Camera ==
  [pc : CameraPCs, ready : Index, meta : Frame, image : Frame, last : Nat \cup {Never}]

ClosedCamera ==
  [pc |-> "CLOSED", ready |-> 0, meta |-> Torn, image |-> Torn, last |-> Never]

-----------------------------------------------------------------------------
(* The simulator (external). *)

\* A frame whose number is not above the ones before it, e.g. after a scene reset.
Number(frame) == IF frame.kind = "RENUMBERED" THEN 0 ELSE frame.id

SimAt(pc) == sim.alive /\ sim.pc = pc

\* The latest frame that was offered.
OfferedLast == IF sim.pc \in {"IDLE", "STORE"} THEN sim.frame.id ELSE sim.frame.id - 1

\* Pixels first, the metadata last.
BeginFrame(kind) ==
  /\ SimAt("IDLE")
  /\ sim.frame.id < MaxFrames
  /\ sim' = [sim EXCEPT !.pc = "PIXELS", !.frame = [id |-> sim.frame.id + 1, kind |-> kind]]
  /\ pool' = [pool EXCEPT ![buffer.write] = Torn]
  /\ UNCHANGED <<buffer, slots, camera, clock, hist>>

WritePixels ==
  /\ SimAt("PIXELS")
  /\ sim' = [sim EXCEPT !.pc = "META"]
  /\ pool' = [pool EXCEPT ![buffer.write] = sim.frame]
  /\ slots' = [slots EXCEPT ![buffer.write] = Torn]
  /\ UNCHANGED <<buffer, camera, clock, hist>>

WriteMetadata ==
  /\ SimAt("META")
  /\ sim' = [sim EXCEPT !.pc = "OFFER"]
  /\ slots' = [slots EXCEPT ![buffer.write] = sim.frame]
  /\ UNCHANGED <<buffer, pool, camera, clock, hist>>

Offer ==
  /\ SimAt("OFFER")
  /\ buffer' = Offered(buffer)
  /\ sim' = [sim EXCEPT !.pc = "STORE", !.old = buffer.state]
  /\ UNCHANGED <<slots, pool, camera, clock, hist>>

StoreWriteIndex ==
  /\ SimAt("STORE")
  /\ buffer' = Rewound(buffer, sim.old)
  /\ sim' = [sim EXCEPT !.pc = "IDLE"]
  /\ UNCHANGED <<slots, pool, camera, clock, hist>>

Publish ==
  \/ \E kind \in Kinds : BeginFrame(kind)
  \/ WritePixels \/ WriteMetadata \/ Offer \/ StoreWriteIndex

Beat ==
  /\ sim.alive
  /\ clock' = [clock EXCEPT !.age = 0]
  /\ UNCHANGED <<buffer, slots, pool, sim, camera, hist>>

\* It ends, at whatever it was doing, and is not started again.
Die ==
  /\ sim.alive
  /\ sim' = [sim EXCEPT !.alive = FALSE]
  /\ UNCHANGED <<buffer, slots, pool, camera, clock, hist>>

-----------------------------------------------------------------------------
(* Time.  age is negative when the heartbeat is ahead of the system clock. *)

Ages == (-HeartbeatTimeout) .. (HeartbeatTimeout + 1)

Tick ==
  /\ clock.age <= HeartbeatTimeout
  /\ clock' = [clock EXCEPT !.age = @ + 1]
  /\ UNCHANGED <<buffer, slots, pool, sim, camera, hist>>

ClockStep(d) ==
  /\ clock.steps < MaxClockSteps
  /\ clock.age + d \in Ages
  /\ clock' = [age |-> clock.age + d, steps |-> clock.steps + 1]
  /\ UNCHANGED <<buffer, slots, pool, sim, camera, hist>>

HeartbeatFresh == clock.age <= HeartbeatTimeout

-----------------------------------------------------------------------------
(* The camera. *)

CameraAt(pc) == camera.pc = pc
CameraTo(pc) == camera' = [camera EXCEPT !.pc = pc]

\* The mapping is complete and the simulator alive.  A frame that was offered before
\* stays in the buffer.
Connect ==
  /\ CameraAt("CLOSED")
  /\ HeartbeatFresh
  /\ camera' = [ClosedCamera EXCEPT !.pc = "READY"]
  /\ hist' = [hist EXCEPT !.got = {}]
  /\ UNCHANGED <<buffer, slots, pool, sim, clock>>

Close ==
  /\ CameraAt("READY")
  /\ camera' = ClosedCamera
  /\ UNCHANGED <<buffer, slots, pool, sim, clock, hist>>

Grab ==
  /\ CameraAt("READY")
  /\ CameraTo("LOOP")
  /\ UNCHANGED <<buffer, slots, pool, sim, clock, hist>>

GrabTimesOut ==
  /\ CameraAt("LOOP")
  /\ CameraTo("READY")
  /\ UNCHANGED <<buffer, slots, pool, sim, clock, hist>>

\* An expired heartbeat ends the call and leaves the camera open.
CheckHeartbeat_StaysOpen ==
  /\ CameraAt("LOOP")
  /\ CameraTo(IF HeartbeatFresh THEN "LOAD" ELSE "READY")
  /\ UNCHANGED <<buffer, slots, pool, sim, clock, hist>>

\* The heartbeat is checked before every look at the buffer.
CheckHeartbeat ==
  /\ CameraAt("LOOP")
  /\ camera' = IF HeartbeatFresh THEN [camera EXCEPT !.pc = "LOAD"] ELSE ClosedCamera
  /\ UNCHANGED <<buffer, slots, pool, sim, clock, hist>>

LoadState ==
  /\ CameraAt("LOAD")
  /\ camera' = IF buffer.fresh THEN [camera EXCEPT !.pc = "SWAP", !.ready = buffer.state]
               ELSE [camera EXCEPT !.pc = "LOOP"]
  /\ UNCHANGED <<buffer, slots, pool, sim, clock, hist>>

\* The state is taken whatever it has become since.
Swaps_Blindly == TRUE

\* The state is only taken if it is the one that was loaded.
Swaps == buffer.fresh /\ buffer.state = camera.ready

Swap ==
  /\ CameraAt("SWAP")
  /\ buffer' = IF Swaps THEN Taken(buffer) ELSE buffer
  /\ CameraTo(IF Swaps THEN "STORE" ELSE "LOOP")
  /\ hist' = IF Swaps THEN [hist EXCEPT !.taken = slots[camera.ready].id] ELSE hist
  /\ UNCHANGED <<slots, pool, sim, clock>>

StoreReadIndex ==
  /\ CameraAt("STORE")
  /\ buffer' = Advanced(buffer, camera.ready)
  /\ CameraTo("COPY")
  /\ UNCHANGED <<slots, pool, sim, clock, hist>>

\* A copy takes time: the slot must be the same when it ends.
BeginCopy ==
  /\ CameraAt("COPY")
  /\ camera' = [camera EXCEPT !.pc = "CHECK", !.meta = slots[camera.ready]]
  /\ UNCHANGED <<buffer, slots, pool, sim, clock, hist>>

Copied(source, begun) == IF source = begun THEN begun ELSE Torn

\* Numbers go up on one connection.  Torn metadata may look like any.
Acceptable(meta) ==
  \/ meta.kind = "TORN"
  \/ meta.kind # "INVALID" /\ Number(meta) > camera.last

\* An invalid frame is skipped and leaves no trace.
CheckFrame ==
  /\ CameraAt("CHECK")
  /\ LET meta == Copied(slots[camera.ready], camera.meta)
     IN camera' = IF Acceptable(meta)
                  THEN [camera EXCEPT !.pc = "CLONE", !.meta = meta,
                                      !.image = pool[camera.ready]]
                  ELSE [camera EXCEPT !.pc = "READY", !.meta = Torn]
  /\ UNCHANGED <<buffer, slots, pool, sim, clock, hist>>

\* The pixels are copied, and the frame is delivered.
ClonePixels ==
  /\ CameraAt("CLONE")
  /\ camera' = [camera EXCEPT !.pc = "READY", !.meta = Torn, !.image = Torn,
                              !.last = Number(camera.meta)]
  /\ hist' = [hist EXCEPT !.got =
                {[meta |-> camera.meta, image |-> Copied(pool[camera.ready], camera.image)]}]
  /\ UNCHANGED <<buffer, slots, pool, sim, clock>>

GrabStep ==
  \/ CheckHeartbeat \/ LoadState \/ Swap \/ StoreReadIndex
  \/ BeginCopy \/ CheckFrame \/ ClonePixels

\* The vision process is killed.  Between the swap of the state and the store of its
\* index it leaves the buffer with one slot lost and another held twice.
Kill ==
  /\ ~CameraAt("CLOSED")
  /\ camera' = ClosedCamera
  /\ hist' = [hist EXCEPT !.cut = @ \/ CameraAt("STORE")]
  /\ UNCHANGED <<buffer, slots, pool, sim, clock>>

-----------------------------------------------------------------------------
Init ==
  /\ buffer = FreshBuffer
  /\ slots = [i \in Index |-> Torn]
  /\ pool = [i \in Index |-> Torn]
  /\ sim = [pc |-> "IDLE", alive |-> TRUE, frame |-> Torn, old |-> 0]
  /\ camera = ClosedCamera
  /\ clock = [age |-> 0, steps |-> 0]
  /\ hist = [taken |-> 0, got |-> {}, cut |-> FALSE]

Next ==
  \/ Publish \/ Beat \/ Die
  \/ Tick \/ (\E d \in {-HeartbeatTimeout, HeartbeatTimeout} : ClockStep(d))
  \/ Connect \/ Close \/ Grab \/ GrabTimesOut \/ GrabStep \/ Kill

Spec == Init /\ [][Next]_vars

\* The vision thread calls Grab again and again, time passes, and not every call
\* finds its deadline over before the first look.
Fairness ==
  /\ WF_vars(Grab) /\ WF_vars(GrabStep) /\ SF_vars(CheckHeartbeat)
  /\ WF_vars(Tick)

FairSpec == Spec /\ Fairness

-----------------------------------------------------------------------------
(* Properties *)

TypeOK ==
  /\ buffer \in Buffer
  /\ slots \in [Index -> Frame]
  /\ pool \in [Index -> Frame]
  /\ sim \in Sim
  /\ camera \in Camera
  /\ clock \in [age : Ages, steps : Nat]
  /\ hist \in [taken : Nat, cut : BOOLEAN,
               got : SUBSET [meta : Frame, image : Frame]]

\* The slot each side works on: the index in memory, or the one it is about to store.
WriteSlot == IF sim.pc = "STORE" THEN sim.old ELSE buffer.write
ReadSlot == IF camera.pc = "STORE" THEN camera.ready ELSE buffer.read

\* No slot is lost or used twice: the simulator, the state and the camera hold one
\* each, unless a vision process was killed within its exchange.
SlotsAreApart ==
  ~hist.cut => Apart(WriteSlot, buffer.state, ReadSlot)

\* A delivered frame is whole: its metadata and its pixels are of one publication, not
\* overwritten while they were copied.
FramesAreWhole ==
  ~hist.cut => \A f \in hist.got : f.meta.kind # "TORN" /\ f.image = f.meta

\* The camera takes the newest frame that was offered, and no frame twice, be it
\* closed and opened in between.
TakesTheNewest ==
  [][CameraAt("SWAP") /\ camera'.pc = "STORE" /\ ~hist.cut =>
       hist'.taken = OfferedLast /\ hist'.taken > hist.taken]_vars

\* On one connection the numbers of the delivered frames go up, whatever the
\* simulator numbers and however many frames are rejected in between.
NumbersGoUp ==
  [][\A f \in hist.got, g \in hist'.got :
       hist.got # hist'.got /\ ~hist'.cut => Number(f.meta) < Number(g.meta)]_vars

\* A simulator that has died is noticed: the camera ends up closed.
DeadSimulatorIsNoticed ==
  ~sim.alive ~> CameraAt("CLOSED")
=============================================================================
