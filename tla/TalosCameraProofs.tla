--------------------------- MODULE TalosCameraProofs ---------------------------
(***************************************************************************)
(* What holds of the frame triple buffer for every number of frames, clock *)
(* step and kill outside an exchange: no slot is used twice, frames are    *)
(* whole, their numbers go up, and the camera takes the newest.            *)
(***************************************************************************)
EXTENDS TalosCamera, TLAPS

\* The slot has the metadata and the pixels of one frame.
Whole(i) == slots[i].kind # "TORN" /\ pool[i] = slots[i]

\* There is a frame while one is being published.
PublishingInv == sim.pc # "IDLE" => sim.frame.id > 0 /\ sim.frame.kind # "TORN"

\* What the simulator has written of it.
SimInv ==
  /\ sim.pc = "META" => pool[buffer.write] = sim.frame
  /\ sim.pc = "OFFER" => pool[buffer.write] = sim.frame /\ slots[buffer.write] = sim.frame

\* New content in the state is the frame offered last, and nobody has taken it.
StateInv ==
  /\ hist.taken <= OfferedLast
  /\ buffer.fresh => /\ Whole(buffer.state)
                     /\ slots[buffer.state].id = OfferedLast
                     /\ hist.taken < OfferedLast

\* The slot the camera reads is whole and stays its own.
CameraInv ==
  /\ camera.pc \in {"STORE", "COPY", "CHECK", "CLONE"} => Whole(camera.ready)
  /\ camera.pc \in {"COPY", "CHECK", "CLONE"} => buffer.read = camera.ready
  /\ camera.pc \in {"CHECK", "CLONE"} => camera.meta = slots[camera.ready]
  /\ camera.pc = "CLONE" => camera.image = pool[camera.ready]

\* So is every frame that was delivered.
GotWhole == \A f \in hist.got : f.meta.kind # "TORN" /\ f.image = f.meta

\* Who owns which slot, and what is in it.
ExchangeInv ==
  /\ Apart(WriteSlot, buffer.state, ReadSlot)
  /\ SimInv /\ StateInv /\ CameraInv
  /\ GotWhole

\* The frame delivered last on this connection has the number the next one must exceed.
NumberInv ==
  /\ camera.pc # "CLOSED" => \A f \in hist.got : Number(f.meta) = camera.last
  /\ camera.pc = "CLONE" => Number(camera.meta) > camera.last

IInv == TypeOK /\ PublishingInv /\ (~hist.cut => ExchangeInv /\ NumberInv)

-----------------------------------------------------------------------------
(* Typing. *)

LEMMA TornTyped == Torn \in Frame /\ Never \in Nat \cup {Never}
  BY DEF Torn, Frame, Kinds, Never

LEMMA ClosedTyped == ClosedCamera \in Camera
  BY TornTyped DEF ClosedCamera, Camera, CameraPCs, Index

LEMMA TypeInit == Init => TypeOK
<1> SUFFICES ASSUME Init PROVE TypeOK
  OBVIOUS
<1>1. buffer \in Buffer
  BY DEF Init, FreshBuffer, Buffer, Index
<1>2. slots \in [Index -> Frame] /\ pool \in [Index -> Frame]
  BY TornTyped DEF Init
<1>3. sim \in Sim
  BY TornTyped DEF Init, Sim, SimPCs, Index
<1>4. camera \in Camera
  BY ClosedTyped DEF Init
<1>5. clock \in [age : Ages, steps : Nat]
  BY TalosAssumption DEF Init, Ages
<1>6. hist \in [taken : Nat, cut : BOOLEAN,
               got : SUBSET [meta : Frame, image : Frame]]
  BY DEF Init
<1> QED
  BY <1>1, <1>2, <1>3, <1>4, <1>5, <1>6 DEF TypeOK

LEMMA OfferedTyped == TypeOK => buffer.fresh \in BOOLEAN /\ sim.frame.id \in Nat
  BY DEF TypeOK, Buffer, Sim, Frame

LEMMA PublishTyped == TypeOK /\ Publish => TypeOK'
<1> SUFFICES ASSUME TypeOK, Publish PROVE TypeOK'
  OBVIOUS
<1> USE DEF TypeOK
<1>1. ASSUME NEW kind \in Kinds, BeginFrame(kind) PROVE TypeOK'
  <2>1. [id |-> sim.frame.id + 1, kind |-> kind] \in Frame
    BY OfferedTyped DEF Frame
  <2>2. sim' \in Sim
    BY <1>1, <2>1 DEF BeginFrame, Sim, SimPCs
  <2>3. pool' \in [Index -> Frame]
    BY <1>1, TornTyped DEF BeginFrame
  <2> QED
    BY <1>1, <2>2, <2>3 DEF BeginFrame
<1>2. CASE WritePixels
  <2>1. sim' \in Sim /\ sim.frame \in Frame
    BY <1>2 DEF WritePixels, Sim, SimPCs
  <2>2. pool' \in [Index -> Frame] /\ slots' \in [Index -> Frame]
    BY <1>2, <2>1, TornTyped DEF WritePixels
  <2> QED
    BY <1>2, <2>1, <2>2 DEF WritePixels
<1>3. CASE WriteMetadata
  <2>1. sim' \in Sim /\ sim.frame \in Frame
    BY <1>3 DEF WriteMetadata, Sim, SimPCs
  <2>2. slots' \in [Index -> Frame]
    BY <1>3, <2>1 DEF WriteMetadata
  <2> QED
    BY <1>3, <2>1, <2>2 DEF WriteMetadata
<1>4. CASE Offer
  BY <1>4 DEF Offer, Offered, Buffer, Sim, SimPCs
<1>5. CASE StoreWriteIndex
  BY <1>5 DEF StoreWriteIndex, Rewound, Buffer, Sim, SimPCs
<1> QED
  BY <1>1, <1>2, <1>3, <1>4, <1>5 DEF Publish

LEMMA TimeTyped ==
  ASSUME TypeOK,
         Beat \/ Die \/ Tick \/ \E d \in {-HeartbeatTimeout, HeartbeatTimeout} : ClockStep(d)
  PROVE  TypeOK'
<1> USE DEF TypeOK
<1>1. CASE Beat
  <2>1. clock' \in [age : Ages, steps : Nat]
    BY <1>1, TalosAssumption DEF Beat, Ages
  <2> QED
    BY <1>1, <2>1 DEF Beat
<1>2. CASE Die
  BY <1>2 DEF Die, Sim
<1>3. CASE Tick
  <2>1. clock' \in [age : Ages, steps : Nat]
    BY <1>3, TalosAssumption DEF Tick, Ages
  <2> QED
    BY <1>3, <2>1 DEF Tick
<1>4. ASSUME NEW d \in {-HeartbeatTimeout, HeartbeatTimeout}, ClockStep(d) PROVE TypeOK'
  <2>1. clock' \in [age : Ages, steps : Nat]
    BY <1>4 DEF ClockStep
  <2> QED
    BY <1>4, <2>1 DEF ClockStep
<1> QED
  BY <1>1, <1>2, <1>3, <1>4

LEMMA PublishingStep == TypeOK /\ PublishingInv /\ [Next]_vars => PublishingInv'
<1> SUFFICES ASSUME TypeOK, PublishingInv, [Next]_vars PROVE PublishingInv'
  OBVIOUS
<1> USE DEF PublishingInv
<1>1. ASSUME NEW kind \in Kinds, BeginFrame(kind) PROVE PublishingInv'
  <2>1. sim'.frame = [id |-> sim.frame.id + 1, kind |-> kind]
    BY <1>1 DEF BeginFrame, TypeOK, Sim
  <2> QED
    BY <1>1, <2>1, OfferedTyped DEF Kinds
<1>2. CASE WritePixels \/ WriteMetadata \/ Offer \/ StoreWriteIndex \/ Die
  BY <1>2 DEF WritePixels, WriteMetadata, Offer, StoreWriteIndex, Die, TypeOK, Sim, SimAt
<1>3. CASE UNCHANGED sim
  BY <1>3
<1> QED
  BY <1>1, <1>2, <1>3
  DEF Next, Publish, Beat, Tick, ClockStep, Connect, Close, Grab, GrabTimesOut, GrabStep,
      CheckHeartbeat, LoadState, Swap, StoreReadIndex, BeginCopy, CheckFrame, ClonePixels,
      Kill, vars

LEMMA OfferedLastTyped == TypeOK /\ PublishingInv => OfferedLast \in Nat
  BY OfferedTyped DEF OfferedLast, PublishingInv

LEMMA CameraTyped ==
  ASSUME TypeOK, PublishingInv,
         Connect \/ Close \/ Grab \/ GrabTimesOut \/ GrabStep \/ Kill
  PROVE  TypeOK'
<1> USE DEF TypeOK
<1>1. CASE Connect
  <2>1. camera' \in Camera
    BY <1>1, ClosedTyped DEF Connect, Camera, CameraPCs
  <2> QED
    BY <1>1, <2>1, OfferedLastTyped DEF Connect
<1>2. CASE Close
  BY <1>2, ClosedTyped DEF Close
<1>3. CASE Grab \/ GrabTimesOut
  <2>1. camera' \in Camera
    BY <1>3 DEF Grab, GrabTimesOut, CameraTo, Camera, CameraPCs
  <2> QED
    BY <1>3, <2>1 DEF Grab, GrabTimesOut
<1>4. CASE CheckHeartbeat
  <2>1. camera' \in Camera
    BY <1>4, ClosedTyped DEF CheckHeartbeat, Camera, CameraPCs
  <2> QED
    BY <1>4, <2>1 DEF CheckHeartbeat
<1>5. CASE LoadState
  <2>1. camera' \in Camera
    BY <1>5 DEF LoadState, Camera, CameraPCs, Buffer
  <2> QED
    BY <1>5, <2>1 DEF LoadState
<1>6. CASE Swap
  <2>1. camera' \in Camera
    BY <1>6 DEF Swap, CameraTo, Camera, CameraPCs
  <2>2. buffer' \in Buffer
    BY <1>6 DEF Swap, Taken, Buffer
  <2>3. camera.ready \in Index /\ slots[camera.ready].id \in Nat
    BY DEF Camera, Frame
  <2> QED
    BY <1>6, <2>1, <2>2, <2>3 DEF Swap
<1>7. CASE StoreReadIndex
  <2>1. camera' \in Camera /\ camera.ready \in Index
    BY <1>7 DEF StoreReadIndex, CameraTo, Camera, CameraPCs
  <2> QED
    BY <1>7, <2>1 DEF StoreReadIndex, Advanced, Buffer
<1>8. CASE BeginCopy
  <2>1. camera.ready \in Index /\ slots[camera.ready] \in Frame
    BY DEF Camera
  <2>2. camera' \in Camera
    BY <1>8, <2>1 DEF BeginCopy, Camera, CameraPCs
  <2> QED
    BY <1>8, <2>2 DEF BeginCopy
<1>9. CASE CheckFrame
  <2> DEFINE meta == Copied(slots[camera.ready], camera.meta)
  <2>1. meta \in Frame /\ pool[camera.ready] \in Frame
    BY TornTyped DEF Copied, Camera
  <2>2. camera' \in Camera
    <3> HIDE DEF meta
    <3>1. camera' = [camera EXCEPT !.pc = "CLONE", !.meta = meta, !.image = pool[camera.ready]]
            \/ camera' = [camera EXCEPT !.pc = "READY", !.meta = Torn]
      BY <1>9 DEF CheckFrame, meta
    <3> QED
      BY <2>1, <3>1, TornTyped DEF Camera, CameraPCs
  <2> QED
    BY <1>9, <2>2 DEF CheckFrame
<1>10. CASE ClonePixels
  <2>1. camera.meta \in Frame /\ Copied(pool[camera.ready], camera.image) \in Frame
    BY TornTyped DEF Copied, Camera
  <2>2. Number(camera.meta) \in Nat
    BY <2>1 DEF Number, Frame
  <2>3. camera' \in Camera
    BY <1>10, <2>2, TornTyped DEF ClonePixels, Camera, CameraPCs
  <2> QED
    BY <1>10, <2>1, <2>3 DEF ClonePixels
<1>11. CASE Kill
  BY <1>11, ClosedTyped DEF Kill
<1> QED
  BY <1>1, <1>2, <1>3, <1>4, <1>5, <1>6, <1>7, <1>8, <1>9, <1>10, <1>11 DEF GrabStep

LEMMA TypeStep == TypeOK /\ PublishingInv /\ [Next]_vars => TypeOK'
<1> SUFFICES ASSUME TypeOK, PublishingInv, [Next]_vars PROVE TypeOK'
  OBVIOUS
<1>1. CASE UNCHANGED vars
  BY <1>1 DEF vars, TypeOK
<1> QED
  BY <1>1, PublishTyped, TimeTyped, CameraTyped DEF Next

\* The state of the buffer, the simulator, the camera and the history is well typed
\* whatever the interleaving (TalosDevice, the triple buffer in shared memory).
THEOREM TypeCorrect == Spec => []TypeOK
<1>1. Init => TypeOK /\ PublishingInv
  BY TypeInit DEF Init, PublishingInv
<1>2. TypeOK /\ PublishingInv /\ [Next]_vars => TypeOK' /\ PublishingInv'
  BY TypeStep, PublishingStep
<1> QED
  BY <1>1, <1>2, PTL DEF Spec

-----------------------------------------------------------------------------
(* The exchange. *)

LEMMA Slots ==
  TypeOK => /\ WriteSlot \in Index /\ ReadSlot \in Index
            /\ buffer.write \in Index /\ buffer.state \in Index /\ buffer.read \in Index
            /\ camera.ready \in Index
  BY DEF TypeOK, Buffer, Sim, Camera, WriteSlot, ReadSlot

\* The slot that is being copied is the camera's.
LEMMA ReadyIsRead ==
  CameraInv /\ camera.pc \in {"STORE", "COPY", "CHECK", "CLONE"} => camera.ready = ReadSlot
  BY DEF CameraInv, ReadSlot

\* What the simulator writes into its own slot disturbs nobody.
LEMMA OwnSlotWritten ==
  ASSUME TypeOK, ExchangeInv, sim.pc # "STORE", sim'.pc # "STORE",
         UNCHANGED <<buffer, camera, hist>>, OfferedLast' = OfferedLast,
         \A i \in Index : i # buffer.write => pool'[i] = pool[i] /\ slots'[i] = slots[i]
  PROVE  /\ Apart(WriteSlot, buffer.state, ReadSlot)'
         /\ StateInv' /\ CameraInv' /\ GotWhole'
<1>1. Apart(WriteSlot, buffer.state, ReadSlot)'
  BY DEF ExchangeInv, Apart, WriteSlot, ReadSlot
<1>2. buffer.state # buffer.write /\ ReadSlot # buffer.write
  BY DEF ExchangeInv, Apart, WriteSlot
<1>3. StateInv'
  BY <1>2, Slots DEF ExchangeInv, StateInv, Whole
<1>4. CameraInv'
  BY <1>2, Slots, ReadyIsRead DEF ExchangeInv, CameraInv, Whole
<1> QED
  BY <1>1, <1>3, <1>4 DEF ExchangeInv, GotWhole

\* A step of the camera that leaves the buffer alone.
LEMMA CameraOnly ==
  ASSUME ExchangeInv, UNCHANGED <<buffer, slots, pool, sim>>, hist'.taken = hist.taken,
         ReadSlot' = ReadSlot, CameraInv', GotWhole'
  PROVE  ExchangeInv'
<1>1. OfferedLast' = OfferedLast /\ WriteSlot' = WriteSlot
  BY DEF OfferedLast, WriteSlot
<1> QED
  BY <1>1 DEF ExchangeInv, Apart, SimInv, StateInv, Whole, GotWhole

LEMMA PublishExchange ==
  ASSUME TypeOK, PublishingInv, ExchangeInv, Publish
  PROVE  ExchangeInv'
<1> USE DEF SimAt
<1>0. sim.frame.id \in Nat /\ buffer.write \in Index /\ sim \in Sim /\ buffer \in Buffer
  BY Slots, OfferedTyped DEF TypeOK
<1>1. ASSUME NEW kind \in Kinds, BeginFrame(kind) PROVE ExchangeInv'
  <2>1. sim'.pc = "PIXELS" /\ sim'.frame.id = sim.frame.id + 1
    BY <1>0, <1>1 DEF BeginFrame, Sim
  <2>2. OfferedLast' = OfferedLast
    BY <1>0, <1>1, <2>1 DEF BeginFrame, OfferedLast
  <2>3. \A i \in Index : i # buffer.write => pool'[i] = pool[i] /\ slots'[i] = slots[i]
    BY <1>1 DEF BeginFrame, TypeOK
  <2>4. SimInv'
    BY <2>1 DEF SimInv
  <2> QED
    BY <1>1, <2>1, <2>2, <2>3, <2>4, OwnSlotWritten DEF BeginFrame, ExchangeInv, GotWhole
<1>2. CASE WritePixels
  <2>1. sim'.pc = "META" /\ sim'.frame = sim.frame
    BY <1>0, <1>2 DEF WritePixels, Sim
  <2>2. OfferedLast' = OfferedLast
    BY <1>2, <2>1 DEF WritePixels, OfferedLast
  <2>3. \A i \in Index : i # buffer.write => pool'[i] = pool[i] /\ slots'[i] = slots[i]
    BY <1>2 DEF WritePixels, TypeOK
  <2>4. SimInv'
    BY <1>0, <1>2, <2>1 DEF WritePixels, SimInv, TypeOK
  <2> QED
    BY <1>2, <2>1, <2>2, <2>3, <2>4, OwnSlotWritten DEF WritePixels, ExchangeInv, GotWhole
<1>3. CASE WriteMetadata
  <2>1. sim'.pc = "OFFER" /\ sim'.frame = sim.frame
    BY <1>0, <1>3 DEF WriteMetadata, Sim
  <2>2. OfferedLast' = OfferedLast
    BY <1>3, <2>1 DEF WriteMetadata, OfferedLast
  <2>3. \A i \in Index : i # buffer.write => pool'[i] = pool[i] /\ slots'[i] = slots[i]
    BY <1>3 DEF WriteMetadata, TypeOK
  <2>4. SimInv'
    BY <1>0, <1>3, <2>1 DEF WriteMetadata, ExchangeInv, SimInv, TypeOK
  <2> QED
    BY <1>3, <2>1, <2>2, <2>3, <2>4, OwnSlotWritten DEF WriteMetadata, ExchangeInv, GotWhole
<1>4. CASE Offer
  <2>1. sim'.pc = "STORE" /\ sim'.frame = sim.frame /\ sim'.old = buffer.state
    BY <1>0, <1>4 DEF Offer, Sim
  <2>2. /\ buffer'.state = buffer.write /\ buffer'.fresh /\ buffer'.write = buffer.write
        /\ buffer'.read = buffer.read
    BY <1>0, <1>4 DEF Offer, Offered, Buffer
  <2>3. ReadSlot' = ReadSlot /\ WriteSlot = buffer.write /\ WriteSlot' = buffer.state
    BY <1>4, <2>1, <2>2 DEF Offer, ReadSlot, WriteSlot
  <2>4. Apart(WriteSlot, buffer.state, ReadSlot)'
    BY <2>2, <2>3 DEF ExchangeInv, Apart
  <2>5. OfferedLast = sim.frame.id - 1 /\ OfferedLast' = sim.frame.id
    BY <1>4, <2>1 DEF Offer, OfferedLast
  <2>6. StateInv'
    <3>1. Whole(buffer.write)' /\ slots'[buffer.write] = sim.frame
      BY <1>4, <2>2 DEF Offer, ExchangeInv, SimInv, Whole, PublishingInv
    <3>2. hist'.taken < OfferedLast' /\ hist'.taken \in Nat
      BY <1>0, <1>4, <2>5 DEF Offer, ExchangeInv, StateInv, TypeOK
    <3> QED
      BY <1>0, <2>2, <2>5, <3>1, <3>2 DEF StateInv, Whole
  <2>7. SimInv' /\ CameraInv' /\ GotWhole'
    BY <1>4, <2>1, <2>2 DEF Offer, ExchangeInv, SimInv, CameraInv, Whole, GotWhole
  <2> QED
    BY <2>4, <2>6, <2>7 DEF ExchangeInv, GotWhole
<1>5. CASE StoreWriteIndex
  <2>1. sim'.pc = "IDLE" /\ sim'.frame = sim.frame
    BY <1>0, <1>5 DEF StoreWriteIndex, Sim
  <2>2. /\ buffer'.write = sim.old /\ buffer'.state = buffer.state
        /\ buffer'.fresh = buffer.fresh /\ buffer'.read = buffer.read
    BY <1>0, <1>5 DEF StoreWriteIndex, Rewound, Buffer
  <2>3. WriteSlot' = WriteSlot /\ ReadSlot' = ReadSlot /\ OfferedLast' = OfferedLast
    BY <1>5, <2>1, <2>2 DEF StoreWriteIndex, WriteSlot, ReadSlot, OfferedLast
  <2>4. SimInv'
    BY <2>1 DEF SimInv
  <2> QED
    BY <1>5, <2>2, <2>3, <2>4
    DEF StoreWriteIndex, ExchangeInv, Apart, StateInv, CameraInv, Whole, GotWhole
<1> QED
  BY <1>1, <1>2, <1>3, <1>4, <1>5 DEF Publish

LEMMA CameraExchange ==
  ASSUME TypeOK, ExchangeInv, ~hist'.cut,
         Connect \/ Close \/ Grab \/ GrabTimesOut \/ GrabStep \/ Kill
  PROVE  ExchangeInv'
<1> USE DEF CameraAt, CameraTo
<1>0. camera \in Camera /\ buffer \in Buffer /\ hist.cut \in BOOLEAN
  BY DEF TypeOK
<1>1. ASSUME camera' = ClosedCamera, camera.pc # "STORE", hist'.taken = hist.taken,
             hist'.got \subseteq hist.got, UNCHANGED <<buffer, slots, pool, sim>>
      PROVE  ExchangeInv'
  <2>1. ReadSlot' = ReadSlot /\ CameraInv'
    BY <1>1 DEF ClosedCamera, ReadSlot, CameraInv
  <2>2. GotWhole'
    BY <1>1 DEF ExchangeInv, GotWhole
  <2> QED
    BY <1>1, <2>1, <2>2, CameraOnly
<1>2. CASE Connect
  <2>1. /\ camera'.pc = "READY" /\ hist'.taken = hist.taken /\ hist'.got = {}
        /\ UNCHANGED <<buffer, slots, pool, sim>>
    BY <1>2 DEF Connect, ClosedCamera, TypeOK
  <2>2. ReadSlot' = ReadSlot /\ CameraInv' /\ GotWhole'
    BY <1>2, <2>1 DEF Connect, ReadSlot, CameraInv, GotWhole
  <2> QED
    BY <2>1, <2>2, CameraOnly
<1>3. CASE Close
  BY <1>1, <1>3 DEF Close
<1>4. CASE Grab \/ GrabTimesOut
  <2>1. camera'.pc \in {"LOOP", "READY"} /\ UNCHANGED <<buffer, slots, pool, sim, hist>>
    BY <1>0, <1>4 DEF Grab, GrabTimesOut, Camera
  <2>2. ReadSlot' = ReadSlot /\ CameraInv' /\ GotWhole'
    BY <1>4, <2>1 DEF Grab, GrabTimesOut, ReadSlot, CameraInv, GotWhole, ExchangeInv
  <2> QED
    BY <2>1, <2>2, CameraOnly
<1>5. CASE CheckHeartbeat
  <2>1. CASE HeartbeatFresh
    <3>1. camera'.pc = "LOAD" /\ UNCHANGED <<buffer, slots, pool, sim, hist>>
      BY <1>0, <1>5, <2>1 DEF CheckHeartbeat, Camera
    <3>2. ReadSlot' = ReadSlot /\ CameraInv' /\ GotWhole'
      BY <1>5, <3>1 DEF CheckHeartbeat, ReadSlot, CameraInv, GotWhole, ExchangeInv
    <3> QED
      BY <3>1, <3>2, CameraOnly
  <2>2. CASE ~HeartbeatFresh
    BY <1>1, <1>5, <2>2 DEF CheckHeartbeat
  <2> QED
    BY <2>1, <2>2
<1>6. CASE LoadState
  <2>1. camera'.pc \in {"SWAP", "LOOP"} /\ UNCHANGED <<buffer, slots, pool, sim, hist>>
    BY <1>0, <1>6 DEF LoadState, Camera
  <2>2. ReadSlot' = ReadSlot /\ CameraInv' /\ GotWhole'
    BY <1>6, <2>1 DEF LoadState, ReadSlot, CameraInv, GotWhole, ExchangeInv
  <2> QED
    BY <2>1, <2>2, CameraOnly
<1>7. CASE Swap
  <2>1. CASE ~Swaps
    <3>1. camera'.pc = "LOOP" /\ UNCHANGED <<buffer, slots, pool, sim, hist>>
      BY <1>0, <1>7, <2>1 DEF Swap, Camera
    <3>2. ReadSlot' = ReadSlot /\ CameraInv' /\ GotWhole'
      BY <1>7, <3>1 DEF Swap, ReadSlot, CameraInv, GotWhole, ExchangeInv
    <3> QED
      BY <3>1, <3>2, CameraOnly
  <2>2. CASE Swaps
    <3>1. camera'.pc = "STORE" /\ camera'.ready = camera.ready
      BY <1>0, <1>7, <2>2 DEF Swap, Camera
    <3>2. /\ buffer'.state = buffer.read /\ ~buffer'.fresh /\ buffer'.write = buffer.write
          /\ buffer'.read = buffer.read
      BY <1>0, <1>7, <2>2 DEF Swap, Taken, Buffer
    <3>3. hist'.taken = slots[camera.ready].id /\ hist'.got = hist.got
      BY <1>7, <2>2 DEF Swap, TypeOK
    <3>4. Whole(camera.ready) /\ hist'.taken = OfferedLast /\ OfferedLast' = OfferedLast
      BY <1>7, <2>2, <3>3 DEF Swap, Swaps, ExchangeInv, StateInv, OfferedLast
    <3>5. Apart(WriteSlot, buffer.state, ReadSlot)'
      BY <1>7, <2>2, <3>1, <3>2 DEF Swap, Swaps, ExchangeInv, Apart, WriteSlot, ReadSlot
    <3>6. SimInv' /\ GotWhole'
      BY <1>7, <3>2, <3>3 DEF Swap, ExchangeInv, SimInv, GotWhole
    <3>7. StateInv'
      <4>1. OfferedLast \in Nat
        BY <3>3, <3>4, Slots DEF TypeOK, Frame
      <4> QED
        BY <3>2, <3>4, <4>1 DEF StateInv
    <3>8. CameraInv'
      BY <1>7, <3>1, <3>4 DEF Swap, CameraInv, Whole
    <3> QED
      BY <3>5, <3>6, <3>7, <3>8 DEF ExchangeInv, GotWhole
  <2> QED
    BY <2>1, <2>2
<1>8. CASE StoreReadIndex
  <2>1. camera'.pc = "COPY" /\ camera'.ready = camera.ready
    BY <1>0, <1>8 DEF StoreReadIndex, Camera
  <2>2. /\ buffer'.state = buffer.state /\ buffer'.fresh = buffer.fresh
        /\ buffer'.write = buffer.write /\ buffer'.read = camera.ready
    BY <1>0, <1>8 DEF StoreReadIndex, Advanced, Buffer
  <2>3. WriteSlot' = WriteSlot /\ ReadSlot' = ReadSlot /\ OfferedLast' = OfferedLast
    BY <1>8, <2>1, <2>2 DEF StoreReadIndex, WriteSlot, ReadSlot, OfferedLast
  <2>4. CameraInv'
    BY <1>8, <2>1, <2>2 DEF StoreReadIndex, ExchangeInv, CameraInv, Whole
  <2> QED
    BY <1>8, <2>2, <2>3, <2>4
    DEF StoreReadIndex, ExchangeInv, Apart, SimInv, StateInv, Whole, GotWhole
<1>9. CASE BeginCopy
  <2>1. /\ camera'.pc = "CHECK" /\ camera'.ready = camera.ready
        /\ camera'.meta = slots[camera.ready]
    BY <1>0, <1>9 DEF BeginCopy, Camera
  <2>2. ReadSlot' = ReadSlot /\ GotWhole'
    BY <1>9, <2>1 DEF BeginCopy, ReadSlot, GotWhole, ExchangeInv
  <2>3. CameraInv'
    BY <1>9, <2>1 DEF BeginCopy, ExchangeInv, CameraInv, Whole
  <2> QED
    BY <1>9, <2>2, <2>3, CameraOnly DEF BeginCopy
<1>10. CASE CheckFrame
  <2>1. Copied(slots[camera.ready], camera.meta) = slots[camera.ready]
    BY <1>10 DEF CheckFrame, Copied, ExchangeInv, CameraInv
  <2>2. \/ /\ camera'.pc = "CLONE" /\ camera'.ready = camera.ready
           /\ camera'.meta = slots[camera.ready] /\ camera'.image = pool[camera.ready]
        \/ camera'.pc = "READY"
    BY <1>0, <1>10, <2>1 DEF CheckFrame, Camera
  <2>3. ReadSlot' = ReadSlot /\ GotWhole'
    BY <1>10, <2>2 DEF CheckFrame, ReadSlot, GotWhole, ExchangeInv
  <2>4. CameraInv'
    BY <1>10, <2>2 DEF CheckFrame, ExchangeInv, CameraInv, Whole
  <2> QED
    BY <1>10, <2>3, <2>4, CameraOnly DEF CheckFrame
<1>11. CASE ClonePixels
  <2>1. camera'.pc = "READY"
    BY <1>0, <1>11 DEF ClonePixels, Camera
  <2>2. /\ Copied(pool[camera.ready], camera.image) = camera.meta
        /\ camera.meta.kind # "TORN"
    BY <1>11 DEF ClonePixels, Copied, ExchangeInv, CameraInv, Whole
  <2>3. /\ hist'.got = {[meta |-> camera.meta, image |-> camera.meta]}
        /\ hist'.taken = hist.taken
    BY <1>11, <2>2 DEF ClonePixels, TypeOK
  <2>4. ReadSlot' = ReadSlot /\ CameraInv' /\ GotWhole'
    BY <1>11, <2>1, <2>2, <2>3 DEF ClonePixels, ReadSlot, CameraInv, GotWhole
  <2> QED
    BY <1>11, <2>3, <2>4, CameraOnly DEF ClonePixels
<1>12. CASE Kill
  <2>1. camera.pc # "STORE" /\ hist'.taken = hist.taken /\ hist'.got = hist.got
    BY <1>0, <1>12 DEF Kill, TypeOK
  <2> QED
    BY <1>1, <1>12, <2>1 DEF Kill
<1> QED
  BY <1>2, <1>3, <1>4, <1>5, <1>6, <1>7, <1>8, <1>9, <1>10, <1>11, <1>12 DEF GrabStep

LEMMA NumberStep ==
  ASSUME TypeOK, ExchangeInv, NumberInv, [Next]_vars
  PROVE  NumberInv'
<1> USE DEF CameraAt, CameraTo
<1>0. camera \in Camera
  BY DEF TypeOK
<1>1. CASE UNCHANGED camera /\ hist'.got = hist.got
  BY <1>1 DEF NumberInv
<1>2. CASE camera' = ClosedCamera
  BY <1>2 DEF ClosedCamera, NumberInv
<1>3. CASE Connect
  BY <1>3 DEF Connect, ClosedCamera, NumberInv, TypeOK
<1>4. ASSUME camera.pc # "CLOSED", camera'.last = camera.last, camera'.pc # "CLONE",
             hist'.got = hist.got
      PROVE  NumberInv'
  BY <1>4 DEF NumberInv
<1>5. CASE Grab \/ GrabTimesOut \/ LoadState \/ StoreReadIndex \/ BeginCopy
  BY <1>0, <1>4, <1>5 DEF Grab, GrabTimesOut, LoadState, StoreReadIndex, BeginCopy, Camera
<1>6. CASE CheckHeartbeat
  BY <1>0, <1>2, <1>4, <1>6 DEF CheckHeartbeat, Camera
<1>7. CASE Swap
  <2>1. camera'.last = camera.last /\ camera'.pc \in {"STORE", "LOOP"}
    BY <1>0, <1>7 DEF Swap, Camera
  <2>2. hist'.got = hist.got
    BY <1>7 DEF Swap, TypeOK
  <2> QED
    BY <1>4, <1>7, <2>1, <2>2 DEF Swap
<1>8. CASE CheckFrame
  <2> DEFINE meta == slots[camera.ready]
  <2>1. Copied(slots[camera.ready], camera.meta) = meta /\ meta.kind # "TORN"
    BY <1>8 DEF CheckFrame, Copied, ExchangeInv, CameraInv, Whole
  <2>2. camera' = IF Acceptable(meta)
                  THEN [camera EXCEPT !.pc = "CLONE", !.meta = meta,
                                      !.image = pool[camera.ready]]
                  ELSE [camera EXCEPT !.pc = "READY", !.meta = Torn]
    BY <1>8, <2>1 DEF CheckFrame
  <2>3. Acceptable(meta) => Number(meta) > camera.last
    BY <2>1 DEF Acceptable
  <2> HIDE DEF meta
  <2>4. CASE Acceptable(meta)
    <3>1. camera'.pc = "CLONE" /\ camera'.meta = meta /\ camera'.last = camera.last
      BY <1>0, <2>2, <2>4 DEF Camera
    <3> QED
      BY <1>8, <2>3, <2>4, <3>1 DEF CheckFrame, NumberInv, Number
  <2>5. CASE ~Acceptable(meta)
    BY <1>0, <1>4, <1>8, <2>2, <2>5 DEF CheckFrame, Camera
  <2> QED
    BY <2>4, <2>5
<1>9. CASE ClonePixels
  <2>1. camera'.pc = "READY" /\ camera'.last = Number(camera.meta)
    BY <1>0, <1>9 DEF ClonePixels, Camera
  <2>2. \A f \in hist'.got : f.meta = camera.meta
    BY <1>9 DEF ClonePixels, TypeOK
  <2> QED
    BY <2>1, <2>2 DEF NumberInv, Number
<1>10. CASE Next
  <2>1. CASE Publish \/ Beat \/ Die \/ Tick
                \/ \E d \in {-HeartbeatTimeout, HeartbeatTimeout} : ClockStep(d)
    BY <1>1, <2>1 DEF Publish, BeginFrame, WritePixels, WriteMetadata, Offer, StoreWriteIndex,
                      Beat, Die, Tick, ClockStep
  <2>2. CASE Close \/ Kill
    BY <1>2, <2>2 DEF Close, Kill
  <2> QED
    BY <1>3, <1>5, <1>6, <1>7, <1>8, <1>9, <1>10, <2>1, <2>2 DEF Next, GrabStep
<1> QED
  BY <1>1, <1>10 DEF vars

\* A kill within the exchange is not forgotten.
LEMMA CutStays == TypeOK /\ [Next]_vars /\ hist.cut => hist'.cut
  BY DEF TypeOK, Next, Publish, BeginFrame, WritePixels, WriteMetadata, Offer, StoreWriteIndex,
         Beat, Die, Tick, ClockStep, Connect, Close, Grab, GrabTimesOut, GrabStep,
         CheckHeartbeat, LoadState, Swap, StoreReadIndex, BeginCopy, CheckFrame, ClonePixels,
         Kill, vars

LEMMA IInvInit == Init => IInv
<1> SUFFICES ASSUME Init PROVE IInv
  OBVIOUS
<1>1. TypeOK /\ PublishingInv
  BY TypeInit DEF Init, PublishingInv
<1>2. Apart(WriteSlot, buffer.state, ReadSlot)
  BY DEF Init, FreshBuffer, ClosedCamera, WriteSlot, ReadSlot, Apart
<1>3. SimInv /\ StateInv /\ CameraInv
  BY DEF Init, FreshBuffer, ClosedCamera, Torn, SimInv, StateInv, CameraInv, OfferedLast
<1>4. GotWhole /\ NumberInv
  BY DEF Init, ClosedCamera, GotWhole, NumberInv
<1> QED
  BY <1>1, <1>2, <1>3, <1>4 DEF IInv, ExchangeInv, GotWhole

LEMMA IInvStep == IInv /\ [Next]_vars => IInv'
<1> SUFFICES ASSUME IInv, [Next]_vars PROVE IInv'
  OBVIOUS
<1> USE DEF IInv
<1>1. TypeOK' /\ PublishingInv'
  BY TypeStep, PublishingStep
<1>2. ASSUME ~hist'.cut PROVE ExchangeInv' /\ NumberInv'
  <2>1. ExchangeInv /\ NumberInv
    BY <1>2, CutStays
  <2>2. NumberInv'
    BY <2>1, NumberStep
  <2>3. CASE Publish
    BY <2>1, <2>2, <2>3, PublishExchange
  <2>4. CASE Connect \/ Close \/ Grab \/ GrabTimesOut \/ GrabStep \/ Kill
    BY <1>2, <2>1, <2>2, <2>4, CameraExchange
  <2>5. CASE Beat \/ Tick \/ (\E d \in {-HeartbeatTimeout, HeartbeatTimeout} : ClockStep(d))
               \/ UNCHANGED vars
    <3>1. UNCHANGED <<buffer, slots, pool, sim, camera, hist>>
      BY <2>5 DEF Beat, Tick, ClockStep, vars
    <3>2. ReadSlot' = ReadSlot /\ CameraInv' /\ GotWhole'
      BY <2>1, <3>1 DEF ReadSlot, ExchangeInv, CameraInv, Whole, GotWhole
    <3> QED
      BY <2>1, <2>2, <3>1, <3>2, CameraOnly
  <2>6. CASE Die
    <3>1. sim'.pc = sim.pc /\ sim'.frame = sim.frame /\ sim'.old = sim.old
      BY <2>6 DEF Die, TypeOK, Sim
    <3> QED
      BY <2>1, <2>2, <2>6, <3>1
      DEF Die, ExchangeInv, Apart, WriteSlot, ReadSlot, SimInv, StateInv, OfferedLast,
          CameraInv, Whole, GotWhole
  <2> QED
    BY <2>2, <2>3, <2>4, <2>5, <2>6 DEF Next
<1> QED
  BY <1>1, <1>2

\* The inductive invariant of the exchange between the simulator and the camera.
THEOREM Exchange == Spec => []IInv
  BY IInvInit, IInvStep, PTL DEF Spec

\* The simulator, the state and the camera always hold a slot each, for every
\* interleaving of Send's protocol with Consume (talos_device.cpp).
THEOREM NoSlotIsLost == Spec => []SlotsAreApart
<1>1. IInv => SlotsAreApart
  BY DEF IInv, ExchangeInv, SlotsAreApart
<1> QED
  BY <1>1, Exchange, PTL

\* A frame Grab delivers has the metadata and the pixels of one publication.
THEOREM FramesStayWhole == Spec => []FramesAreWhole
<1>1. IInv => FramesAreWhole
  BY DEF IInv, ExchangeInv, GotWhole, FramesAreWhole
<1> QED
  BY <1>1, Exchange, PTL

\* Consume takes the frame offered last, and no frame twice.
THEOREM TheNewestIsTaken == Spec => TakesTheNewest
<1> DEFINE A == CameraAt("SWAP") /\ camera'.pc = "STORE" /\ ~hist.cut
                  => hist'.taken = OfferedLast /\ hist'.taken > hist.taken
<1>1. IInv /\ [Next]_vars => A
  <2> SUFFICES ASSUME IInv, [Next]_vars, camera.pc = "SWAP", camera'.pc = "STORE", ~hist.cut
               PROVE  hist'.taken = OfferedLast /\ hist'.taken > hist.taken
    BY DEF CameraAt
  <2>1. Swap
    <3>1. ~UNCHANGED camera /\ camera' # ClosedCamera
      BY DEF ClosedCamera
    <3>2. ~(Connect \/ Close \/ Grab \/ GrabTimesOut \/ CheckHeartbeat \/ LoadState
              \/ StoreReadIndex \/ BeginCopy \/ CheckFrame \/ ClonePixels)
      BY DEF Connect, Close, Grab, GrabTimesOut, CheckHeartbeat, LoadState, StoreReadIndex,
             BeginCopy, CheckFrame, ClonePixels, CameraAt
    <3> QED
      BY <3>1, <3>2 DEF Next, Publish, BeginFrame, WritePixels, WriteMetadata, Offer,
             StoreWriteIndex, Beat, Die, Tick, ClockStep, GrabStep, Kill, vars
  <2>2. Swaps
    BY <2>1 DEF Swap, CameraTo, IInv, TypeOK, Camera
  <2>3. hist'.taken = slots[buffer.state].id
    BY <2>1, <2>2 DEF Swap, Swaps, IInv, TypeOK
  <2> QED
    BY <2>2, <2>3, OfferedLastTyped DEF IInv, TypeOK, ExchangeInv, StateInv, Swaps
<1> QED
  BY <1>1, Exchange, PTL DEF Spec, TakesTheNewest

\* Frame numbers go up on one connection, although rejected frames are forgotten.
THEOREM NumbersRise == Spec => NumbersGoUp
<1> DEFINE A == \A f \in hist.got, g \in hist'.got :
                  hist.got # hist'.got /\ ~hist'.cut => Number(f.meta) < Number(g.meta)
<1>1. IInv /\ [Next]_vars => A
  <2> SUFFICES ASSUME IInv, [Next]_vars, NEW f \in hist.got, NEW g \in hist'.got,
                      hist.got # hist'.got, ~hist'.cut
               PROVE  Number(f.meta) < Number(g.meta)
    OBVIOUS
  <2> USE DEF IInv
  <2>1. ExchangeInv /\ NumberInv
    BY CutStays
  <2>2. ClonePixels
    <3>1. ~Connect
      BY DEF Connect, TypeOK
    <3> QED
      BY <3>1 DEF TypeOK, Next, Publish, BeginFrame, WritePixels, WriteMetadata, Offer,
           StoreWriteIndex, Beat, Die, Tick, ClockStep, Close, Grab, GrabTimesOut, GrabStep,
           CheckHeartbeat, LoadState, Swap, StoreReadIndex, BeginCopy, CheckFrame, Kill, vars
  <2>3. g.meta = camera.meta
    BY <2>2 DEF ClonePixels, TypeOK
  <2>4. Number(f.meta) = camera.last /\ Number(camera.meta) > camera.last
    BY <2>1, <2>2 DEF ClonePixels, CameraAt, NumberInv
  <2>5. camera.last \in Int /\ Number(camera.meta) \in Int
    BY DEF TypeOK, Camera, Never, Number, Frame
  <2> QED
    BY <2>3, <2>4, <2>5
<1> QED
  BY <1>1, Exchange, PTL DEF Spec, NumbersGoUp
=============================================================================
