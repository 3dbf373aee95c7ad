-------------------------- MODULE MindVisionCamera --------------------------
(***************************************************************************)
(* The real camera and the poses of its frames: opening and closing the    *)
(* SDK's device (hal/camera/mindvision), the estimate of the capture time  *)
(* from the camera's 32-bit tick, and RealFrameGeometry::Attach, which     *)
(* asks the IMU for the attitude at that time.  The SDK and the IMU        *)
(* (SerialLink) answer anything.  One unit of time is one tick.            *)
(***************************************************************************)
EXTENDS Integers, Sequences, FiniteSets, FiniteSetsExt

CONSTANTS
  TickRange,    \* ticks are counted modulo this (2^32)
  MaxDelta,     \* ticks between two frames of one clock (100000)
  Window,       \* age of the oldest clock offset (10 s)
  MaxOffsets,   \* number of clock offsets (2048)
  MinOffsets,   \* of them before the clock is trusted (8)
  Intervals,    \* bound: the times between two receptions, which are never at once
  MaxTime,      \* bound: the last reception
  MaxGeneration \* bound: sessions of the IMU

VARIABLES
  device,    \* [handle, streaming]
  clock,     \* [started, last, extended, offsets]
  now,       \* the steady clock at the last reception
  stamp,     \* the last estimated capture time: [set, time]
  imu,       \* the generation of the IMU's session
  geometry,  \* RealFrameGeometry: [generation, last]
  pose       \* the last frame that got a pose: [set, time]

vars == <<device, clock, now, stamp, imu, geometry, pose>>

Unset == [set |-> FALSE, time |-> 0]
Closed == [handle |-> FALSE, streaming |-> FALSE]
Unstarted == [started |-> FALSE, last |-> 0, extended |-> 0, offsets |-> <<>>]

Init ==
  /\ device = Closed /\ clock = Unstarted /\ now = 0 /\ stamp = Unset
  /\ imu = 0 /\ geometry = [generation |-> 0, last |-> Unset] /\ pose = Unset

-----------------------------------------------------------------------------
\* Open: SDK, device, handle, output, resolution, exposure, stream.  A failure
\* after the handle was taken gives it back (Reset).
Open ==
  /\ ~device.streaming
  /\ \E failed \in BOOLEAN :
       /\ device' = IF failed THEN Closed ELSE [handle |-> TRUE, streaming |-> TRUE]
       /\ clock' = IF failed THEN clock ELSE [clock EXCEPT !.started = FALSE, !.offsets = <<>>]
  /\ UNCHANGED <<now, stamp, imu, geometry, pose>>

\* Close, and a Grab that finds the device lost or broken.
Reset ==
  /\ device.streaming
  /\ device' = Closed
  /\ UNCHANGED <<clock, now, stamp, imu, geometry, pose>>

-----------------------------------------------------------------------------
\* The tick follows the one before, or the clock starts anew.
Delta(tick) == (tick - clock.last) % TickRange
Continues(tick) == clock.started /\ Delta(tick) \in 1 .. MaxDelta

\* From the front, offsets are dropped while there are too many or the first is too old.
Dropped(offsets, t) ==
  {i \in DOMAIN offsets : \A j \in 1 .. i :
     Len(offsets) - j + 1 > MaxOffsets \/ t - offsets[j].receive > Window}

Recent(offsets, t) == SubSeq(offsets, Cardinality(Dropped(offsets, t)) + 1, Len(offsets))

Ticked_KeepsOffsets(tick, t) ==
  LET extended == IF Continues(tick) THEN clock.extended + Delta(tick) ELSE tick
  IN [started |-> TRUE, last |-> tick, extended |-> extended,
      offsets |-> Recent(Append(clock.offsets, [receive |-> t, offset |-> t - extended]), t)]

Ticked(tick, t) ==
  LET extended == IF Continues(tick) THEN clock.extended + Delta(tick) ELSE tick
      kept == IF Continues(tick) THEN clock.offsets ELSE <<>>
  IN [started |-> TRUE, last |-> tick, extended |-> extended,
      offsets |-> Recent(Append(kept, [receive |-> t, offset |-> t - extended]), t)]

\* The least latency seen dates the frame.
CaptureTime(c) == c.extended + Min({c.offsets[i].offset : i \in DOMAIN c.offsets})

Trusted(tick, c) == Continues(tick) /\ Len(c.offsets) >= MinOffsets

-----------------------------------------------------------------------------
\* Attach: the generation is read before and after the pose and once more; a
\* session that changed in between, or a capture time that did not rise, leaves
\* the frame without a pose.  The buffer may not match the intrinsics, and the
\* IMU may have no sample.
Agrees(frame, before) ==
  geometry.generation = before /\ ~(geometry.last.set /\ frame.time <= geometry.last.time)

Attach(frame) ==
  \E before \in imu .. MaxGeneration : \E after \in before .. MaxGeneration :
  \E found, matches \in BOOLEAN :
    /\ imu' \in after .. MaxGeneration
    /\ pose' = IF matches /\ frame.set /\ Agrees(frame, before) /\ found /\ before = after
               THEN frame ELSE pose
    /\ geometry' = [generation |-> imu', last |-> frame]

\* A buffer arrives.  The clock follows it even if its image is then refused; a
\* buffer that cannot be given back closes the device.
Grab ==
  /\ device.streaming
  /\ \E interval \in Intervals, tick \in 0 .. TickRange - 1, outcome \in {"ok", "invalid", "fatal"} :
       /\ now + interval <= MaxTime
       /\ now' = now + interval
       /\ clock' = Ticked(tick, now')
       /\ LET frame == IF Trusted(tick, clock')
                       THEN [set |-> TRUE, time |-> CaptureTime(clock')] ELSE Unset
          IN IF outcome = "ok"
             THEN /\ device' = device
                  /\ stamp' = IF frame.set THEN frame ELSE stamp
                  /\ Attach(frame)
             ELSE /\ device' = IF outcome = "fatal" THEN Closed ELSE device
                  /\ UNCHANGED <<stamp, imu, geometry, pose>>

Next == Open \/ Reset \/ Grab

Spec == Init /\ [][Next]_vars

-----------------------------------------------------------------------------
\* The estimated capture times rise from frame to frame and never pass the
\* reception, however the latency varies, whichever offsets grow too old and
\* whatever the tick does (mindvision_device.cpp 339-364): RealFrameGeometry
\* never refuses a frame for its order.
StampRises == stamp' # stamp => stamp'.time \in stamp.time + 1 .. now'
=============================================================================
