------------------------- MODULE LatestFrameQueue -------------------------
(***************************************************************************)
(* The queue between the vision thread and the debug worker: one frame,    *)
(* the newest wins, and frames are taken at most once a period             *)
(* (tool/foxglove/pipeline/latest_frame_queue.cpp).  The queue is a value; *)
(* its lock makes Push, WaitPop and Stop single steps of their callers.    *)
(***************************************************************************)
EXTENDS Naturals

CONSTANTS
  Period,          \* PERIOD, 1 / image.max_fps, in units of the receive time
  JitterTolerance  \* JITTER_TOLERANCE, the smaller of 2 ms and a tenth of it

\* next = 0 is the default time point: no frame has been taken yet.
EmptyQueue == [frame |-> <<>>, next |-> 0, stopped |-> FALSE]

RateLimited(q, t) == q.next # 0 /\ t + JitterTolerance < q.next

\* A frame that is late by more than a period starts the schedule anew;
\* any other one advances it by one period.
NextDue(q, t) ==
  IF q.next = 0 \/ t > q.next + Period THEN t + Period ELSE q.next + Period

Accepts(q, t) == ~q.stopped /\ ~RateLimited(q, t)

Push(q, item, t) ==
  IF Accepts(q, t)
  THEN [q EXCEPT !.frame = <<item>>, !.next = NextDue(q, t)]
  ELSE q

\* WaitPop returns a frame also after Stop, and nothing only when none is left.
Pop(q) == [q EXCEPT !.frame = <<>>]

StopQueue(q) == [q EXCEPT !.stopped = TRUE]
===========================================================================
