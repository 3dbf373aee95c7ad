------------------------------ MODULE RunLifecycle ------------------------------
(***************************************************************************)
(* What a run of the program promises, whatever its threads do: at most    *)
(* one fault is ever latched; only a control loop that is running aims or  *)
(* fires; a verdict is given once and names the latched fault, if it names *)
(* any; and the run ends with a stop as its last command.                  *)
(***************************************************************************)
CONSTANTS
  Fault,       \* the faults that can end a run
  ReasonOf(_)  \* the reason of a failed component

VARIABLES
  fault,    \* the latched fault, {} before
  sending,  \* a control loop is running
  output,   \* the last command handed to the sink
  verdict,  \* why the run is over, {} before
  ended     \* the process is about to exit

vars == <<fault, sending, output, verdict, ended>>

Init ==
  /\ fault = {}
  /\ sending = FALSE
  /\ output = "STOP"
  /\ verdict = {}
  /\ ended = FALSE

Latch ==
  /\ fault = {} /\ ~ended
  /\ fault' # {} /\ fault' \subseteq Fault
  /\ \A f, g \in fault' : f = g
  /\ UNCHANGED <<sending, output, verdict, ended>>

StartSending ==
  /\ ~sending /\ verdict = {} /\ ~ended
  /\ sending' = TRUE
  /\ UNCHANGED <<fault, output, verdict, ended>>

Command ==
  /\ ~ended
  /\ output' \in IF sending THEN {"STOP", "AIM", "FIRE"} ELSE {"STOP"}
  /\ UNCHANGED <<fault, sending, verdict, ended>>

\* With a last stop, or without one.
StopSending ==
  /\ sending /\ ~ended
  /\ sending' = FALSE
  /\ output' \in {output, "STOP"}
  /\ UNCHANGED <<fault, verdict, ended>>

\* "NORMAL" may hide a fault that was latched after the last look at it.
Conclude ==
  /\ verdict = {} /\ ~ended
  /\ verdict' \in {{"NORMAL"}} \cup {{ReasonOf(f.component)} : f \in fault}
  /\ UNCHANGED <<fault, sending, output, ended>>

End ==
  /\ verdict # {} /\ ~sending /\ ~ended
  /\ output' = "STOP"
  /\ ended' = TRUE
  /\ UNCHANGED <<fault, sending, verdict>>

Next == Latch \/ StartSending \/ Command \/ StopSending \/ Conclude \/ End

Spec == Init /\ [][Next]_vars
=============================================================================
