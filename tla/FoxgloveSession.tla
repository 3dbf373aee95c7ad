------------------------- MODULE FoxgloveSession --------------------------
(***************************************************************************)
(* The owner of the two debug outputs, the live WebSocket server and the   *)
(* MCAP recording, and of the subscription counters that the server's      *)
(* callbacks keep (tool/foxglove/runtime/foxglove_session.cpp and          *)
(* subscription_registry.cpp).  Each output is set up, fails and closes on *)
(* its own.                                                                *)
(***************************************************************************)
EXTENDS Naturals

CONSTANTS
  Topics,      \* the live channels, by topic
  MaxClients   \* bound of the model on the subscribers of a channel

VARIABLES
  output,      \* "off", "configured" or "active", for each output
  subscribers  \* SubscriptionRegistry: the subscribers of each channel

sessionVars == <<output, subscribers>>

Sinks == {"live", "mcap"}

\* Enabled Foxglove always has the live output; recording is an option.
SessionInit ==
  /\ output \in {[s \in Sinks |-> "configured"],
                 [s \in Sinks |-> IF s = "live" THEN "configured" ELSE "off"]}
  /\ subscribers = [c \in Topics |-> 0]

Configured == {s \in Sinks : output[s] = "configured"}
Active(s) == output[s] = "active"
AnyActive == \E s \in Sinks : Active(s)

\* FailLiveSetup, FailRecordingSetup: the other output is left alone.
FailSetup(failed) ==
  output' = [s \in Sinks |-> IF s \in failed THEN "off" ELSE output[s]]

\* Start: each configured output comes up or is given up, independently.
StartSinks(up) ==
  /\ up \subseteq Configured
  /\ output' = [s \in Sinks |-> IF s \in up THEN "active" ELSE "off"]
  /\ UNCHANGED subscribers

\* What a batch of publish errors leaves active: a fatal one (sink closed,
\* I/O, MCAP) ends its own output only.
OutputAfter(errors) ==
  [s \in Sinks |-> IF errors[s] = "fatal" THEN "off" ELSE output[s]]

ErrorKinds == {"none", "minor", "fatal"}

\* The callbacks of the server.  A server that runs has all its channels
\* registered: a publisher that failed to create one gave the output up.
\* (Nothing reads the counters of a live output that has failed.)
Subscribe(c) ==
  /\ Active("live")
  /\ subscribers[c] < MaxClients
  /\ subscribers' = [subscribers EXCEPT ![c] = @ + 1]
  /\ UNCHANGED output

\* The count never falls below zero.
Unsubscribe(c) ==
  /\ Active("live") /\ subscribers[c] > 0
  /\ subscribers' = [subscribers EXCEPT ![c] = @ - 1]
  /\ UNCHANGED output

Demanded == {c \in Topics : subscribers[c] > 0}

\* Stop: the file gets its footer, the server goes.
StopSession ==
  /\ output' = [s \in Sinks |-> "off"]
  /\ UNCHANGED subscribers
===========================================================================
