------------------------------- MODULE MCControl -------------------------------
(***************************************************************************)
(* The control session under two families of inputs, side by side in one   *)
(* state graph: those that start and interrupt pulses (the Inputs of the   *)
(* configuration), and those of failing solves under a policy that does    *)
(* not throw.  The limits that the second family tries are shorter by one. *)
(***************************************************************************)
EXTENDS MCControlSession

VARIABLE family

Fallbacks == INSTANCE ControlSession WITH Inputs <- FallbackInputs, MaxTime <- MaxTime - 1

MCInit == Init /\ family \in {"pulses", "fallbacks"}

MCNext ==
  /\ \/ family = "pulses" /\ Next
     \/ family = "fallbacks" /\ Fallbacks!Next
  /\ UNCHANGED family

MCSpec == MCInit /\ [][MCNext]_<<vars, family>>
=============================================================================
