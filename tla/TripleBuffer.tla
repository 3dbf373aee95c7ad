------------------------------ MODULE TripleBuffer ------------------------------
(***************************************************************************)
(* The triple buffer in shared memory by which the Talos simulator and the *)
(* vision process exchange frames and commands (talos_ipc_layout.hpp).     *)
(* Every index is one of the three slots: write is the producer's, read    *)
(* the consumer's, and the atomic state holds the third with a flag that   *)
(* says whether its content is new.  Both sides swap their slot with it:   *)
(* first the state, then, in a step of its own, their index.               *)
(***************************************************************************)
EXTENDS Naturals

Index == 0 .. 2

Buffer == [state : Index, fresh : BOOLEAN, write : Index, read : Index]

\* As the simulator creates it.
FreshBuffer == [state |-> 1, fresh |-> FALSE, write |-> 0, read |-> 2]

\* The producer offers its slot and gets back the one in the state.
Offered(b) == [b EXCEPT !.state = b.write, !.fresh = TRUE]

Rewound(b, old) == [b EXCEPT !.write = old]

\* The slot it gives back still counts as new.
Taken_StaysFresh(b) == [b EXCEPT !.state = b.read]

\* The consumer takes the new slot and gives back the one it has read.
Taken(b) == [b EXCEPT !.state = b.read, !.fresh = FALSE]
Advanced(b, ready) == [b EXCEPT !.read = ready]

Apart(w, s, r) == w # s /\ s # r /\ r # w
=============================================================================
