---------------------------- MODULE MC_TaskGraph ----------------------------
(* Instantiations of TaskGraph for TLC.  A, B, C, U, W are tasks, C1, C2      *)
(* client threads, N1..N3 successor list nodes (model values in the cfgs). *)
EXTENDS TaskGraph, TLC

CONSTANTS A, B, C, U, W, C1, C2, N1, N2, N3

\* Fan-in: A -> B, A -> C, B -> C.  C1 owns A and B, C2 owns C and orders it
\* after A and B through completion handles C1 hands over.
OwnerFanIn == (A :> C1) @@ (B :> C1) @@ (C :> C2)
EdgesFanIn == {<<A, B>>, <<A, C>>, <<B, C>>}

\* Fan-in for liveness: one client owns all three tasks, adding the edges
\* before or after submitting the predecessors (through its completion
\* handles) while their bodies run.
OwnerFanInOne == (A :> C1) @@ (B :> C1) @@ (C :> C1)

\* Transfer: the body of A owns U and transfers A's successors to it while
\* C1 (owner of B) and C2 (owner of C) add edges from A concurrently.
OwnerTransfer == (A :> C1) @@ (B :> C1) @@ (C :> C2) @@ (U :> A)
EdgesTransfer == {<<A, B>>, <<A, C>>}
TransferPairs == {<<A, U>>}

\* Drop: C2 orders its task C after C1's task A, and may destroy C's handle
\* instead of submitting it; completion handles on A are copied and moved.
OwnerDrop == (A :> C1) @@ (C :> C2)
EdgesDrop == {<<A, C>>}

\* Chain: the body of A transfers A's successors to U, which it owns and
\* submits; the body of U transfers them on to W.  C1 orders B after A,
\* with A's task_handle before A runs or with a completion handle on A
\* while the transfers happen.
OwnerChain == (A :> C1) @@ (B :> C1) @@ (U :> A) @@ (W :> U)
EdgesChain == {<<A, B>>}
ChainPairs == {<<A, U>>, <<U, W>>}
=============================================================================
