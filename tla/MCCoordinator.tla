---------------------------- MODULE MCCoordinator ----------------------------
(***************************************************************************)
(* Instances of Coordinator for TLC: one Host with a single resource, so   *)
(* that every two workloads overlap.                                       *)
(***************************************************************************)
EXTENDS Coordinator

OneClaim == [w \in Workload |-> Resource]
Ids == Workload \X (0..MaxGen)
=============================================================================
