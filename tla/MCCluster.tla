------------------------------ MODULE MCCluster ------------------------------
(* Cluster on a small instance: three nodes of unequal weights. *)
EXTENDS Cluster, TLC

CONSTANTS n1, n2, n3

Three == <<n1, n2, n3>>

Weights == (n1 :> 1) @@ (n2 :> 2) @@ (n3 :> 1)
==============================================================================
