------------------------------- MODULE MCRpc -------------------------------
(* Rpc on small instances. *)
EXTENDS Rpc, TLC

CONSTANTS c1, c2, n1

OneOfEach == (c1 :> {"do"}) @@ (c2 :> {"pipe"})
=============================================================================
