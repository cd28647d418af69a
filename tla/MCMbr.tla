-------------------------------- MODULE MCMbr --------------------------------
(* Mbr on a small instance: one sample well above the threshold, and one that *)
(* is above it when decided and below it when looked back at.                 *)
EXTENDS Mbr

Rest == [memGrowth |-> 0, hitRate |-> 95, newKeys |-> 10, evictions |-> 10,
         keysGrowth |-> 0, output |-> 0, backlog |-> 0, aof |-> 0, large |-> 0]

Hot == [Rest EXCEPT !.memGrowth = 50, !.hitRate = 70, !.newKeys = 50, !.evictions = 100]

FalsePressure == [Hot EXCEPT !.output = 90]

Samples == {Hot, FalsePressure}

Snapshots == {[cpu |-> 20, mem |-> 50], [cpu |-> 20, mem |-> 90]}
==============================================================================
