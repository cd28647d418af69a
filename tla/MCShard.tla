------------------------------ MODULE MCShard ------------------------------
(* Shard on small instances: the hash of a key is given by its rank. *)
EXTENDS Shard, TLC

CONSTANTS a, b, c, d

Symmetry == Permutations(Key)

OneBucket == [k \in Key |-> 0]

TwoBuckets == [k \in Key |-> IF k = a THEN 0 ELSE 1]
=============================================================================
