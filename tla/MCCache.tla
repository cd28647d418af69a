------------------------------ MODULE MCCache ------------------------------
(* Cache on small instances: hashes that meet in some tables and part in     *)
(* others, and who may call what.                                            *)
EXTENDS Cache

CONSTANTS k1, k2, k3, g1, g2

Hashes == [k \in Key |-> CASE k = k1 -> 1 [] k = k2 -> 2 [] OTHER -> 3]

Alone == [g \in Goroutine |-> {"get", "set", "del", "resize"}]

Readers == [g \in Goroutine |->
               IF g = g1 THEN {"get", "resize", "setRehasher"} ELSE {"get", "close"}]

WriterAndReader == [g \in Goroutine |-> IF g = g1 THEN {"set", "resize"} ELSE {"get"}]

WriterAndResizer == [g \in Goroutine |-> IF g = g1 THEN {"set"} ELSE {"resize"}]
=============================================================================
