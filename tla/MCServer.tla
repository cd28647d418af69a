------------------------------ MODULE MCServer ------------------------------
(* Server with two clients, of which it admits one or both, or with a peer. *)
EXTENDS Server

CONSTANTS c1, c2, p1

\* The transport shares nothing with the clients before Close has waited for
\* them: an instance has clients or a peer.
MCInit == Init /\ (maxConns = 0 <=> peers # {})

MCSpec == MCInit /\ [][Next]_vars /\ Fairness
=============================================================================
