------------------------------- MODULE MCRaft -------------------------------
(* Raft for TLC: interchangeable servers and commands. *)
EXTENDS Raft, TLC

Symmetry == Permutations(Server) \cup Permutations(Command)
=============================================================================
