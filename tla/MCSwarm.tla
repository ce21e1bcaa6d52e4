------------------------------ MODULE MCSwarm ------------------------------
(* Instances of Swarm for TLC. *)
EXTENDS Swarm, TLC

Symmetry == Permutations(Peers) \cup Permutations(Requests)
=============================================================================
