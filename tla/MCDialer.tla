------------------------------ MODULE MCDialer ------------------------------
(* Instances of Dialer for TLC. *)
EXTENDS Dialer, TLC

Symmetry == Permutations(Dials) \cup Permutations(Peers)
=============================================================================
