------------------------------- MODULE MCKured -------------------------------
(* Instances of the kured daemons, for TLC. *)
EXTENDS Kured, TLC

NodeSymmetry == Permutations(Nodes)
=============================================================================
