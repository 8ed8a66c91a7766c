------------------------------ MODULE MCTaints ------------------------------
(* An instance of the taint of one node, for TLC. *)
EXTENDS Taints, TLC

TaintSymmetry == Permutations(OtherTaints)
=============================================================================
