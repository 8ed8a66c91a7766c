---------------------------- MODULE MCLockRollout ----------------------------
(* A rollout on three nodes, one of which has a clock that is ahead. *)
EXTENDS LockRollout, TLC

CONSTANTS n1, n2, n3

Ahead == [n \in Nodes |-> IF n = n1 THEN 1 ELSE 0]
OnTimeSymmetry == Permutations({n2, n3})
=============================================================================
