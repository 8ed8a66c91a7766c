---------------------------- MODULE MCLockClients ----------------------------
(* Instances of the lock under any use, for TLC. *)
EXTENDS LockClients, TLC

NodeSymmetry == Permutations(Nodes)
=============================================================================
