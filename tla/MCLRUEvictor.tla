---------------------------- MODULE MCLRUEvictor ----------------------------
(* LRUEvictor with symmetric node addresses.                               *)
EXTENDS LRUEvictor, TLC

NodeSymmetry == Permutations(Nodes)
=============================================================================
