-------------------------------- MODULE MCLRU --------------------------------
(* LRU with a hash function under which two of the keys collide.           *)
EXTENDS LRU, TLC

CONSTANTS k1, k2, k3, k4

\* k1 and k2 share a slot in every table, k3 and k1 in the smaller ones
Colliding == (k1 :> 0 @@ k2 :> 0 @@ k3 :> 4 @@ k4 :> 5)

ValueSymmetry == Permutations(Values) \cup Permutations(Threads)
=============================================================================
