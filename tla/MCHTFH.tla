------------------------------- MODULE MCHTFH -------------------------------
(* HTFH with small classes: 8 lists per level, of which the second level   *)
(* rounds by 8 bytes and the third by 16.                                  *)
EXTENDS HTFH, TLC

CONSTANT PoolSizes    \* the pools that htfh_create is asked for

\* with a heap too small for its controller, and one that is not aligned
MCHeapSizes == {htfh_size + htfh_pool_overhead + n : n \in PoolSizes} \cup {htfh_size - 8, htfh_size + 2}

Symmetry == Permutations(Threads)
=============================================================================
