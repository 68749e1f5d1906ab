------------------------------- MODULE MCDQHT -------------------------------
(* DQHTClient with small tables and a hash function that always collides.  *)
EXTENDS DQHTClient, TLC

\* every key starts at the same slot, in tables of any size
Colliding == [k \in Keys |-> 7]

\* the keys are alike, and so are the values
AllSymmetry == Permutations(Keys) \cup Permutations(Values)
=============================================================================
