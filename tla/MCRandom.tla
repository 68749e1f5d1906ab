------------------------------ MODULE MCRandom ------------------------------
(* RandomCache with a hash that sends every key to the same slot.          *)
EXTENDS RandomCache, TLC

Colliding == [k \in Keys |-> 3]
=============================================================================
