---------------------------- MODULE BoundedCache ----------------------------
(***************************************************************************)
(* What a cache backing promises to its client (cache.h, dlirs.h): it      *)
(* holds at most Capacity keys, gives one up only to make room, and hands  *)
(* every key it gives up to the client before it gives up another.         *)
(***************************************************************************)
EXTENDS Integers, FiniteSets

CONSTANTS Keys, Capacity, NULL

VARIABLES
    resident,   \* the keys whose values the cache holds
    out         \* the key given up and not yet collected by the client

vars == <<resident, out>>

Init == resident = {} /\ out = NULL

\* a value is stored, or one that was remembered becomes available again
Admit(k) ==
    /\ k \notin resident
    /\ Cardinality(resident) < Capacity
    /\ resident' = resident \cup {k}
    /\ UNCHANGED out

Evict(k) ==
    /\ k \in resident /\ out = NULL
    /\ Cardinality(resident) = Capacity
    /\ resident' = resident \ {k}
    /\ out' = k

Collect == out # NULL /\ out' = NULL /\ UNCHANGED resident

Clear == resident' = {} /\ UNCHANGED out

Next ==
    \/ \E k \in Keys : Admit(k) \/ Evict(k)
    \/ Collect
    \/ Clear

Spec == Init /\ [][Next]_vars
=============================================================================
