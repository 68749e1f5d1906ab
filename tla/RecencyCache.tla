---------------------------- MODULE RecencyCache ----------------------------
(***************************************************************************)
(* What the LRU backing promises (lru.h): the last value stored for each   *)
(* of at most Capacity keys, the least recently used key given up first.   *)
(***************************************************************************)
EXTENDS Integers, Sequences

CONSTANTS Keys, Values, Capacity, NULL

VARIABLES
    order,   \* <<key, value>> pairs, least recently used first
    reply    \* value: what a get returned; evicted: the value handed over

vars == <<order, reply>>

Reply(value, evicted) == reply' = [value |-> value, evicted |-> evicted]
With(k) == {i \in DOMAIN order : order[i][1] = k}
Others(s, k) == SelectSeq(s, LAMBDA p : p[1] # k)

Init == order = << >> /\ reply = [value |-> NULL, evicted |-> NULL]

Hit(k) ==
    \E i \in With(k) :
        /\ order' = Append(Others(order, k), order[i])
        /\ Reply(order[i][2], NULL)

Miss(k) == With(k) = {} /\ Reply(NULL, NULL) /\ UNCHANGED order

\* room is made first, then the key is stored as the most recent one
Store(k, v) ==
    IF Len(order) < Capacity
    THEN order' = Append(Others(order, k), <<k, v>>) /\ Reply(NULL, NULL)
    ELSE order' = Append(Others(Tail(order), k), <<k, v>>) /\ Reply(NULL, Head(order)[2])

EvictOldest ==
    IF order = << >> THEN Reply(NULL, NULL) /\ UNCHANGED order
    ELSE order' = Tail(order) /\ Reply(NULL, Head(order)[2])

Clear == order' = << >> /\ Reply(NULL, NULL)

Next ==
    \/ \E k \in Keys : Hit(k) \/ Miss(k)
    \/ \E k \in Keys, v \in Values : Store(k, v)
    \/ EvictOldest
    \/ Clear

Spec == Init /\ [][Next]_vars
=============================================================================
