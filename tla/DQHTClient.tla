----------------------------- MODULE DQHTClient -----------------------------
(***************************************************************************)
(* One DequeueHashTable and a client that calls its functions in any       *)
(* order, as dqht_test.c, lru.c and dlirs.c do.                            *)
(***************************************************************************)
EXTENDS DQHT

CONSTANT FreshOnly    \* the client pushes only keys that are not in the table

ASSUME FreshAssumption == FreshOnly \in BOOLEAN

VARIABLES
    dqht,      \* the table
    answer     \* what the last call returned and gave to the handler

vars == <<dqht, answer>>

Init ==
    /\ dqht = Create
    /\ answer = Answer(0, NULL, << >>)

\* A call that loses the process answers nothing, and what it had written no
\* longer matters.
Return(r) ==
    /\ dqht.fault = "none"
    /\ IF r.table.fault = "none" THEN dqht' = r.table /\ answer' = r.answer
       ELSE dqht' = [dqht EXCEPT !.fault = r.table.fault] /\ UNCHANGED answer

PushKey(k, v, last) ==
    /\ FreshOnly => ~Found(dqht, k)
    /\ Return(Push(dqht, k, v, last))

RemoveKey(k, taken) == Return(Remove(dqht, k, taken))
PopEnd(last) == Return(IF last THEN PopLast(dqht) ELSE PopFront(dqht))
GetKey(k) == Return(Get(dqht, k))
GetEnd(last) == Return(Peeked(dqht, IF last THEN dqht.tail ELSE dqht.head))

\* the table is destroyed and another one created
Recreate(handled) == Return(Destroyed(dqht, handled))

Next ==
    \/ \E k \in Keys, v \in Values, last \in BOOLEAN : PushKey(k, v, last)
    \/ \E k \in Keys, taken \in BOOLEAN : RemoveKey(k, taken)
    \/ \E last \in BOOLEAN : PopEnd(last)
    \/ \E k \in Keys : GetKey(k)
    \/ \E last \in BOOLEAN : GetEnd(last)
    \/ \E handled \in BOOLEAN : Recreate(handled)

Spec == Init /\ [][Next]_vars

-----------------------------------------------------------------------------
(* Properties                                                              *)

Stored == {n \in Nodes : Live(dqht, n)}

\* A node's index is the slot that holds it: dqht_pop_front and dqht_pop_last
\* delete by that index, also after ht_resize has moved every node.
IndexExact ==
    \A n \in Stored : dqht.node[n].index < dqht.size /\ dqht.items[dqht.node[n].index] = n

\* count is the number of stored nodes, and ht_insert's growth keeps the array
\* at most half full, so that a probe always meets an empty slot.
CountExact ==
    /\ dqht.count = Cardinality(Stored)
    /\ dqht.count <= dqht.size \div 2

\* The list read forwards meets every stored node and no other, exactly once.
ForwardExact == Chain(dqht) = Stored /\ ~Cyclic(dqht)

\* The list is doubly linked: prev and next mirror each other up to the ends.
Mirrored ==
    /\ dqht.head # NULL => dqht.node[dqht.head].prev = NULL
    /\ dqht.tail # NULL => dqht.node[dqht.tail].next = NULL
    /\ (dqht.head = NULL) = (dqht.tail = NULL)
    /\ \A n \in Stored :
         /\ dqht.node[n].next # NULL => dqht.node[dqht.node[n].next].prev = n
         /\ dqht.node[n].prev # NULL => dqht.node[dqht.node[n].prev].next = n

\* No operation walks a cyclic list, reads a freed node or deletes through an
\* index outside the array.
NoFault == dqht.fault = "none"

\* The linked list that pushes, pops and removals relink is sound in both
\* directions, and no operation meets a freed or a cyclic part of it.
ListExact == ForwardExact /\ Mirrored /\ NoFault

Pairs ==
    LET list == Listed(dqht)
    IN  [i \in DOMAIN list |-> <<dqht.node[list[i]].key, dqht.node[list[i]].ptr>>]

Map == INSTANCE DequeMap WITH list <- Pairs

\* The pointer structure implements the ordered map.
ImplementsDequeMap == Map!Spec
=============================================================================
