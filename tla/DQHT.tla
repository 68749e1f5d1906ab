-------------------------------- MODULE DQHT --------------------------------
(***************************************************************************)
(* The DequeueHashTable of cache/dequeue_hashtable/dq_hashtable.c at the   *)
(* level of its pointers: a HashTable whose nodes are also a doubly linked *)
(* list.  Operators on the record of HashTable; every operation returns    *)
(* the new table and what the C function returns or hands over.            *)
(***************************************************************************)
EXTENDS HashTable, Sequences

-----------------------------------------------------------------------------
(* dqht_print_table walks the list and reads both neighbours of each node. *)

Following(t, n) == IF n = NULL THEN NULL ELSE t.node[n].next

\* the first MaxNodes + 1 nodes met from the head
Walk(t) ==
    LET W[i \in 0 .. MaxNodes] == IF i = 0 THEN t.head ELSE Following(t, W[i - 1])
    IN  W
Chain(t) == LET w == Walk(t) IN {w[i] : i \in 0 .. MaxNodes} \ {NULL}
Cyclic(t) == Walk(t)[MaxNodes] # NULL

Reads(t, n) == {n, t.node[n].prev, t.node[n].next} \ {NULL}

Printed(t) ==
    LET read == UNION {Reads(t, n) : n \in Chain(t) \cup ({t.tail} \ {NULL})}
    IN  IF t.fault # "none" THEN t
        ELSE IF \E n \in read : ~Live(t, n) THEN [t EXCEPT !.fault = "abort"]
        ELSE IF Cyclic(t) THEN [t EXCEPT !.fault = "hung"] ELSE t

-----------------------------------------------------------------------------
(* Linking                                                                 *)

\* dqht_unlink.  The node keeps its own pointers.
Bypassed(t, n) ==
    LET p == t.node[n].prev
        q == t.node[n].next
    IN  IF t.fault # "none" THEN t
        ELSE IF \E m \in {p, q} \ {NULL} : ~Live(t, m) THEN [t EXCEPT !.fault = "abort"]
        ELSE [t EXCEPT !.head = IF p = NULL THEN q ELSE @,
                       !.tail = IF q = NULL THEN p ELSE @,
                       !.node = [m \in Nodes |->
                           [t.node[m] EXCEPT !.next = IF m = p THEN q ELSE @,
                                             !.prev = IF m = q THEN p ELSE @]]]

Unlinked(t, n) == Printed(Bypassed(Printed(t), n))

\* dqht_insert links at the tail; next is what it was
LinkedLast(t, n) ==
    IF t.tail = NULL THEN [t EXCEPT !.head = n, !.tail = n]
    ELSE [t EXCEPT !.node[t.tail].next = n, !.node[n].prev = t.tail, !.tail = n]

\* dqht_push_front links at the head; prev is what it was
LinkedFront(t, n) ==
    IF t.head = NULL THEN [t EXCEPT !.head = n, !.tail = n]
    ELSE [t EXCEPT !.node[t.head].prev = n, !.node[n].next = t.head, !.head = n]

RelinkedMutant(t, n, last) ==
    IF last THEN LinkedLast(t, n)
    ELSE [t EXCEPT !.node[n].next = t.head, !.head = n, !.tail = IF @ = NULL THEN n ELSE @]

Relinked(t, n, last) == IF last THEN LinkedLast(t, n) ELSE LinkedFront(t, n)

-----------------------------------------------------------------------------
(* The operations                                                          *)

\* what the caller sees: an int result, a value, and the values that were
\* given to entryDestroyHandler
Answer(result, value, destroyed) ==
    [result |-> result, value |-> value, destroyed |-> destroyed]

\* the overridden value goes to the handler, if there is one
Replaced(v) == IF v = NULL THEN << >> ELSE <<v>>

\* dqht_insert = dqht_push_last, and dqht_push_front
Push(t, k, v, last) ==
    LET r == HtInsert(t, k, v)
        u == Printed(IF r.result = 1 THEN Unlinked(r.table, r.entry) ELSE r.table)
    IN  IF r.result = -1 THEN [table |-> r.table, answer |-> Answer(-1, NULL, << >>)]
        ELSE [table |-> IF u.fault # "none" THEN u ELSE Printed(Relinked(u, r.entry, last)),
              answer |-> Answer(0, NULL, Replaced(r.overridden))]

\* dqht_remove, with and without an out parameter for the value
Remove(t, k, taken) ==
    LET d == Deleted(Unlinked(t, HitNode(t, k)), HitSlot(t, k))
    IN  IF ~Found(t, k) THEN [table |-> t, answer |-> Answer(1, NULL, << >>)]
        ELSE [table |-> d.table,
              answer |-> IF taken THEN Answer(0, d.value, << >>)
                         ELSE Answer(0, NULL, <<d.value>>)]

\* dqht_pop_front, dqht_pop_last: n is the head or the tail
Popped(t, n) ==
    LET u == Unlinked(t, n)
        d == Deleted(u, u.node[n].index)
    IN  IF n = NULL THEN [table |-> t, answer |-> Answer(0, NULL, << >>)]
        ELSE IF ~Live(t, n) THEN [table |-> [t EXCEPT !.fault = "abort"],
                                  answer |-> Answer(0, NULL, << >>)]
        ELSE [table |-> d.table, answer |-> Answer(0, d.value, << >>)]
PopFront(t) == Popped(t, t.head)
PopLast(t) == Popped(t, t.tail)

\* the value of node n, NULL if there is no node
Peeked(t, n) ==
    [table |-> IF n # NULL /\ ~Live(t, n) THEN [t EXCEPT !.fault = "abort"] ELSE t,
     answer |-> Answer(0, IF n = NULL THEN NULL ELSE t.node[n].ptr, << >>)]
Get(t, k) == Peeked(t, IF Found(t, k) THEN HitNode(t, k) ELSE NULL)

\* the nodes of the list, front first
Listed(t) ==
    LET w == Walk(t)
        n == Cardinality({i \in 0 .. MaxNodes : w[i] # NULL})
    IN  [i \in 1 .. n |-> w[i - 1]]

\* dqht_destroy_handled, and dqht_destroy which passes no handler: the walk
\* calls the handler, then ht_destroy frees what the array holds
Destroyed(t, handled) ==
    LET list == Listed(t)
        rest == [n \in Nodes |->
                    IF \E j \in DOMAIN t.items : t.items[j] = n THEN Free ELSE t.node[n]]
    IN  [table |-> IF \E n \in Chain(t) : ~Live(t, n) THEN [t EXCEPT !.fault = "abort"]
                   ELSE IF Cyclic(t) THEN [t EXCEPT !.fault = "hung"]
                   ELSE [Create EXCEPT !.node = rest],
         answer |-> Answer(0, NULL,
                           IF handled THEN [i \in DOMAIN list |-> t.node[list[i]].ptr]
                           ELSE << >>)]
=============================================================================
