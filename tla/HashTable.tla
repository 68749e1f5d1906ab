------------------------------ MODULE HashTable ------------------------------
(***************************************************************************)
(* The open-addressing HashTable of cache/hashtable/cache_hashtable.c and  *)
(* its DQHTEntry nodes (cache/dequeue_hashtable/dq_ht_entry.c), as         *)
(* operators on a record t:                                                *)
(*   items, size, count   the HashTable struct                             *)
(*   node                 the heap of DQHTEntry structs, by address        *)
(*   head, tail           the DequeueHashTable struct (see DQHT)           *)
(*   fault                "none", or how the process was lost              *)
(* A node whose key is NULL is free memory.                                *)
(***************************************************************************)
EXTENDS Integers, FiniteSets, FiniteSetsExt

CONSTANTS
    Keys, Values,
    Hash,       \* fnv1a_hash or meiyan_hash of each key
    InitSize,   \* size given to ht_create
    MaxSize,    \* am_calloc refuses a larger items array
    MaxNodes,   \* am_malloc refuses more DQHTEntry structs than this
    NULL

ASSUME HashAssumption == Hash \in [Keys -> Nat]
ASSUME TableSizeAssumption == InitSize \in Nat \ {0} /\ MaxSize \in Nat
ASSUME NodesAssumption == MaxNodes \in Nat \ {0}
ASSUME TableNullAssumption == NULL \notin Keys \cup Values \cup Nat

Nodes == 1 .. MaxNodes

Free == [key |-> NULL, ptr |-> NULL, prev |-> NULL, next |-> NULL, index |-> 0]

Live(t, n) == t.node[n].key # NULL

\* ht_create and dqht_create
Create ==
    [items |-> [j \in 0 .. InitSize - 1 |-> NULL], size |-> InitSize, count |-> 0,
     head |-> NULL, tail |-> NULL, node |-> [n \in Nodes |-> Free], fault |-> "none"]

-----------------------------------------------------------------------------
(* Probing                                                                 *)

\* the i-th index probed for key k
Probe(t, k, i) == (Hash[k] + i) % t.size

Match(t, k, j) == t.items[j] # NULL /\ t.node[t.items[j]].key = k

HitsMutant(t, k) ==
    {i \in 0 .. t.size - 1 : /\ Match(t, k, Probe(t, k, i))
                             /\ \A j \in 0 .. i : t.items[Probe(t, k, j)] # NULL}

\* ht_get, ht_delete and dqht_remove look at every slot, empty ones included
Hits(t, k) == {i \in 0 .. t.size - 1 : Match(t, k, Probe(t, k, i))}
Found(t, k) == Hits(t, k) # {}
HitSlot(t, k) == Probe(t, k, Min(Hits(t, k)))
HitNode(t, k) == t.items[HitSlot(t, k)]

\* ht_insert stops at the first empty slot
Stops(t, k) ==
    {i \in 0 .. t.size - 1 : t.items[Probe(t, k, i)] = NULL \/ Match(t, k, Probe(t, k, i))}
InsertSlot(t, k) ==
    LET stops == Stops(t, k)
    IN  Probe(t, k, IF stops = {} THEN 0 ELSE Min(stops))

-----------------------------------------------------------------------------
(* ht_resize                                                               *)

PlacedMutant(r, k, n) ==
    LET slot == InsertSlot(r, k)
    IN  IF r.items[slot] # NULL THEN [r EXCEPT !.ok = FALSE] ELSE [r EXCEPT !.items[slot] = n]

\* ht_resize_insert: the new table r with node n placed in it, or refused
\* because its key is met on the way
Placed(r, k, n) ==
    LET slot == InsertSlot(r, k)
    IN  IF r.items[slot] # NULL THEN [r EXCEPT !.ok = FALSE]
        ELSE [r EXCEPT !.items[slot] = n, !.node[n].index = slot]

GrowsMutant(t) == t.count >= t.size
Grows(t) == t.count >= t.size \div 2

\* The table after the first i slots were moved, for every i.  A key that
\* occurs twice ends the loop early.
Moves(t) ==
    LET first == [items |-> [j \in 0 .. 2 * t.size - 1 |-> NULL], size |-> 2 * t.size,
                  node |-> t.node, ok |-> TRUE]
        M[i \in 0 .. t.size] ==
            IF i = 0 THEN first
            ELSE LET r == M[i - 1]
                     n == t.items[i - 1]
                 IN  IF ~r.ok \/ n = NULL THEN r ELSE Placed(r, t.node[n].key, n)
    IN  M
Moved(t) == Moves(t)[t.size]

\* ht_resize: a loop that ended early leaves the old table in place, with the
\* indexes of the nodes it had moved
Resized(t) ==
    IF 2 * t.size > MaxSize THEN [ok |-> FALSE, table |-> t]
    ELSE LET r == Moved(t)
         IN  [ok |-> r.ok,
              table |-> IF r.ok
                        THEN [t EXCEPT !.items = r.items, !.size = r.size, !.node = r.node]
                        ELSE [t EXCEPT !.node = r.node]]

-----------------------------------------------------------------------------
(* ht_insert and ht_delete_entry                                           *)

\* addresses am_malloc can return: nothing points to them any more
FreeNodes(t) ==
    LET pointers == {t.head, t.tail} \cup
                    UNION {{t.node[n].prev, t.node[n].next} : n \in {m \in Nodes : Live(t, m)}}
    IN  {n \in Nodes : ~Live(t, n) /\ n \notin pointers}

Failed(t) == [table |-> t, result |-> -1, entry |-> NULL, overridden |-> NULL]

\* a table with room: override the value of the key, or create its node
Put(t, k, v) ==
    LET slot == InsertSlot(t, k)
        n == t.items[slot]
        free == FreeNodes(t)
        new == Min(free)
    IN  IF n # NULL /\ Match(t, k, slot)
        THEN [table |-> [t EXCEPT !.node[n].ptr = v], result |-> 1, entry |-> n,
              overridden |-> t.node[n].ptr]
        ELSE IF free = {} THEN Failed([t EXCEPT !.items[slot] = NULL])
        ELSE [table |-> [t EXCEPT !.items[slot] = new, !.count = @ + 1,
                                  !.node[new] = [key |-> k, ptr |-> v, prev |-> NULL,
                                                 next |-> NULL, index |-> slot]],
              result |-> 0, entry |-> new, overridden |-> NULL]

HtInsert(t, k, v) ==
    LET r == Resized(t)
    IN  IF ~Grows(t) THEN Put(t, k, v)
        ELSE IF r.ok THEN Put(r.table, k, v) ELSE Failed(r.table)

DeletedMutant(t, j) ==
    IF j >= t.size THEN [table |-> [t EXCEPT !.fault = "abort"], value |-> NULL]
    ELSE IF t.items[j] = NULL THEN [table |-> t, value |-> NULL]
    ELSE [table |-> [t EXCEPT !.items[j] = NULL, !.count = @ - 2, !.node[t.items[j]] = Free],
          value |-> t.node[t.items[j]].ptr]

\* An index beyond the array is a read out of bounds.
Deleted(t, j) ==
    IF j >= t.size THEN [table |-> [t EXCEPT !.fault = "abort"], value |-> NULL]
    ELSE IF t.items[j] = NULL THEN [table |-> t, value |-> NULL]
    ELSE [table |-> [t EXCEPT !.items[j] = NULL, !.count = @ - 1, !.node[t.items[j]] = Free],
          value |-> t.node[t.items[j]].ptr]
=============================================================================
