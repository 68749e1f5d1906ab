--------------------------------- MODULE LRU ---------------------------------
(***************************************************************************)
(* The LRU backing of cache/lru/lru.c on the pointer-level table of DQHT,  *)
(* behind the lock of cache/cache.c, shared by the threads of main.c: each *)
(* one runs a get and, if that found nothing, a request for the key.  The  *)
(* backing runs under the write lock, so an operation is one step; what a  *)
(* thread does with its result is done after the unlock.                   *)
(***************************************************************************)
EXTENDS DQHT

CONSTANTS
    CacheSize,   \* cache_size given to lru_create
    Threads

ASSUME CacheSizeAssumption == CacheSize \in Nat \ {0}

VARIABLES
    dqht,
    th,          \* missed: the key to request; evicted: the out parameter
    allocated,   \* the values that exist: result_copy makes one
    reply,       \* value: what the last get returned; evicted: what was handed over
    closed       \* cache_destroy: "open", or whether it reported success

vars == <<dqht, th, allocated, reply, closed>>

Idle == [missed |-> NULL, evicted |-> NULL]

Init ==
    /\ dqht = Create
    /\ th = [t \in Threads |-> Idle]
    /\ allocated = {}
    /\ reply = [value |-> NULL, evicted |-> NULL]
    /\ closed = "open"

IsFullMutant(t) == t.count > CacheSize
IsFull(t) == t.count >= CacheSize

TouchedLostMutant(t, k) == Remove(t, k, TRUE)
TouchedMutant(t, k) == [table |-> t, answer |-> Get(t, k).answer]

\* lru_get: r took the entry out, and it is inserted again at the tail
Restored(r, p) ==
    [table |-> p.table,
     answer |-> Answer(0, IF p.answer.result = 0 THEN r.answer.value ELSE NULL, << >>)]
Reinserted(r, k) ==
    IF r.answer.result # 0 THEN r
    ELSE Restored(r, Push(r.table, k, r.answer.value, TRUE))
Touched(t, k) == Reinserted(Remove(t, k, TRUE), k)

\* lru_request: room is made, by e, before the key is looked up
Stored(e, full, p) ==
    [table |-> p.table, evicted |-> e.answer.value,
     result |-> IF p.answer.result # 0 THEN -1 ELSE IF full THEN 1 ELSE 0,
     destroyed |-> Range(p.answer.destroyed)]
Admitted(e, full, k, v) ==
    IF full /\ e.answer.value = NULL
    THEN [table |-> e.table, result |-> -1, evicted |-> NULL, destroyed |-> {}]
    ELSE Stored(e, full, Push(e.table, k, v, TRUE))
Requested(t, k, v) ==
    Admitted(IF IsFull(t) THEN PopFront(t) ELSE [table |-> t, answer |-> Answer(0, NULL, << >>)],
             IsFull(t), k, v)

-----------------------------------------------------------------------------
(* The threads                                                             *)

Open == dqht.fault = "none" /\ closed = "open"

\* A call that loses the process answers nothing.
Keep(t, answered) ==
    IF t.fault = "none" THEN dqht' = t /\ answered
    ELSE dqht' = [dqht EXCEPT !.fault = t.fault] /\ UNCHANGED <<th, allocated, reply>>

LruGet(t, k) ==
    /\ Open /\ th[t] = Idle
    /\ \E r \in {Touched(dqht, k)} :
         Keep(r.table,
              /\ reply' = [value |-> r.answer.value, evicted |-> NULL]
              /\ th' = [th EXCEPT ![t].missed = IF r.answer.value = NULL THEN k ELSE NULL]
              /\ UNCHANGED allocated)
    /\ UNCHANGED closed

\* main.c gives up the process when a request fails
LruRequest(t, v) ==
    /\ Open /\ th[t].missed # NULL /\ v \notin allocated
    /\ \E r \in {Requested(dqht, th[t].missed, v)} :
         IF r.table.fault = "none" /\ r.result = -1
         THEN dqht' = [dqht EXCEPT !.fault = "exit"] /\ UNCHANGED <<th, allocated, reply>>
         ELSE Keep(r.table,
                   /\ reply' = [value |-> NULL, evicted |-> r.evicted]
                   /\ th' = [th EXCEPT ![t] = [missed |-> NULL, evicted |-> r.evicted]]
                   /\ allocated' = (allocated \cup {v}) \ r.destroyed)
    /\ UNCHANGED closed

LruEvict(t) ==
    /\ Open /\ th[t] = Idle
    /\ \E r \in {PopFront(dqht)} :
         Keep(r.table,
              /\ reply' = [value |-> NULL, evicted |-> r.answer.value]
              /\ th' = [th EXCEPT ![t].evicted = r.answer.value]
              /\ UNCHANGED allocated)
    /\ UNCHANGED closed

\* DESTROY_EVICTED_ENTRY, outside the lock
DestroyEvicted(t) ==
    /\ Open /\ th[t].evicted # NULL
    /\ allocated' = allocated \ {th[t].evicted}
    /\ th' = [th EXCEPT ![t].evicted = NULL]
    /\ UNCHANGED <<dqht, reply, closed>>

\* cache_destroy after the join.  lru_destroy returns nothing, and its caller
\* reads a result all the same: it may be anything.
CacheDestroy ==
    /\ Open /\ th = [t \in Threads |-> Idle]
    /\ \E r \in {Destroyed(dqht, TRUE)} :
         /\ Keep(r.table,
                 /\ allocated' = allocated \ Range(r.answer.destroyed)
                 /\ reply' = [value |-> NULL, evicted |-> NULL]
                 /\ UNCHANGED th)
         /\ closed' \in IF r.table.fault = "none" THEN {"ok", "failed"} ELSE {"open"}

Stopped == ~Open /\ UNCHANGED vars

Next ==
    \/ \E t \in Threads, k \in Keys : LruGet(t, k)
    \/ \E t \in Threads, v \in Values : LruRequest(t, v)
    \/ \E t \in Threads : LruEvict(t) \/ DestroyEvicted(t)
    \/ CacheDestroy
    \/ Stopped

Spec == Init /\ [][Next]_vars

-----------------------------------------------------------------------------
(* Properties                                                              *)

\* The cache holds no more entries than it was created for, every stored node
\* is on the recency list, and the table reaches it by its index.
Consistent ==
    LET stored == {n \in Nodes : Live(dqht, n)}
    IN  /\ dqht.count = Cardinality(stored) /\ dqht.count <= CacheSize
        /\ Chain(dqht) = stored
        /\ \A n \in stored : dqht.items[dqht.node[n].index] = n

\* No operation walks a cyclic list or reads a freed node.
NoFault == dqht.fault \notin {"hung", "abort"}

\* Every value belongs to one entry of the table or to the one thread it was
\* handed to, and every value that exists belongs somewhere: nothing is freed
\* twice, used after it was freed, or leaked by an override, an eviction or a
\* get that takes its entry out of the table for a moment.
OwnedOnce ==
    LET holders(v) == {n \in Nodes : Live(dqht, n) /\ dqht.node[n].ptr = v} \cup
                      {t \in Threads : th[t].evicted = v}
    IN  \A v \in Values : Cardinality(holders(v)) = IF v \in allocated THEN 1 ELSE 0

Pairs ==
    LET list == Listed(dqht)
    IN  [i \in DOMAIN list |-> <<dqht.node[list[i]].key, dqht.node[list[i]].ptr>>]

Recency == INSTANCE RecencyCache WITH Capacity <- CacheSize, order <- Pairs

\* Two threads missed k and both requested it; the eviction of the second request
\* left a hole before the node that the first one stored, and ht_insert, which
\* stops there, has stored k again.
Twice ==
    \E m, n \in Nodes : m # n /\ Live(dqht, m) /\ Live(dqht, n) /\ dqht.node[m].key = dqht.node[n].key

\* A get returns the last value requested for its key, and the least recently
\* used entry is the one given up, in every step between states in which no key
\* is stored twice: colliding keys, holes, a growing table and a second thread
\* that stores the key another one has missed make no other difference.
ImplementsRecencyCache ==
    Recency!Init /\ [][Twice \/ Twice' \/ Recency!Next]_(Recency!vars)
=============================================================================
