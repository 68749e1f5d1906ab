----------------------------- MODULE RandomCache -----------------------------
(***************************************************************************)
(* The random-replacement backing of cache/simple/random.c on the          *)
(* HashTable, with one thread of main.c as its client: a get, and then a   *)
(* request if it found nothing, or none (main.c:195-206).  A get answers   *)
(* the DQHTEntry of the key and not its value; main.c compares it with     *)
(* NULL only.                                                              *)
(***************************************************************************)
EXTENDS HashTable

CONSTANT CacheSize    \* cache_size given to rc_create

ASSUME CacheSizeAssumption == CacheSize \in Nat \ {0}

VARIABLES
    ht,
    missed,    \* the key whose get returned NULL, to be requested next
    written,   \* history: the value last stored and not evicted, by key
    released   \* history: the values requests have destroyed

vars == <<ht, missed, written, released>>

Init ==
    /\ ht = Create
    /\ missed = NULL
    /\ written = [k \in Keys |-> NULL]
    /\ released = {}

\* what rc_get and ht_get answer: the address of the node
Answer(k) == IF Found(ht, k) THEN HitNode(ht, k) ELSE NULL

RcGet(k) ==
    /\ ht.fault = "none" /\ missed = NULL
    /\ missed' = IF Answer(k) = NULL THEN k ELSE NULL
    /\ UNCHANGED <<ht, written, released>>

\* main.c:195-206 only reports that the key is not there
SkipRequest ==
    /\ ht.fault = "none" /\ missed # NULL
    /\ missed' = NULL
    /\ UNCHANGED <<ht, written, released>>

\* rc_evict_random picks slots until it meets an empty one, and reads the key
\* of the entry that is not there
EvictRandom(t) ==
    [t EXCEPT !.fault = IF \E j \in DOMAIN t.items : t.items[j] = NULL THEN "abort" ELSE "hung"]

\* A value that ht_insert has overridden is destroyed.
RcRequest(k, v) ==
    /\ ht.fault = "none" /\ k = missed
    /\ missed' = NULL
    /\ IF ht.count >= CacheSize
       THEN ht' = EvictRandom(ht) /\ UNCHANGED <<written, released>>
       ELSE LET r == HtInsert(ht, k, v)
            IN  /\ ht' = r.table
                /\ written' = IF r.result = -1 THEN written ELSE [written EXCEPT ![k] = v]
                /\ released' = released \cup ({r.overridden} \ {NULL})


\* the value of the entry goes to the caller, whose it is from then on
RcEvictByKey(k) ==
    /\ ht.fault = "none" /\ missed = NULL
    /\ ht' = IF Found(ht, k) THEN Deleted(ht, HitSlot(ht, k)).table ELSE ht
    /\ written' = [written EXCEPT ![k] = NULL]
    /\ UNCHANGED <<missed, released>>

\* rc_destroy: ht_destroy frees the nodes it meets in the slots, and not what
\* they point to
RcDestroy ==
    /\ ht.fault = "none" /\ missed = NULL
    /\ ht' = [Create EXCEPT !.fault = "destroyed",
                            !.node = [n \in Nodes |->
                                IF \E j \in DOMAIN ht.items : ht.items[j] = n THEN Free ELSE ht.node[n]]]
    /\ written' = [k \in Keys |-> NULL]
    /\ UNCHANGED <<missed, released>>

Lost == ht.fault # "none" /\ UNCHANGED vars

Next ==
    \/ \E k \in Keys : RcGet(k)
    \/ SkipRequest
    \/ \E k \in Keys, v \in Values : RcRequest(k, v)
    \/ \E k \in Keys : RcEvictByKey(k)
    \/ RcDestroy
    \/ Lost

Spec == Init /\ [][Next]_vars

-----------------------------------------------------------------------------
(* Properties                                                              *)

\* A get answers the node of the key asked for, still allocated and holding
\* the value last stored, or NULL when nothing is stored or it was evicted:
\* deletions leave holes that lookups pass over, and no second entry for a key
\* appears behind one.
GetExact ==
    \A k \in Keys :
        IF written[k] = NULL THEN Answer(k) = NULL
        ELSE /\ Answer(k) \in Nodes
             /\ ht.node[Answer(k)].key = k
             /\ ht.node[Answer(k)].ptr = written[k]

\* The table holds no more entries than the cache was created for, and count
\* is their number after any resizes and deletions.
Bounded ==
    /\ ht.count = Cardinality({k \in Keys : Found(ht, k)})
    /\ ht.count <= CacheSize

\* Holes left by evictions, failed requests, rehashing and skipped requests
\* together lose no entry, keep no second one, let no count drift, let no
\* request destroy a value that the table still held, and leave no node behind
\* that rc_destroy would not find.
TableExact ==
    /\ GetExact /\ Bounded
    /\ released = {}
    /\ ht.fault = "destroyed" => \A n \in Nodes : ~Live(ht, n)
=============================================================================
