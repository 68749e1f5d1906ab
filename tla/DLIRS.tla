-------------------------------- MODULE DLIRS --------------------------------
(***************************************************************************)
(* DLIRS over its three DequeueHashTables: the policy of DLIRSPolicy on    *)
(* tables that probe linearly and leave a hole where a node is deleted     *)
(* (src/src/cache/hashtable/cache_hashtable.c and                          *)
(* src/src/cache/dequeue_hashtable/dq_hashtable.c).                        *)
(*                                                                         *)
(* A search goes on past a hole and an insertion stops at one, so that an  *)
(* entry whose key the table holds may be stored a second time.  Each      *)
(* table remembers that this happened to it: most of what the counters,    *)
(* the stack and the answers promise holds only until then.                *)
(***************************************************************************)
EXTENDS DLIRSSizes, Sequences, FiniteSets, SequencesExt

CONSTANTS
    Hash,     \* the hash of each key
    HtSize    \* ht_size given to dlirs_create

ASSUME HashAssumption == Hash \in [Keys -> Nat] /\ HtSize \in Nat \ {0}

VARIABLES
    lirs, non_resident_hirs, resident_hirs,
    hirs_limit, lirs_limit,
    hirs_count, lirs_count, demoted, non_resident,
    entry, evicted, call, pc

-----------------------------------------------------------------------------
(* DequeueHashTable                                                        *)

(* A table is the list of its nodes, front first, each an entry and the    *)
(* slot it is stored in, the size of the array, and whether a key has ever *)
(* been stored in it while the table held that key.                        *)
EmptyTable == [list |-> << >>, slot |-> << >>, size |-> HtSize, twice |-> FALSE]

IsEmpty(t) == t.list = << >>
FrontOf(t) == Head(t.list)
Refs(t, e) == Cardinality({i \in DOMAIN t.list : t.list[i] = e})
Emptied(t) == [t EXCEPT !.list = << >>, !.slot = << >>]

\* the slot that a probe for k looks at after n others, in an array of that size
Probe(k, n, size) == (Hash[k] + n) % size

\* how many slots a search for k looks at before slot s
Steps(k, s, size) == CHOOSE n \in 0 .. size - 1 : Probe(k, n, size) = s

Nodes(t, k) == {i \in DOMAIN t.list : KeyOf(t.list[i]) = k}
Holds(t, k) == Nodes(t, k) # {}

\* ht_get goes on past empty slots to the first node of the key
StepsTo(t, i) == Steps(KeyOf(t.list[i]), t.slot[i], t.size)
Pos(t, k) == CHOOSE i \in Nodes(t, k) :
                 \A j \in Nodes(t, k) : j = i \/ StepsTo(t, i) < StepsTo(t, j)
At(t, k) == t.list[Pos(t, k)]

\* ht_delete_entry leaves the slot empty and the other nodes where they are
Drop(t, i) == [t EXCEPT !.list = RemoveAt(@, i), !.slot = RemoveAt(@, i)]
PopFront(t) == Drop(t, 1)
Without(t, k) == Drop(t, Pos(t, k))

\* the first empty slot that a probe for k comes to
FirstFree(k, used, size) ==
    Probe(k, CHOOSE n \in 0 .. size - 1 :
                 /\ Probe(k, n, size) \notin used
                 /\ \A m \in 0 .. n - 1 : Probe(k, m, size) \in used, size)

\* ht_resize: the nodes are placed in an array of twice the size, in the
\* order of their slots
Moved(t) ==
    LET place[s \in 0 .. t.size] ==
            IF s = 0 THEN << >>
            ELSE LET i == CHOOSE i \in DOMAIN t.slot : t.slot[i] = s - 1
                     before == place[s - 1]
                 IN  IF s - 1 \notin ToSet(t.slot) THEN before
                     ELSE (i :> FirstFree(KeyOf(t.list[i]), Range(before), 2 * t.size)) @@ before
    IN  place[t.size]

Grows(t) == Len(t.list) >= t.size \div 2
Grown(t) ==
    LET moved == Moved(t)
    IN  IF Grows(t) THEN [t EXCEPT !.slot = [i \in DOMAIN @ |-> moved[i]], !.size = 2 * @]
        ELSE t

\* ht_resize_insert answers -1 when it meets a key that it has placed already
KeysOnce(s) == \A i, j \in DOMAIN s : KeyOf(s[i]) = KeyOf(s[j]) => i = j
Refuses(t, k) == Grows(t) /\ ~KeysOnce(t.list)

\* ht_insert stops at the first empty slot: it meets a node of k if no slot
\* on the way to it is empty
MeetsAsIs(t, k) ==
    /\ Holds(t, k)
    /\ \A n \in 0 .. StepsTo(t, Pos(t, k)) : Probe(k, n, t.size) \in ToSet(t.slot)
Meets(t, k) == MeetsAsIs(Grown(t), k)

Pushed(t, e) ==
    [t EXCEPT !.list = Append(@, e),
              !.slot = Append(@, FirstFree(KeyOf(e), ToSet(@), t.size)),
              !.twice = @ \/ Holds(t, KeyOf(e))]

\* dqht_insert: a node that is met gets the new entry and goes to the tail of
\* the list, where it must be already for the list to stay a list
Insert(t, e) ==
    LET g == Grown(t)
    IN  IF Meets(t, KeyOf(e)) THEN [g EXCEPT !.list[Len(g.list)] = e] ELSE Pushed(g, e)

InsertHangs(t, k) == Meets(t, k) /\ Pos(Grown(t), k) # Len(t.list)

INSTANCE DLIRSPolicy

-----------------------------------------------------------------------------
(* Properties                                                              *)

Objects == [is_LIR : BOOLEAN, is_demoted : BOOLEAN, in_cache : BOOLEAN, rc : Nat]
Calls == [op : {"none", "get", "request"}, key : Keys \cup {NULL},
          entry : Entries \cup {NULL}, in_cache : BOOLEAN, size : Nat,
          back : {"ret", "eject_lir", "request"},
          result : {"none", "hit", "null", "0"}, contained : BOOLEAN]

Counters == 0 .. SIZE_MAX

\* Every variable has its type: a table lists entries, each in a slot, a
\* counter is a size_t whatever it was decremented from, and no reference
\* counter of an object that is released was 0.
TypeOK ==
    /\ \A t \in {lirs, non_resident_hirs, resident_hirs} :
          t.list \in Seq(Entries) /\ t.twice \in BOOLEAN
    /\ hirs_limit \in Int /\ lirs_limit \in Int
    /\ hirs_count \in Counters /\ lirs_count \in Counters
    /\ demoted \in Counters /\ non_resident \in Counters
    /\ entry \in [Entries -> Objects]
    /\ evicted \in Entries \cup {NULL}
    /\ call \in Calls
    /\ pc \in {"idle", "ret", "ask", "destroyed"} \cup Loops \cup Lost

\* the lists of the three tables
stack   == lirs.list
index   == non_resident_hirs.list
resident == resident_hirs.list

\* A table has been given an entry whose key it held already.  From then on a
\* counter may count an entry once that a table holds twice.
Twice == lirs.twice \/ non_resident_hirs.twice \/ resident_hirs.twice

Running == pc \notin Lost \cup {"destroyed"} /\ ~Twice

\* dlirs_resize keeps the two limits a partition of the cache in which both
\* parts have room, whatever demoted and non_resident are when it divides.
LimitsPartition ==
    /\ hirs_limit + lirs_limit = CacheSize
    /\ hirs_limit \in 1 .. CacheSize - 1

\* Until a key is stored twice the cache never counts more entries than it was
\* created for, at any step of any call: an insertion follows its eviction, no
\* counter wraps around, and resident_hirs is no longer than its counter says.
WithinCapacity ==
    ~Twice => /\ hirs_count + lirs_count <= CacheSize
              /\ Len(resident) <= hirs_count

LirEntries == {e \in ToSet(stack) : entry[e].is_LIR}
NonResident == {e \in ToSet(stack) : ~entry[e].in_cache}
DemotedEntries == {e \in ToSet(resident) : entry[e].is_demoted}

\* Until a key is stored twice the counters that decide evictions and the two
\* limits are, between any two steps, the number of entries they stand for.
CountersExact ==
    Running => /\ hirs_count = Len(resident)
               /\ lirs_count = Cardinality(LirEntries)
               /\ non_resident = Cardinality(NonResident)
               /\ demoted = Cardinality(DemotedEntries)

\* a stands nearer to the front of s than b
Before(s, a, b) == \E i, j \in DOMAIN s : i < j /\ s[i] = a /\ s[j] = b

\* non_resident_hirs holds exactly the entries of the stack that are not LIR,
\* in stack order: dlirs_limit_stack then drops the oldest of the stack.
StackAgrees ==
    Running =>
        /\ ToSet(index) = {e \in ToSet(stack) : ~entry[e].is_LIR}
        /\ \A a, b \in ToSet(index) : Before(index, a, b) => Before(stack, a, b)

\* Between calls the front of the stack is LIR (the pruning that LIRS rests
\* on), so dlirs_evict_lir always demotes the least recently used LIR entry.
BottomIsLir ==
    ~Twice /\ pc \in {"idle", "ask", "eject_lir", "request"} /\ stack # << >>
        => entry[Head(stack)].is_LIR

\* Until a key is stored twice the stack and its index of HIR entries stay
\* what LIRS rests on.
StackExact == StackAgrees /\ BottomIsLir

\* Until a key is stored twice the stack, remembered entries included, is
\* between calls within twice the cache size: dlirs_limit_stack drops what
\* request and get add.
StackBounded == ~Twice /\ pc \in {"idle", "ask"} => Len(stack) <= 2 * CacheSize

\* Until a key is stored twice dlirs_get answers an entry exactly when
\* dlirs_contains would have said that it is there.
GetAnswersContains ==
    ~Twice /\ pc = "ret" /\ call.op = "get" => (call.result = "hit" <=> call.contained)

\* Until a key is stored twice no FATAL line of dlirs.c is reached: an entry
\* looked for is found and no table fails to grow.
NoFatal == ~Twice => pc # "fatal"

\* After dlirs_destroy no DLIRSEntry is left allocated: no reference was lost
\* by an override, a promotion, a pruning or an eviction on the way.
NothingLeaks == pc = "destroyed" => \A e \in Entries : ~Live(e)

\* An evicted entry stays in the out parameter until the client has taken it:
\* the eviction loops never overwrite one eviction by the next.
EvictionHandedOver ==
    [][evicted # NULL /\ pc # "ret" => evicted' = evicted]_vars

\* Every call ends, or the process is lost, or a key was stored twice: the
\* pruning, eviction and stack loops make progress.
CallsEnd == pc \in Loops ~> (pc \notin Loops \/ Twice)

\* The same cache seen from outside: a set of at most CacheSize keys that
\* loses a key only when it is full, and hands over each key it loses.
Resident ==
    LET promoted == IF call.entry # NULL /\ call.in_cache THEN {call.key} ELSE {}
    IN  {k \in Keys : CacheContains(k)} \cup promoted

Bounded == INSTANCE BoundedCache
    WITH Capacity <- CacheSize, resident <- Resident,
         out <- IF evicted = NULL THEN NULL ELSE KeyOf(evicted)

\* Until a key is stored twice every step of DLIRS is a step of the bounded
\* cache.
ImplementsBoundedCache ==
    Bounded!Init /\ [][~Twice' => [Bounded!Next]_(Bounded!vars)]_vars

(* What the repository says and the code does not do                       *)

\* run.sh builds with AddressSanitizer: no freed entry is ever used.
NoUseAfterFree == pc # "abort"
=============================================================================
