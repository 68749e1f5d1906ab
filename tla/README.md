# TLA+ models of HTFH-RT-Search-Cache

The repository is a search-result cache in C: a front end (`cache.c`) guarded by
one read-write lock, three interchangeable replacement policies (DLIRS, LRU,
random), the ordered hash table they keep their entries in, and one of two
fixed-heap allocators underneath. This directory holds specifications of the
policies, of their tables, of the keys, of the allocators and of the threads that
share the cache, the TLC configurations that check them on small instances, and
TLAPS proofs about the DLIRS policy, the tables, both heaps and the lock.

Paths below are relative to `src/src/`.

## The system

| Part | State | Operations | What makes it correct |
|---|---|---|---|
| DLIRS (`cache/dlirs/dlirs.c`) | stack `lirs`, its HIR list `non_resident_hirs`, queue `resident_hirs`, two limits, four counters | get, request, contains, destroy; inside them prune, resize, limit_stack and the eviction loops | counters equal what the tables hold; the limits partition the cache; the stack's bottom is LIR; every loop ends; what is evicted is handed to the caller |
| DLIRSEntry (`cache/dlirs/dlirs_entry.c`) | flags and a reference count, one object shared by up to three tables | create, reference copy, destroy | freed exactly when the last table or caller lets go |
| DequeueHashTable (`cache/dequeue_hashtable`) | head, tail, nodes with prev/next, a HashTable | insert, push_front, remove, pop_front, pop_last, get, print, destroy | a map whose keys are also in an order; list and table hold the same nodes |
| HashTable (`cache/hashtable`) | slot array, size, count; each node carries its slot | insert, get, delete, delete_entry, resize | one entry per key, probes end, a node's slot is where it is |
| LRU (`cache/lru/lru.c`) | one DequeueHashTable | get, request, evict, destroy | the least recently used entry is given up |
| Random (`cache/simple/random.c`) | one HashTable | get, request, evict_by_key, evict_random, destroy | a lookup gives the last value stored |
| Keys (`cache/cache_key.h`, `cache/hashtable/hashing.h`, `main.c`'s comparators) | a block of bytes per key | create, clone, the accessors, sprint, cmp, hash, key_compare | a stored key reads back; equal keys hash alike; a match answers the query |
| Front end (`cache/cache.c`, `allocator/thread/lock.h`) | the lock, the backing, its handlers | create, destroy, contains, is_full, request, get | writers exclude everyone, readers see one state, every path unlocks |
| Client (`main.c`) | two threads, and main | get; if NULL, request, is_full; destroy what was evicted; main joins and destroys the cache | comes to an end; references stay counted |
| HTFH allocator (`allocator/htfh`) | block headers in the heap, free lists, two levels of bitmaps, a recursive mutex | create, destroy, malloc, calloc, free, memalign, realloc | regions handed out are disjoint; blocks tile the heap, no two free neighbours; lists and bitmaps hold exactly the free blocks |
| GCA allocator (`allocator/glibc`) | boundary tags, one free list, an emulated break inside one mapping | create, destroy, malloc, calloc, free, realloc | the same, with both tags of a block in agreement; the break moves only when it must |

`main.c` starts two threads. Each calls `cache_get`, and when that returns NULL
`cache_request`; each call takes the write lock, runs one function of the
backing and unlocks. What was evicted comes back through an out parameter and is
destroyed by the caller after the unlock.

The hard parts are the ones a test hardly reaches: several tables and counters that must
agree although no function checks that they do; reference counts shared by three tables;
a table whose insertion of an existing key relinks a node; a get and a request that are
two critical sections; a reference count that one thread changes under the lock and
another after its unlock; loops that test a counter and pop a table; heap headers that
describe their neighbours. `PROJECT.json` lists them as hazards, with the line where
each bites and the properties that watch it.

## Modules

- **`DLIRSPolicy`** models the policy and `main.c`'s client loop, over tables whose
  operations are parameters. An entry object is a record with its flags and reference
  count; count 0 is free memory. Every iteration of a C loop is a step (`Prune`,
  `EjectLir`, `EjectHir`, `LimitStack`, `RequestLoop`), so a loop that does not
  end is a behaviour that does not return. `pc` is the loop being run, `call`
  the arguments and locals of the call. Counters are `size_t`: decrementing 0
  gives `SIZE_MAX` (`Dec`).
- **`DLIRSSizes`** holds the constants and the arithmetic of the two limits:
  `rint(x + 0.5)` rounds half to even (`RintHalf`), and the divisions by a zero counter
  give what IEEE arithmetic and `fmax`/`fmin` make of them (`Gain`).
- **`DLIRS`** is the policy on the tables there are. A table is the list of its nodes,
  front first, each an entry and its slot, and the size of the array. A search goes
  past holes (`Pos`), a deletion leaves one (`Drop`), an insertion stops at one
  (`Meets`): it may then append a second node for a key the table holds. Growth places
  the nodes anew in the order of their slots (`Moved`), and refuses when it meets a key
  twice (`Refuses`). `twice` remembers that a table was given a key it held, and
  `Twice` that any was. `list` stands for the links: an insertion that would make them
  cyclic (`InsertHangs`) loses the process, and `DQHT` has the pointers themselves.
- **`BoundedCache`** is what a policy promises: a set of at most `Capacity` keys
  that loses a key only to make room, and hands it over.
- **`HashTable`** and **`DQHT`** are operators on one record: the slot array,
  count and size, and the nodes with their links. `DQHT` includes
  `dqht_print_table`, which every unlink calls and which walks the list: that is
  where a cyclic list is met.
- **`DQHTClient`** calls these operations in any order; **`DequeMap`** is the
  ordered map they are shown to implement.
- **`LRU`** is `lru.c` over `DQHT`, behind `cache.c`'s lock and shared by
  `Threads`. **`RecencyCache`** is the abstract LRU cache. `Twice` says that two nodes
  have one key: both threads missed it, and an eviction left a hole before the node the
  first one stored.
- **`RandomCache`** is `random.c` over `HashTable`, with one thread as its client.
  `rc_get` answers the table's node (`Answer`), and so does the model; `main.c` only
  compares it with NULL. `released` collects the values that requests have destroyed.
- **`Keys`** is `cache_key.h`, the bytes `hashing.h` walks over, and the two
  comparators of `main.c`. A key keeps its operator, its two stored sizes and where
  its terms lie; an accessor that reads a size back through a signed `char` may land
  inside another term (`Str` with a `skip`) or outside the block (`Wild`). Terms have
  their real lengths. A state is one comparison: a query, a stored key (any number of
  clones away from the client's), the mode, and the two flags `key_compare` takes for
  a `Result`'s. `ht_get` passes the table entry instead, so the flags are arbitrary.
- **`CacheThreads`** is `cache.c`, `lock.h` and `main.c`: `Threads` that lock, work in
  the backing, unlock, and destroy what was evicted; `main`, which spawns, joins and
  destroys. The backing is reduced to what it does to entries, the tables that refer
  to each (`held`): a call creates, copies, moves and drops references, hands one entry
  over, or never returns (`Hang`). A counter's change is a load and a store. `raced`
  remembers the entries with overlapping updates of which one was unlocked. Where
  `DLIRS` asks what the policy does in one thread, this module asks what the lock does
  not cover; the override of `dlirs.c:270`, which takes a count from an entry whose
  reference stays, needs no second thread and is `dlirs_freed`'s.
- **`HTFH`** is the allocator of `allocator/htfh`, at the level of headers and
  pointers. `heap.mem` holds the headers of the blocks there are, by address;
  `heap.blocks` the list heads; a bitmap is the set of its bits. The functions of
  `block.c`, `controller.c` and `htfh_utils.c` are operators from a heap to a
  heap under their own names, and the entry points of `htfh.c` are actions: each
  is one critical section of the mutex, so `Threads` matter only through
  `holder`, the thread that a call left holding it. `live` is the clients' view:
  what they asked for and were given. A word that lies in memory a client owns
  is `NULL`, and a header that was absorbed is no longer a header. Sizes,
  alignment and the number of classes are constants, so that a small pool meets
  all three levels of classes. The build's `ALIGN_SIZE` is 4 also on a 64-bit
  machine: `constants.h` tests `ARCH_64_BIT`, which `htfh_utils.h` defines after
  it included `constants.h`.
- **`GCA`** is the allocator of `allocator/glibc`. `heap.mem` holds the headers, by
  offset in the mapping; each has the size and flag of its own block and of the one
  before (`curr`, `prev`) and the links that matter while it is free. The helper
  functions are operators under their own names, the entry points actions; a
  realloc's four ways (shrink, absorb the neighbour, extend the break, copy) are
  disjuncts.
- **`Arena`** is what both allocators promise: regions that are disjoint, each
  behind its header word, and that stay the client's until it gives them back.
- **`DLIRS_proof`**, **`CacheThreads_proof`**, **`RandomCache_proof`**,
  **`DQHTClient_proof`**, **`GCA_proof`** and **`HTFH_proof`** hold the theorems about
  the modules they are named after; **`HashTable_proof`** holds the lemmas about the
  hash table that two of them share, and **`Induction`** the lemmas on naturals and
  remainders under all that.
- **`MCDLIRS`, `MCDQHT`, `MCLRU`, `MCRandom`, `MCHTFH`, `MCKeys`, `MCCacheThreads`** give
  hash functions, heap sizes, lengths, symmetry sets, a bound on the state space and
  refinement mappings to TLC. The allocators' mappings to `Arena` are proved as well as
  checked and stand in `GCA`, which needs no such module, and in `HTFH`.

A process may be lost: it walks a cyclic list for ever ("hung"), runs a FATAL
line ("fatal"), exits because a request failed ("exit"), or uses freed or
uninitialised memory, which the asan build of `run.sh` aborts on ("abort"). The
lost process is a final state. Safety properties hold up to that state; that it
is, or is not, reached is a property of its own.

`Recheck` tells two clients of DLIRS apart. `FALSE` is `main.c`: a get that
returns NULL is followed by a request, or by none (`SkipRequest`, the loop at
`main.c:195-206`). `TRUE` asks `cache_contains` in between and requests what is not
there. The difference matters because `dlirs_get` of a remembered, non-resident key
brings the key back and still returns NULL.

**A key stored twice.** The holes make a difference to every policy. `dlirs.c:270`
re-inserts a key that `resident_hirs` holds, for either client: with A and B in one
probe sequence, evict A, then hit B, and B is stored in A's old slot too, while
`hirs_count` counts it once. What the counters, the stack, the answers and the bounds
promise is true until then, and much of it is false later: without the condition
`~Twice`, TLC refutes `CountersExact`, `WithinCapacity`, `GetAnswersContains`, `NoFatal`
and `ImplementsBoundedCache` for the rechecking client with a cache of 2 and 3 keys, and
`StackBounded` for the client of `main.c` in the instance of `dlirs_main`. `StackExact`
and `CallsEnd` were not seen to fail for the rechecking client, which has keys twice in
`resident_hirs` only; they are stated, and `StackExact` is proved, until then. Each such
property names the condition. The limits, the out parameter and the references are
stated, and checked in `dlirs_main`, without it. In the same way `ImplementsRecencyCache`
leaves out the steps of an LRU cache from or to a state that has a key twice.

## Runs

| Run | Instance | Shows |
|---|---|---|
| `dlirs_recheck` | cache of 3, 4 keys that all collide, arrays that begin with 2 slots, rechecking client, fairness | until a key is stored twice: counters exact, stack and HIR list agree, bottom is LIR, get answers as contains would, no FATAL, every loop ends, refines `BoundedCache` |
| `dlirs_main` | cache of 2, 5 keys that all collide in an array of 4, `main.c`'s client | limits partition the cache, evictions handed over, no leak at destruction; until a key is stored twice capacity, and a stack bounded by twice the cache |
| `dlirs_freed` (violation) | cache of 2, 5 keys that all collide | a hit on a resident HIR outside the stack frees an entry that tables hold |
| `dqht_fresh` | 4 keys in one probe sequence, array 1 to 8, 3 nodes | pointers, indices and count are consistent, refines `DequeMap`, while only absent keys are pushed |
| `lru_threads` | 2 threads, cache of 3, 4 keys of which two always collide, a third in the smaller arrays | table and list agree, every value has one owner; while no key is stored twice, refines `RecencyCache` |
| `lru_race` (violation) | the same | two threads that miss one key make the list cyclic |
| `random_main` | cache of 3, 4 keys in one probe sequence | answers and count exact, no value overridden, nothing left after destruction |
| `htfh_main` | a pool of 180 bytes and three heaps that get none, requests of 0 to 132 bytes, alignments 8 and 16, 2 threads | blocks tile the pool, flags, lists and bitmaps are exact, the search loses only what its rounding must, nothing leaks, alignments of 16 are honoured, refines `Arena` |
| `htfh_grow` (violation) | the same, with realloc into a free neighbour | the neighbour's flag is left wrong |
| `gca_main` | pages of 64 bytes, a mapping of four pages and one too small, requests of 0 to 100 bytes and near `SIZE_MAX` | blocks tile the memory below the break, both tags agree, no two free neighbours, the free list is exact both ways, nothing leaks, the break moves only for a region that no free block fits or to grow the last one in place, refines `Arena` |
| `keys_main` | 7 terms on both sides of every length limit, all pairs of queries, all modes and flags | a stored key reads back exactly when its terms are short enough; keys that compare equal hash the same bytes; a match answers the query; the query's own key always matches |
| `cache_threads` | 2 threads of 2 rounds, one entry, 2 tables, 3 reference changes per call | of the moves modelled, a count is wrong only if an unlocked destruction overlapped another update; readers see one state; the program ends if the calls of the backing do |

**Bounds.** With a cache of 3 and 4 keys all of LIR, resident HIR, non-resident HIR,
demoted and forgotten entries exist together, and `dlirs_limit_stack` has to drop
entries; with a cache of 2 the limits are at both their extremes and the stack fills
fastest. `Gens` names the objects one key can have at a time: an entry that was evicted
and not yet destroyed, and its successor. `SIZE_MAX` is eight times the cache size: no
count of a sound cache comes near it, and a count that wraps is seen.

In `dlirs_recheck` and `dlirs_main` all keys share a probe sequence, which makes a key
be stored twice soonest, in tables that grow from 2 or 4 slots. From then on a table may
gain a node at every round. `dlirs_main` leaves out what follows a state in which a key
has been stored twice and the tables hold more than five nodes (`FewNodes`). Every
property of `dlirs_recheck` is about the steps before one that stores a key twice, so
the run leaves out what follows such a step (`UntilTwice`); such steps are reached, and
`CallsEnd` loses nothing, since a call in which it happens has ended for that property.

In `lru_threads` and `dqht_fresh` the hash table grows from 2 or 1 to 8 slots with four or
three nodes, so every insertion that grows, every collision and a failed node allocation
(`MaxNodes`) and a failed growth (`MaxSize`) occur.

The pool of `htfh_main` holds up to five blocks; with 8 lists per level its sizes fall
into exact classes, classes 8 and classes 16 bytes wide, requests need rounding up to
`ALIGN_SIZE`, to `block_size_min` and to the next class, and alignment gaps are absent,
too small and large enough. The reachable heaps of that run (1415, up to the clients'
view) were compared with those that the C code, compiled with the same three constants,
reaches when every call is tried in every heap: headers, flags, links, list heads and
bitmaps are the same set. The same comparison was made for `GCA` with `GCA_SBRK_ALIGN`
set to 128 in the C code and a mapping of two pages: the 8448 reachable heaps agree,
headers, flags, links and break. The four pages of `gca_main` hold several blocks, so
every one of the four ways of a realloc occurs, with and without a rest to split off;
the break is moved and refused, and a realloc of the last block moves it also while a
block that is free would have been large enough; `SizeBits` of 12 lets 4095 be a request
that rounds to 0 and 820 * 25 a product that wraps.

The terms of `keys_main` are two short ones, one whose pair no longer fits
`key_sprint`'s buffer, and the lengths at which a stored size becomes negative as a
signed `char` (126, 127) and wraps its byte (255, 260). In `cache_threads` one entry and
two tables are enough for an entry to be evicted, still be referred to, and be dropped
or copied by the other thread meanwhile; two rounds let a thread come back. Symmetry is
used for keys where all hash alike, for values and for threads, and not in the runs that
check liveness.

**Fairness.** `FairSpec` is weak fairness of `Step`, the continuation of a call
that has begun: its thread holds the write lock and executes its next statement.
No fairness is assumed of the client starting calls. `Spec` of `CacheThreads` is weak
fairness of every thread and of `main`: each runs to its end, and a thread that waits
for a lock is not promised to get it before the others. As each makes finitely many
calls (`Rounds`), that suffices for `AllEnd`, whose condition is that no thread stays in
the backing for ever: the loop at `dlirs.c:321` and a cyclic list can keep one there
(`Hang`, and Findings), and then the others wait for the lock for ever. What `AllEnd`
says is that nothing else does: every way out of a call unlocks.

## Findings

The violation runs, and further observations that are not runs of their own:

- `dlirs.c:270` re-inserts a key into the table that holds it. Besides the lost
  reference (`dlirs_freed`) this makes `resident_hirs` cyclic
  (`dq_hashtable.c:107-113`) unless the key was last; `pc = "hung"`.
- Under `main.c`'s client `hirs_count` and `lirs_count` count a key twice, because a
  get of a remembered key promotes it, answers NULL (`dlirs.c:98`, `:166`) and is
  followed by a request. `dlirs_limit_stack` then meets its own FATAL
  (`dlirs.c:289`, `:296`), and the loop at `dlirs.c:321` pops an empty table for ever:
  `NoFatal` and `CallsEnd` are refuted with `Recheck = FALSE`.
- `ht_delete_entry` (`cache_hashtable.c:158`) leaves an empty slot inside a probe
  sequence, and `ht_insert` stops there: a key that is present further on is stored a
  second time, and reported as new where `cache_hashtable.h:30` says "1: existing
  entry". `dqht_fresh` pushes only absent keys for that reason. In DLIRS `dlirs.c:270`
  does this with one thread and any client: `resident_hirs` gets longer than
  `hirs_count`, and once a copy has been evicted (`dlirs.c:243`) `dlirs_contains` finds
  the other (line 72) while `dlirs_get` answers NULL (line 166). In LRU it takes two
  threads that miss one key and an eviction between their requests.
- `rc_evict_random` (`random.c:74`) looks for an empty slot and reads its key: a
  request on a full random cache ends the process. `rc_get` answers the table's
  `DQHTEntry`, not the value in it (`random.c:66`), and `rc_destroy` frees the nodes
  and not the values.
- `dlirs_entry_destroy` runs outside the lock (`main.c:132-137`). In `CacheThreads`
  an overlap with a copy or a drop by the other thread loses an update: the counter
  wraps, the entry is freed while a table refers to it, freed twice or never freed.
  `CountsExact` says that no other interleaving of the moves it models does so.
- Keys: from 127 characters of term 1 on, `key_get_term2` looks in the wrong place,
  and `key_size` is wrong from 127 characters of either term on; two terms of together
  more than 98 characters overrun the buffer of `key_sprint`, which `key_cmp` calls
  for its trace line.
- `key_compare` takes the terms of a query in either order, and its partial modes
  match keys of other queries. `ht_get` tries every slot, so it finds them;
  `ht_insert` compares by `key_cmp` along one probe sequence and stores a second key
  beside the one that `ht_get` would answer with. In mode 2 an OR query does not match
  its own key if neither of the flags read is set.
- `main.c:292` lets `pthread_join` store a `void*` into an `int`; `result_copy` leaks
  the `Result` when its postings cannot be allocated and answers NULL (`result.c:27`),
  which is then cached: a hit for `dlirs_get`, absent for `dlirs_contains`
  (`dlirs.c:70`). A `dlirs_request` that fails half way (`dlirs.c:332`) leaves what it
  inserted; the client ends the process.
- `gca_realloc` of the last block below the break extends it in place without looking for
  a free block (`glibc.c:303-308`): the mapping may be used up while memory is free.
- `gca_realloc` rounds a size within 15 of `SIZE_MAX` to 0 and takes it for a shrink
  (`glibc.c:294`); for sizes up to 16 lower `page_size` wraps to 0 (`glibc.c:190`).
  `gca_create` tests `mmap` against NULL (`glibc.c:46`), returns without freeing what
  it allocated, and `gca_destroy` does not destroy the mutex. With `ALLOCATOR_TYPE` 2
  `am_realloc` and `am_memalign` are NULL (`alloc_manager.h:38-39`).
- The requests' answers: `dlirs.h:65` and `lru.c:53` say "-1 = failure, 0 = miss,
  1 = hit"; `dlirs_request` never answers 1 and `lru_request` answers 1 exactly
  when it evicted. `lru_destroy` is `void` and is called through a pointer to a
  function returning `int` (`cache.c:46`).

- `htfh_memalign(alloc, 8, n)` with `n <= 24` may answer an address that is not
  a multiple of 8, against the `alloc_align(2)` of `htfh.h:93`. A block of 64
  bytes whose data starts 4 bytes before a boundary needs a gap of 36, and
  `htfh.c:236` asked for 8 + 32 more than the request only;
  `controller_block_trim_free_leading` then answers the block unsplit. With the
  `ALIGN_SIZE` of 8 that `constants.h:20` means for this machine it cannot happen.
- `htfh_memalign` keeps the mutex when it fails (`htfh.c:275`).
- `htfh_realloc` answers NULL for every request within the size of the block:
  `controller_block_trim_used` (`controller.c:154`) refuses blocks in use, and it
  is called for no others. The comment at `htfh.c:279-281` promises "growing or
  shrinking the currently allocated block as required".
- A pool of exactly `block_size_max` bytes, a request within 4 bytes of `SIZE_MAX`
  and a failed `mmap` are not caught (`htfh.c:19`, `:119`, `:81`), nor is a heap a page or
  more smaller than its controller, whose lists are then written past the mapping
  (`htfh.c:85`, `controller.c:231-246`; `MappingAssumption`).

## Proofs

| Theorem | States | For every |
|---|---|---|
| `DLIRS_proof!LimitsArePartition` | `[]LimitsPartition` | set of keys, hash function, size of the tables, cache size of at least 2, initial ratio that leaves both parts room, both clients |
| `DLIRS_proof!TypeCorrect`, `CapacityRespected`, `NothingIsLeaked` | `[](~Twice => TypeOK)`, `[]WithinCapacity`, `[](~Twice => NothingLeaks)` | the same |
| `DLIRS_proof!EvictionsHandedOver` | `EvictionHandedOver`, an action property, for steps after which no key has been stored twice | the same |
| `DLIRS_proof!CountersAreExact`, `StackStaysExact`, `StackIsBounded`, `AnswersAgree`, `NeverFatal` | `[]CountersExact`, `[]StackExact`, `[]StackBounded`, `[]GetAnswersContains`, `[]NoFatal` | the same, for the client that asks again before it requests a key (`Recheck`) |
| `DLIRS_proof!CacheIsBounded` | `ImplementsBoundedCache`: until a key is stored twice, `Spec => Bounded!Spec` | the same, for that client |
| `CacheThreads_proof!ReadersConsistent`, `CountersConsistent` | `[]ReadersSeeOneState`, `[]CountsExact` | set of threads, entries and tables, number of rounds and of moves |
| `RandomCache_proof!TableIsExact` | `[]TableExact` | keys, values, hash function, cache size, initial and largest array, number of nodes |
| `DQHTClient_proof!IndexIsExact`, `CountIsExact`, `ListIsExact` | `[]IndexExact`, `[]CountExact`, `[]ListExact`, for a client that pushes absent keys | the same |
| `DQHTClient_proof!TableIsDequeMap` | `ImplementsDequeMap`: `Spec => Map!Spec`, for the same client | the same |
| `GCA_proof!BlocksTile`, `TagsCoalesced`, `FreeListIsExact`, `HeldIsExact` | `[]Tiled`, `[]Coalesced`, `[]ListExact`, `[]HeldExact` | page size, word width, mapping, set of requests |
| `GCA_proof!BreakIsNeeded` | `BreakNeeded`, an action property | the same |
| `GCA_proof!AllocatorIsArena` | `ImplementsArena`: `Spec => ArenaOf!Spec` | the same |
| `HTFH_proof!HeapTiled`, `FlagsExact`, `Coalesced`, `IndexIsExact`, `HeldBlocks` | `[]Tiled`, `[]PrevFlagExact`, `[]NoFreeNeighbours`, `[]FreeIndexExact`, `[]HeldExact` | number and width of the size classes, alignment of 4 or 8, word width, set of pools, threads and requests, callers that do not grow a block in place |
| `HTFH_proof!SearchIsExact` | `[]SearchExact` | the same |
| `HTFH_proof!AllocatorIsArena` | `ImplementsArena`: `Spec => ArenaOf!Spec` | the same |

### DLIRS

`DLIRS_proof` extends `DLIRS` and instantiates `DLIRSPolicy` a second time, as `P`, on the
lists of the three tables, in which a key is there at most once and an insertion meets it
if it is there. Definitions about lists begin with `List`. The invariants of the policy
are proved on lists. `ReadSame`, `InsertSame` and
`ListsSame` show that the operations of a table in which no key is twice do what those of
its list do, whatever the slots, holes and sizes: a search passes every slot before it
comes back, so it finds the only node of its key (`Listed`); an insertion of an
absent key finds an empty slot; an insertion of a key that is there meets it, or stores it
again and sets `twice`. The `...Same` lemmas take this through every action, and
`NextSame` concludes that a step of `DLIRS` after which no key has been stored twice is a
step on lists, or loses the process (`Loses`). `TableInv` is then `Tabs`, which holds of the
tables at all times, and, until `Twice`, the invariants on lists. The
condition `~Twice` stands in the property, or, for `TypeCorrect`, `NothingIsLeaked` and
`EvictionsHandedOver`, whose properties TLC checks without it, in the theorem.

Only `LimitsArePartition` needs none of this: the limits change by `dlirs_resize` alone,
whatever the tables hold.

On lists, `IInv == ListTypeOK /\ CallOK /\ LimitsPartition /\ ListWithinCapacity`. None of the
last three is inductive alone. `WithinCapacity` says that no counter wraps, and a
decrement of `lirs_count` in `dlirs_evict_lir` does not wrap because the loop
that calls it saw `lirs_count >= lirs_limit`, and `LimitsPartition` makes that
limit at least 1; a decrement of `hirs_count` follows a pop, and `Len(resident_hirs)
<= hirs_count` says there was something to count. `CallOK` says that the locals a
loop uses were set when its call began. `LimitsPartition` needs nothing of the
counters but their type: whatever the two counters in the quotient are,
`fmax(1, ...)` and `fmin(cache_size - 1, ...)` keep the limit inside.

`EvictionsHandedOver` is about the out parameter: once set it is not written again
before the caller has it, so no evicted value is lost by a second eviction in one
call. That depends on when the loops stop, and `OutInv` says it: with something in
the out parameter, the call is past the loops that eject LIR entries, and if it is
still in one that evicts from `resident_hirs`, then there is room and the loop will
not evict again. It uses `WithinCapacity`: an eviction takes the counters below the
cache size only because they did not exceed it.

There is a lemma per operator (`InsertType`, `ReleaseType`, `ResizeLimits`, ...), a
lemma per action (`...Keeps`, `Out...`), and one that takes them together.

`NothingLeaks` is an upper bound on the reference counters, and `RefInv` is that bound: no
counter exceeds `Owed`, the references to the object from the three tables, from the out
parameter, and from the entry that `dlirs_hir_in_lirs` has taken off the stack and will
put back at the end of its evictions. It is not an equality, since `hit_hir_in_resident_hirs`
counts a reference too few (`dlirs_freed`). `RefInv` also says that a table holds a key
once, so that a removal drops one reference, and that an entry carried by a promotion has
the key of that call: what is taken off `non_resident_hirs` and `resident_hirs` by key need
not be the object that was on the stack, and the bound is shown for each object by itself.
When `dlirs_destroy` starts, the out parameter is empty (`OutInv`) and nothing is carried, so
that releasing every table brings all counters to 0. Where it would go below, the process
is lost. `RemoveIn`, `TailIn`, `InsertIn` and `ReleaseIn` give what one operation changes in
the references and in the counter, `RefSum` adds the changes up, and one lemma per action
(`...Ref`) compares the two. Of the capacity it uses `IInv` only, so it holds for both clients.

The counters and the stack are exact, while no key is stored twice, only for the client
that asks again: with the client of `main.c` they are not (Findings), so the theorems
about them have the hypothesis `Recheck`. Their inductive invariant is `ListRunning =>
ExactInv`. A process may still be lost: `InsertFault`, `PruneFault` and the others are
not shown to be impossible, except those that end in FATAL, and a lost process owes
nothing. `ExactInv` has six parts:

- `Tables`: each table holds a key once, `non_resident_hirs` is in stack order
  (`Ordered`), and `Sound` relates the sets of entries in the tables to the sets of
  entries with each flag: what is on the stack and not LIR is in `non_resident_hirs`; a
  LIR entry is in the cache and never in `resident_hirs`; a HIR entry of the stack is in
  `resident_hirs` exactly if it is in the cache; nothing on the stack is demoted; entries
  of one key are one entry across tables. The four counters are cardinalities of four of
  these sets.
- `Bottom`: outside a pruning the front of the stack is LIR.
- `Filled`: `non_resident` is 0 until the cache has been full, the call in progress
  counted; there is a HIR entry only beside a LIR one, so a HIR entry never goes to an
  empty stack.
- `Room`: the length of the stack during a call and between calls. What
  `dlirs_limit_stack` still has to drop is no more than `non_resident_hirs` holds, which
  is why it meets no FATAL, and enough to come down to twice the cache size. A request
  for a LIR entry adds to the stack without that loop: by `Filled` nothing is remembered
  then, and the stack is no longer than the cache.
- `Locals`: the key of a promotion or request that is making room is in no table, so the
  insertion at its end overrides nothing.
- `Answers`: how the answer of a get follows from where the key was; and that a get which
  answered NULL leaves no remembered entry of the key on the stack, so that for the
  client that asks again "not contained" means "in no table".

The sets are changed in a few ways only (an entry leaves the stack, is demoted, is
evicted, joins the stack, is new), and there is a lemma about `Sound` for each
(`SoundPrune`, `SoundDemote`, `SoundJoin`, `SoundAddHir`, ...), about sets and numbers
alone; `WithoutIs`, `TailIs`, `AppendIs` and the `Ordered...` lemmas say what the list
operations do to set and order. One lemma per action (`...Exact`) combines them.

`StackAgrees` states that `non_resident_hirs` is the HIR part of the stack by set and
order, and not with the recursive `SelectSeq`, which the provers cannot reason about.

`CacheIsBounded` maps the tables to the set of keys whose values the cache has
(`Resident`): those of `Stored`, which are the keys that `dlirs_contains` finds
(`ContainsIs`), and the one that `dlirs_hir_in_lirs` has taken out and not yet put back.
`KeptSize` shows that `Stored` has `hirs_count + lirs_count` keys, which is where exact
counters matter: the code compares counters with the cache size, the specification a
cardinality. Each `...Exact` lemma also says what becomes of `Stored`. The invariant
`Carried` adds that while a value is carried there is room, so that its promotion evicts
nothing; `OutInv` says that the out parameter is empty when an eviction happens. One
lemma per action (`...Maps`) shows which step of the bounded cache it is, or that it is
none.

### The lock and the reference counts

`ReadersSeeOneState` by itself is not inductive: it says nothing of who may change a
table. `IInv` adds the types, `LockInv` (a thread inside the backing is the writer, a
reading one is a reader, and there are no readers beside a writer) and `CopyInv`: an
update in progress that will put a reference into a table belongs to a thread inside
the backing. The last is what makes the step `StoreCopy` harmless, and what
distinguishes it from the client's unlocked `StoreDrop`, which writes a counter and no
table.

`CountsExact` says that an entry on which no unlocked update overlapped another has a
count equal to its references, is freed when they are gone and not before. `CountInv`
strengthens it by `SoleUpdate` (an entry that has not raced has at most one update in
progress), `RegInv` (what that update loaded is still what the counter holds),
`UpdateInv` (a client drops the entry it was handed, a reference is copied for a table
that has none, a thread between two calls has nothing in progress) and `ProgInv` (`main`
destroys the cache after all threads are done). `SoleUpdate` is where the lock and
`raced` meet: two updates under the lock exclude each other by `LockInv`, and any other
pair makes the entry raced. A counter does not wrap because references are at most one
per table and one per thread (`CounterAssumption`).

### The tables

`HashTable_proof` shows that `TableInv` holds of the table `ht_create` makes and is
kept by insertion, growth and deletion: the array and the nodes point at each other
(`SlotsExact`, `IndexesExact`), no key is stored twice, and `count` is the number of
nodes and at most half the array. The half is what makes probing correct: there is an
empty slot, so the probe loop ends at one (`MinIs`), and `ModOnto` says that it passes
every slot before it comes back. Growth re-inserts the nodes slot by slot; the model
writes that as a recursive function (`Moves`), and the proof goes by induction on the
slot with an invariant that describes the half-filled new array.

`RandomCache_proof`: `IInv` is `TableInv`, the bound by the cache size, `WrittenInv`
(nodes hold what was last written, and every written key has a node), `MissedInv`: the
key about to be requested is not in the table, and that no request has overridden a
value. `GetIsExact` turns it into the node that `rc_get` answers. Without the last one
the invariant is not inductive, since an insertion of a present key behind a slot
emptied by `ht_delete_entry` stores it twice. `main.c` requests a key only after a get
missed it, and `ht_get` tries every slot.

`DQHTClient_proof`: `Sound` adds to `TableInv` that there is an enumeration of the
stored nodes, each once, in which `head`, `tail`, `prev` and `next` lead from one to
the next (`Linked`). With that enumeration the walk of `dqht_print_table` ends after as
many steps as there are nodes, which is the step that would hang on a cyclic list. The
hypothesis `FreshOnly` is the same the run `dqht_fresh` is made under: a client that
pushes only absent keys. Without it the properties are false (see Findings), so it is a
condition on the client and not a convenience of the proof; `lru.c`, used by one
thread, keeps it.

`TableIsDequeMap` is the refinement. `Ordered` is `Sound` with the enumeration named,
and every operation has a lemma that names the one it leaves: `WithLast` or `WithFirst`
after a push, `CutAt` after a removal or a pop, none after a destroy. `Listed`, what
`dqht_destroy_handled` walks, is that enumeration (`ListedIs`), so the pairs read along
it are the abstract list, and each operation's change of the enumeration is the
abstract operation's change of that list (`IsAppend`, `IsCons`, `IsRemoved`, `IsTail`,
`IsFront`). That no key has two nodes makes the abstract position of a key unique. A
push refused for want of memory, even after a resize, is the abstract `Refuse`.

### The GCA heap

`IInv`: there is no heap and nothing is held, or `HeapInv` holds of it and the clients
hold exactly the blocks in use (`Held`). `HeapInv` is

- `Tags`: the first header is at 0 behind a used tag, the sentinel is the last header,
  addresses are aligned, each block leads to a header that repeats its tag and jumps
  over none, and every header but the first is reached by a block;
- `IsListed`: the free list enumerates the free blocks, each once, with both links;
- `Apart`: no free block has a free block behind it.

`Coalesced` alone is not inductive: `gca_coalesce_prev` computes an address from a tag,
which is the header before only because that header is reached and tags agree, and
`gca_remove_free_list` writes through links that are right only because the list is
exact. Inside a call the parts fail one at a time, and the lemmas say which: a block
just freed, split off or added at the break may have a free neighbour (`Apart(h, X)`,
`ApartBut`) while the tags and the list are already exact. `AbsorbedTags`, `CutTags`,
`ExtendedTags` and `FlaggedTags` follow the four ways in which tags are rewritten;
`CoalesceNextKeeps`, `SplitKeeps`, `NewBlockKeeps`, `TakenKeeps` the functions; each
entry point has a lemma.

`BreakIsNeeded` has two cases. `MallocNew` and `BreakExtend`: a region new to the client
moves the break only if it is larger than every free block, by `FindIs` (first fit over
an exact list misses no block) and the rounding: block sizes are multiples of the
alignment, so a block smaller than the rounded size is smaller than the size itself.
`BreakRealloc`: otherwise it was the last region below the break, which grew past it in
place. The free block that a realloc absorbed before it had to copy is no longer on the
list; it was too small, since even together with the block it did not suffice.

`AllocatorIsArena` is a step simulation with `live` as the arena's regions. `HeldApart`
turns tiling into disjointness of what clients hold, headers included; a grant and a
resize use it in the heap after the step, a move in the heap between `gca_malloc` and
`gca_free`, where both regions are held. `BrkInv` adds that the break stays within the
mapping.

The arithmetic is that of `size_t`. The proof assumes that a page is a positive multiple
of the alignment with room for two headers and a block (`PageAssumption`), that the word
is wider than a page (`WidthAssumption`), and that requests do not wrap `page_size` to 0
(`NoWrapAssumption`). The last leaves out the requests within a page of `SIZE_MAX` for
which the code is wrong; see Findings.

### The HTFH heap

`IInv`: there is no pool and nothing is held, or the clients hold exactly the blocks in
use of a heap for which `HeapInv` holds, each large enough and aligned (`HeldIn`).
`HeapInv(h, T)`, with `T` the empty block at the end of the pool, is

- `Tags`: the first block is where `htfh_add_pool` put it and `T` is the last header;
  addresses and sizes are aligned; each block leads to a header, over no other, whose
  second flag says whether the block is free and whose `prev_phys_block` then leads back;
  every header but the first is reached by a block;
- `Index`: for each class there is an enumeration of the free blocks of that class in
  which the list head and both links lead from one to the next, and both bitmaps say
  which lists are not empty;
- `Apart`: no two neighbours are free.

None is inductive without the others. A merge removes the neighbour from the list of
the class its size has, which is where the neighbour is only because the index is exact;
the neighbour is a block only because the flags are; and `controller_block_merge_prev`
refuses a block whose links are NULL, which `FreeKeeps` shows never happens: so
`htfh_free` of a block in use always succeeds. While a call runs, one block is free
and in no list, and may have a free neighbour (`Loose`): `FreedLoose`, `MergePrev`,
`MergeNext` and `InsertLoose` follow it through `htfh_free`, `FindFree`, `LeadingKeeps`
and `MarkUsedKeeps` through malloc and memalign.

`SearchIsExact` rests on the size classes. `ClassMonotone` says that `mapping_insert`
orders sizes as `Before` orders classes; `SearchSuffices` that every size in a class
from that of `mapping_search` on is large enough, for sizes that are multiples of
`ALIGN_SIZE`; `SearchMisses` and `SearchFirst` that the classes before it hold nothing
that would do, but for the class of the size itself and only if that is shared with
smaller sizes. This is arithmetic with powers of two, for any `FL_INDEX_MAX` and
`SL_INDEX_COUNT_LOG2`; the provers know no powers, and `PowersAssumption`, that the next
power is twice the one before, is all they are told. TLC evaluates it.

For memalign, `GapIs` and `MemalignSizeIs` show that the size asked for covers the gap,
moved to the next boundary or not, for alignments of four times `ALIGN_SIZE` and more;
for an alignment of 8 with an `ALIGN_SIZE` of 4 it does not (see Findings), and
`HeldExact` does not say it.

`AllocatorIsArena` is the step simulation of the GCA heap once more. A realloc in place
is always refused, so there is no resize; a copy is made only when the rounded request
exceeds the block, and then the request itself does (`CopyLarger`).

Assumed: the classes reach beyond the smallest block and stay below the width of
`size_t`, and `ALIGN_SIZE` is 4 or 8 (`ConstantsAssumption`); no pool has exactly
`block_size_max` bytes (`HeapSizesAssumption`); no heap ends a page or more before its
controller does (`MappingAssumption`, which no proof uses); no request, product of
`htfh_calloc` or alignment is so large that `align_up` wraps (`RequestsAssumption`,
`AlignsAssumption`). All but the first leave out inputs for which the code is wrong; see
Findings. Callers that grow a block into its free neighbour (`SpecGrow`) are left out
because `PrevFlagExact` is false for them (`htfh_grow`).

### How induction is done

The provers cannot instantiate the library's induction rules, which take the property as
an operator. `Induction` restates them for sets: `LeastNat` follows from the
well-foundedness of `<`, and `SetInduction` from it. The inductive property is then the
set of the numbers that have it, which is a first-order object. Recursive functions
(`Moves`, `Moved`, the walks along lists) are reasoned about this way.

### Only model-checked

- Liveness (`CallsEnd`, `AllEnd`): it needs fairness and `ENABLED`, which TLAPS does not
  handle here.
- The refinement of `RecencyCache`.
- What `TypeOK`, `NothingLeaks` and `EvictionHandedOver` of `DLIRS` say once a key has been
  stored twice (`dlirs_main`).
- `StackBounded` for the client of `main.c` (`dlirs_main`), whose tables `ExactInv` does
  not describe.
- `LRU`, whose threads interleave get and request.
- The keys: their runs enumerate term lengths on both sides of each limit.

## Not modelled

- **Memory for DLIRS** is assumed to suffice; the `-1` returns of `dlirs_request`
  after a failed insertion are not taken in `DLIRS`. `CacheThreads` takes them, and
  the client ends the process. Node allocation may fail in `HashTable`.
- **Hash values**: a hash is known by the bytes it is computed from (`Keys`) or is a
  constant function, chosen so that keys collide (`HashTable`, `DLIRS`).
- **A second thread of the random backing**: two threads that miss one key would make
  `ht_insert` override or store it twice; `RandomCache` has one.
- **Failing pthread and mmap calls**, except `pthread_create`: the handled macros
  return -1 and set an error code.
- **Logging, formatting, error codes**: output without an effect on state. FATAL
  ends the process and is modelled; so is `key_sprint`'s buffer.
- **Allocator selection** (`alloc_manager.h`) is done by the preprocessor.
- **The client's bytes in a region**: `memset` and `memcpy` of calloc and realloc.
- **`heap_hashtable`** is commented out of the build and used by nothing.
- **`dqht_test.c`, `random_test.c`** are drivers; the calls they make are behaviours
  of `DQHTClient` and of `RandomCache`.

## Plan

1. `LRU`: `Consistent`, with `Sound` for the table between the accesses of two threads.
2. The policy once a key is stored twice: `NothingLeaks` and `EvictionHandedOver` hold in
   `dlirs_main` and are proved only until then.
3. The policy: `StackBounded` for the client of `main.c`, which needs another account of
   how far the stack and `non_resident_hirs` drift apart.
