-------------------------------- MODULE HTFH --------------------------------
(***************************************************************************)
(* The fixed-heap allocator of allocator/htfh: a two-level segregated fit  *)
(* heap shared by threads under one recursive mutex.                       *)
(*                                                                         *)
(* Addresses are byte offsets from the start of the heap, which mmap       *)
(* aligns to a page. A header is in DOMAIN h.mem while it is the header of *)
(* a block: what is left of it once the block is absorbed is never read    *)
(* again, except by realloc (see ReallocZero). A link that lies in memory  *)
(* a client owns is NULL here.                                             *)
(***************************************************************************)
EXTENDS Integers, FiniteSets

CONSTANTS
    ALIGN_SIZE_LOG2,       \* 2 in every unit of the build: see the README
    SL_INDEX_COUNT_LOG2,
    FL_INDEX_MAX,
    SizeBits,              \* width of size_t
    Threads,
    HeapSizes,             \* the arguments of htfh_create, in bytes
    Sizes,                 \* requested sizes, in bytes
    Counts,                \* element counts of htfh_calloc
    Aligns,                \* alignments given to htfh_memalign
    NoThread

ALIGN_SIZE       == 2 ^ ALIGN_SIZE_LOG2
SL_INDEX_COUNT   == 2 ^ SL_INDEX_COUNT_LOG2
FL_INDEX_SHIFT   == SL_INDEX_COUNT_LOG2 + ALIGN_SIZE_LOG2
FL_INDEX_COUNT   == FL_INDEX_MAX - FL_INDEX_SHIFT + 1
SMALL_BLOCK_SIZE == 2 ^ FL_INDEX_SHIFT

Word == 8    \* sizeof(size_t) and of a pointer
sizeof_BlockHeader    == 4 * Word
block_header_overhead == Word
block_start_offset    == 2 * Word
block_size_min        == sizeof_BlockHeader - Word
block_size_max        == 2 ^ FL_INDEX_MAX
htfh_pool_overhead    == 2 * block_header_overhead

NULL == -1
block_null == 0    \* the first field of the controller, at the start of the heap

size_t(n) == n % (2 ^ SizeBits)

align_up(x, align)   == LET y == size_t(x + align - 1) IN y - (y % align)
align_down(x, align) == x - (x % align)

\* sizeof(Controller): block_null, the two levels of bitmaps, the list heads
htfh_size ==
    align_up(sizeof_BlockHeader + 4 + 4 * FL_INDEX_COUNT, Word)
        + Word * FL_INDEX_COUNT * SL_INDEX_COUNT

pool_bytes(bytes) == align_down(size_t(bytes - htfh_size - htfh_pool_overhead), ALIGN_SIZE)

ASSUME ConstantsAssumption ==
    /\ {SL_INDEX_COUNT_LOG2, FL_INDEX_MAX, SizeBits} \subseteq Nat \ {0}
    /\ ALIGN_SIZE_LOG2 \in {2, 3}
    /\ FL_INDEX_SHIFT < FL_INDEX_MAX /\ FL_INDEX_MAX < SizeBits
    /\ block_size_min < block_size_max
    /\ NoThread \notin Threads
    /\ Sizes \subseteq Nat /\ Counts \subseteq Nat /\ HeapSizes \subseteq Nat
    /\ \A a \in Aligns : \E k \in 0 .. SizeBits : a = 2 ^ k

\* A pool of exactly block_size_max passes the test of htfh_add_pool although
\* its class, FL_INDEX_COUNT, is past the arrays; it is left out
ASSUME HeapSizesAssumption == \A n \in HeapSizes : pool_bytes(n) # block_size_max

PageSize == 4096

\* and so are heaps that end a page or more before their controller does, whose
\* lists controller_new writes past the mapping
ASSUME MappingAssumption == \A n \in HeapSizes : htfh_size <= align_up(n, PageSize)

\* Requests within ALIGN_SIZE of the end of size_t, for which align_up wraps,
\* and products of htfh_calloc beyond it are left out
ASSUME RequestsAssumption ==
    \A n \in Sizes \cup {count * bytes : count \in Counts, bytes \in Sizes} :
        n + ALIGN_SIZE <= 2 ^ SizeBits

\* and so are alignments for which the sums of htfh_memalign wrap
ASSUME AlignsAssumption ==
    \A a \in Aligns : htfh_size + block_size_max + 2 * a + 2 * sizeof_BlockHeader <= 2 ^ SizeBits

\* Doubling, which the provers do not know of
ASSUME PowersAssumption == \A k \in 0 .. SizeBits : 2 ^ (k + 1) = 2 * 2 ^ k

FLs == 0 .. FL_INDEX_COUNT - 1
SLs == 0 .. SL_INDEX_COUNT - 1

-----------------------------------------------------------------------------
(* htfh_utils: bits and size classes. A bitmap is the set of its set bits. *)

htfh_ffs(bits) == CHOOSE i \in bits : \A j \in bits : i <= j
htfh_fls(n)    == CHOOSE k \in 0 .. SizeBits : 2 ^ k <= n /\ n < 2 ^ (k + 1)

\* the list a block of this size is kept in: <<fl, sl>>
mapping_insert(size) ==
    IF size < SMALL_BLOCK_SIZE
    THEN <<0, size \div ALIGN_SIZE>>
    ELSE LET f == htfh_fls(size)
         IN  <<f - (FL_INDEX_SHIFT - 1), (size \div 2 ^ (f - SL_INDEX_COUNT_LOG2)) - SL_INDEX_COUNT>>

mapping_searchMutant(size) ==
    mapping_insert(IF size >= SMALL_BLOCK_SIZE
                   THEN size + 2 ^ (htfh_fls(size) - SL_INDEX_COUNT_LOG2)
                   ELSE size)

\* the first list whose blocks are all large enough for this size
mapping_search(size) ==
    mapping_insert(IF size >= SMALL_BLOCK_SIZE
                   THEN size + 2 ^ (htfh_fls(size) - SL_INDEX_COUNT_LOG2) - 1
                   ELSE size)

-----------------------------------------------------------------------------
(* block: headers and their physical neighbours.                           *)

block_to_ptr(b)   == b + block_start_offset
block_from_ptr(p) == p - block_start_offset

block_next(h, b) == block_to_ptr(b) + h.mem[b].size - block_header_overhead

block_link_next(h, b) == [h EXCEPT !.mem[block_next(h, b)].prev_phys_block = b]

block_mark_as_free(h, b) ==
    [block_link_next(h, b) EXCEPT !.mem[block_next(h, b)].prev_is_free = TRUE,
                                  !.mem[b].is_free = TRUE]

block_mark_as_usedMutant(h, b) ==
    [h EXCEPT !.mem[b].is_free = FALSE, !.mem[b].next_free = NULL, !.mem[b].prev_free = NULL]

\* the client owns the block from here on, with the words at its end and its
\* start that held the neighbour's prev_phys_block and the free links
block_mark_as_used(h, b) ==
    [h EXCEPT !.mem[block_next(h, b)].prev_is_free = FALSE,
              !.mem[block_next(h, b)].prev_phys_block = NULL,
              !.mem[b].is_free = FALSE,
              !.mem[b].next_free = NULL,
              !.mem[b].prev_free = NULL]

block_can_split(h, b, size) == h.mem[b].size >= sizeof_BlockHeader + size

RemainingMutant(b, size) == block_to_ptr(b) + size

\* where the second part of a split begins
Remaining(b, size) == block_to_ptr(b) + size - block_header_overhead

\* block_split, after block_can_split: sizes are multiples of ALIGN_SIZE and
\* the remainder is large enough, so none of its error returns is taken
block_split(h, b, size) ==
    LET header == [size            |-> h.mem[b].size - (size + block_header_overhead),
                   is_free         |-> FALSE,
                   prev_is_free    |-> FALSE,
                   prev_phys_block |-> NULL,
                   next_free       |-> NULL,
                   prev_free       |-> NULL]
    IN  block_mark_as_free(
            [h EXCEPT !.mem = [a \in DOMAIN h.mem \cup {Remaining(b, size)} |->
                                  CASE a = Remaining(b, size) -> header
                                    [] a = b -> [h.mem[b] EXCEPT !.size = size]
                                    [] OTHER -> h.mem[a]]],
            Remaining(b, size))

\* block_absorb: p takes over the storage and the header of b
block_absorb(h, p, b) ==
    block_link_next(
        [h EXCEPT !.mem = [a \in DOMAIN h.mem \ {b} |->
                              IF a = p
                              THEN [h.mem[p] EXCEPT !.size = @ + h.mem[b].size + block_header_overhead]
                              ELSE h.mem[a]]],
        p)

-----------------------------------------------------------------------------
(* controller: free lists and bitmaps. What block_null's own links hold is *)
(* never read and not kept.                                                *)

NoClass == <<NULL, NULL>>

controller_search_suitable_block(h, fl, sl) ==
    LET here  == {j \in h.sl_bitmap[fl] : j >= sl}
        above == {i \in h.fl_bitmap : i >= fl + 1}
        row   == h.sl_bitmap[htfh_ffs(above)]
    IN  IF here # {} THEN <<fl, htfh_ffs(here)>>
        ELSE IF above = {} \/ row = {} THEN NoClass
        ELSE <<htfh_ffs(above), htfh_ffs(row)>>

\* remove_free_block refuses a block whose links are NULL
Linked(h, b) == h.mem[b].prev_free # NULL /\ h.mem[b].next_free # NULL

UnlinkMutant(mem, b) ==
    [a \in DOMAIN mem |->
        IF a = mem[b].prev_free THEN [mem[a] EXCEPT !.next_free = mem[b].next_free] ELSE mem[a]]

Unlink(mem, b) ==
    [a \in DOMAIN mem |->
        CASE a = mem[b].next_free -> [mem[a] EXCEPT !.prev_free = mem[b].prev_free]
          [] a = mem[b].prev_free -> [mem[a] EXCEPT !.next_free = mem[b].next_free]
          [] OTHER -> mem[a]]

controller_remove_free_block(h, b, c) ==
    LET emptied == h.blocks[c] = b /\ h.mem[b].next_free = block_null
        row     == h.sl_bitmap[c[1]] \ {c[2]}
    IN  [mem       |-> Unlink(h.mem, b),
         blocks    |-> IF h.blocks[c] = b
                       THEN [h.blocks EXCEPT ![c] = h.mem[b].next_free] ELSE h.blocks,
         sl_bitmap |-> IF emptied THEN [h.sl_bitmap EXCEPT ![c[1]] = row] ELSE h.sl_bitmap,
         fl_bitmap |-> IF emptied /\ row = {} THEN h.fl_bitmap \ {c[1]} ELSE h.fl_bitmap]

controller_insert_free_block(h, b, c) ==
    [mem       |-> [a \in DOMAIN h.mem |->
                      CASE a = b -> [h.mem[b] EXCEPT !.next_free = h.blocks[c], !.prev_free = block_null]
                        [] a = h.blocks[c] -> [h.mem[a] EXCEPT !.prev_free = b]
                        [] OTHER -> h.mem[a]],
     blocks    |-> [h.blocks EXCEPT ![c] = b],
     fl_bitmap |-> h.fl_bitmap \cup {c[1]},
     sl_bitmap |-> [h.sl_bitmap EXCEPT ![c[1]] = @ \cup {c[2]}]]

controller_block_remove(h, b) == controller_remove_free_block(h, b, mapping_insert(h.mem[b].size))
controller_block_insert(h, b) == controller_insert_free_block(h, b, mapping_insert(h.mem[b].size))

\* the merges answer the block that results, NULL when they refuse
controller_block_merge_prev(h, b) ==
    LET p == h.mem[b].prev_phys_block
    IN  IF ~h.mem[b].prev_is_free
        THEN [h |-> h, block |-> b]
        ELSE IF h.mem[p].is_free /\ Linked(h, p)
             THEN [h |-> block_absorb(controller_block_remove(h, p), p, b), block |-> p]
             ELSE [h |-> h, block |-> NULL]

controller_block_merge_next(h, b) ==
    LET n == block_next(h, b)
    IN  IF ~h.mem[n].is_free
        THEN [h |-> h, block |-> b]
        ELSE IF Linked(h, n)
             THEN [h |-> block_absorb(controller_block_remove(h, n), b, n), block |-> b]
             ELSE [h |-> h, block |-> NULL]

\* a merged block goes back to its list, unless merge_next refused
FreeInserted(n) ==
    IF n.block = NULL THEN [h |-> n.h, ok |-> FALSE]
    ELSE [h |-> controller_block_insert(n.h, n.block), ok |-> TRUE]

controller_block_trim_free(h, b, size) ==
    LET rest  == Remaining(b, size)
        split == block_link_next(block_split(h, b, size), b)
    IN  IF block_can_split(h, b, size)
        THEN controller_block_insert([split EXCEPT !.mem[rest].prev_is_free = TRUE], rest)
        ELSE h

\* refuses every block in use, the only blocks it is called for
controller_block_trim_used(h, b, size) ==
    LET rest  == Remaining(b, size)
        split == block_split(h, b, size)
    IN  IF ~h.mem[b].is_free THEN [h |-> h, ok |-> FALSE]
        ELSE IF ~block_can_split(h, b, size) THEN [h |-> h, ok |-> TRUE]
        ELSE FreeInserted(controller_block_merge_next(
                              [split EXCEPT !.mem[rest].prev_is_free = FALSE], rest))

\* controller_block_trim_free_leading: the first part goes back to a free
\* list, and the block is its remainder, unless it is too small to split
LeadingRest(h, b, gap) ==
    IF block_can_split(h, b, gap) THEN Remaining(b, gap - block_header_overhead) ELSE b

controller_block_trim_free_leading(h, b, gap) ==
    LET rest  == LeadingRest(h, b, gap)
        split == block_split(h, b, gap - block_header_overhead)
    IN  IF rest = b
        THEN h
        ELSE controller_block_insert(
                 block_link_next([split EXCEPT !.mem[rest].prev_is_free = TRUE], b), b)

\* controller_block_find_free: the list whose first block will do
SuitableClass(h, size) ==
    LET c == mapping_search(size)
    IN  IF size = 0 \/ c[1] >= FL_INDEX_COUNT
        THEN NoClass
        ELSE controller_search_suitable_block(h, c[1], c[2])

controller_block_find_free(h, size) ==
    LET c == SuitableClass(h, size)
    IN  IF c = NoClass \/ h.mem[h.blocks[c]].size < size \/ ~Linked(h, h.blocks[c])
        THEN [h |-> h, block |-> NULL]
        ELSE [h |-> controller_remove_free_block(h, h.blocks[c], c), block |-> h.blocks[c]]

controller_block_mark_used(h, b, size) ==
    block_mark_as_used(controller_block_trim_free(h, b, size), b)

controller_new ==
    [mem       |-> [a \in {} |-> NULL],
     blocks    |-> [c \in FLs \X SLs |-> block_null],
     fl_bitmap |-> {},
     sl_bitmap |-> [fl \in FLs |-> {}]]

-----------------------------------------------------------------------------
(* htfh: the allocator's entry points as functions of the heap.            *)

adjust_request_sizeDownMutant(size, align) ==
    IF size = 0 \/ size >= block_size_max THEN 0
    ELSE IF size > block_size_min THEN align_down(size, align) ELSE block_size_min

adjust_request_size(size, align) ==
    LET aligned == align_up(size, align)
    IN  IF size = 0 \/ aligned >= block_size_max THEN 0
        ELSE IF aligned > block_size_min THEN aligned ELSE block_size_min

FirstBlock == htfh_size - block_header_overhead
Header(size, is_free, prev_is_free, prev) ==
    [size |-> size, is_free |-> is_free, prev_is_free |-> prev_is_free, prev_phys_block |-> prev,
     next_free |-> NULL, prev_free |-> NULL]

\* htfh_add_pool over an empty controller: one free block and the last, empty
\* one. A pool of the wrong size is refused and the heap has no block.
htfh_add_pool(bytes) ==
    LET n    == pool_bytes(bytes)
        last == FirstBlock + n + block_header_overhead
    IN  IF n < block_size_min \/ n > block_size_max
        THEN controller_new
        ELSE controller_block_insert(
                 [controller_new EXCEPT
                     !.mem = [a \in {FirstBlock, last} |->
                                 IF a = FirstBlock THEN Header(n, TRUE, FALSE, NULL)
                                                   ELSE Header(0, FALSE, TRUE, FirstBlock)]],
                 FirstBlock)

\* what is left to do once find_free answered f for a request of this size
Allocated(f, size) ==
    IF f.block = NULL
    THEN [h |-> f.h, ptr |-> NULL]
    ELSE [h |-> controller_block_mark_used(f.h, f.block, size), ptr |-> block_to_ptr(f.block)]

htfh_malloc(h, size) ==
    LET adjust == adjust_request_size(size, ALIGN_SIZE)
    IN  Allocated(controller_block_find_free(h, adjust), adjust)

\* the rest of htfh_free, after merge_prev answered m
FreeMergedMutant(m) == FreeInserted(m)

FreeMerged(m) ==
    IF m.block = NULL THEN [h |-> m.h, ok |-> FALSE]
    ELSE FreeInserted(controller_block_merge_next(m.h, m.block))

htfh_free(h, b) ==
    IF h.mem[b].is_free
    THEN [h |-> h, ok |-> FALSE]
    ELSE FreeMerged(controller_block_merge_prev(block_mark_as_free(h, b), b))

gap_minimum == sizeof_BlockHeader

memalign_sizeMutant(align, adjust) ==
    IF adjust # 0 /\ align > ALIGN_SIZE THEN adjust_request_size(adjust + align, align) ELSE adjust

memalign_size(align, adjust) ==
    IF adjust # 0 /\ align > ALIGN_SIZE
    THEN adjust_request_size(adjust + align + gap_minimum, align)
    ELSE adjust

memalign_gap(ptr, align) ==
    LET aligned == align_up(ptr, align)
        gap     == aligned - ptr
        offset  == IF gap_minimum - gap > align THEN gap_minimum - gap ELSE align
    IN  IF gap # 0 /\ gap < gap_minimum THEN align_up(aligned + offset, align) - ptr ELSE gap

\* htfh_memalign once find_free answered f
MemalignTrimmed(f, gap, adjust) ==
    Allocated([h     |-> controller_block_trim_free_leading(f.h, f.block, gap),
               block |-> LeadingRest(f.h, f.block, gap)], adjust)
MemalignFrom(f, align, adjust) ==
    IF f.block = NULL \/ memalign_gap(block_to_ptr(f.block), align) = 0
    THEN Allocated(f, adjust)
    ELSE MemalignTrimmed(f, memalign_gap(block_to_ptr(f.block), align), adjust)

htfh_memalign(h, align, size) ==
    LET adjust == adjust_request_size(size, ALIGN_SIZE)
    IN  MemalignFrom(controller_block_find_free(h, memalign_size(align, adjust)), align, adjust)

\* htfh_realloc, for a size that is not 0 and a block b in use
realloc_copies(h, b, size) ==
    LET adjust == adjust_request_size(size, ALIGN_SIZE)
        next   == h.mem[block_next(h, b)]
    IN  /\ adjust > h.mem[b].size
        /\ ~next.is_free \/ adjust > h.mem[b].size + next.size + block_header_overhead
realloc_grows(h, b, size) ==
    /\ adjust_request_size(size, ALIGN_SIZE) > h.mem[b].size
    /\ ~realloc_copies(h, b, size)

\* the copy's second half: the old block is freed once malloc answered m, and
\* the new one is lost to the client should htfh_free refuse
CopiedFrom(m, b) ==
    IF m.ptr = NULL THEN m
    ELSE [h |-> htfh_free(m.h, b).h, ptr |-> IF htfh_free(m.h, b).ok THEN m.ptr ELSE NULL]

-----------------------------------------------------------------------------
VARIABLES
    created,    \* the allocator exists
    heap,       \* its heap: headers, list heads, bitmaps
    holder,     \* the thread that keeps the mutex between calls, or NoThread
    live        \* the client's view: what it was given and has not freed

vars == <<created, heap, holder, live>>

Init ==
    /\ created = FALSE
    /\ heap = controller_new
    /\ holder = NoThread
    /\ live = [p \in {} |-> NULL]

\* a call gets the recursive mutex unless another thread kept it
Locks(t) == created /\ holder \in {NoThread, t}

Given(p, size, align) == [q \in DOMAIN live \cup {p} |->
                             IF q = p THEN [size |-> size, align |-> align] ELSE live[q]]
Without(p) == [q \in DOMAIN live \ {p} |-> live[q]]

\* m is what the call left behind; the client keeps what it was given
Takes(m, size, align) ==
    /\ heap' = m.h
    /\ live' = IF m.ptr = NULL THEN live ELSE Given(m.ptr, size, align)

htfh_create(bytes) ==
    /\ ~created
    /\ IF bytes % ALIGN_SIZE # 0
       THEN UNCHANGED <<created, heap>>
       ELSE created' = TRUE /\ heap' = htfh_add_pool(bytes)
    /\ UNCHANGED <<holder, live>>

htfh_destroy(t) ==
    /\ Locks(t)
    /\ created' = FALSE
    /\ heap' = controller_new
    /\ holder' = NoThread
    /\ live' = [p \in {} |-> NULL]

Malloc(t, size) ==
    /\ Locks(t)
    /\ \E m \in {htfh_malloc(heap, size)} : Takes(m, size, ALIGN_SIZE)
    /\ UNCHANGED <<created, holder>>

htfh_calloc(t, count, bytes) ==
    /\ Locks(t)
    /\ \E m \in {htfh_malloc(heap, size_t(count * bytes))} : Takes(m, count * bytes, ALIGN_SIZE)
    /\ UNCHANGED <<created, holder>>

\* Of a block in use, or again of one that was freed and is still a block:
\* the second is refused. htfh_free(NULL) changes nothing and is no action.
Free(t, p) ==
    /\ Locks(t)
    /\ \E f \in {htfh_free(heap, block_from_ptr(p))} :
          /\ heap' = f.h
          /\ live' = IF f.ok THEN Without(p) ELSE live
    /\ UNCHANGED <<created, holder>>

\* A call that fails returns with the mutex held
Memalign(t, align, size) ==
    /\ Locks(t)
    /\ \E m \in {htfh_memalign(heap, align, size)} :
          /\ Takes(m, size, align)
          /\ holder' = IF m.ptr = NULL THEN t ELSE holder
    /\ UNCHANGED created

ReallocNull(t, size) == Malloc(t, size)

\* The call frees the block and goes on to read its header, whose free bit is
\* set, absorbed or not: it answers NULL and changes nothing more
ReallocZero(t, p) == Free(t, p)

\* Either a copy into a new block, or, within the block's size, a trim that
\* answers NULL when it is refused
Realloc(t, p, size) ==
    /\ Locks(t) /\ p \in DOMAIN live
    /\ ~realloc_grows(heap, block_from_ptr(p), size)
    /\ IF realloc_copies(heap, block_from_ptr(p), size)
       THEN \E m \in {CopiedFrom(htfh_malloc(heap, size), block_from_ptr(p))} :
               /\ heap' = m.h
               /\ live' = IF m.ptr = NULL THEN live
                          ELSE [q \in (DOMAIN live \ {p}) \cup {m.ptr} |->
                                   IF q = m.ptr THEN [size |-> size, align |-> ALIGN_SIZE] ELSE live[q]]
       ELSE \E r \in {controller_block_trim_used(heap, block_from_ptr(p),
                                                 adjust_request_size(size, ALIGN_SIZE))} :
               /\ heap' = r.h
               /\ live' = IF r.ok THEN Given(p, size, ALIGN_SIZE) ELSE live
    /\ UNCHANGED <<created, holder>>

\* The merge answers the block, which the call takes for an error code: it
\* answers NULL, with the two blocks merged and their neighbour still told
\* that the block before it is free. After a merge that was refused the call
\* goes on to the trim, which refuses a block in use.
ReallocGrow(t, p, size) ==
    /\ Locks(t) /\ p \in DOMAIN live
    /\ realloc_grows(heap, block_from_ptr(p), size)
    /\ \E m \in {controller_block_merge_next(heap, block_from_ptr(p))} :
          heap' = IF m.block # NULL THEN m.h ELSE block_mark_as_used(m.h, block_from_ptr(p))
    /\ UNCHANGED <<created, holder, live>>

Blocks == {b \in DOMAIN heap.mem : heap.mem[b].size # 0}

Next ==
    \/ \E bytes \in HeapSizes : htfh_create(bytes)
    \/ \E t \in Threads :
          \/ htfh_destroy(t)
          \/ \E size \in Sizes : Malloc(t, size) \/ ReallocNull(t, size)
          \/ \E count \in Counts, size \in Sizes : htfh_calloc(t, count, size)
          \/ \E b \in Blocks : Free(t, block_to_ptr(b))
          \/ \E align \in Aligns, size \in Sizes : Memalign(t, align, size)
          \/ \E p \in DOMAIN live :
                \/ ReallocZero(t, p)
                \/ \E size \in Sizes \ {0} : Realloc(t, p, size)

\* Callers that do not ask realloc to grow a block into its free neighbour
Spec == Init /\ [][Next]_vars

NextGrow ==
    \/ Next
    \/ \E t \in Threads, p \in DOMAIN live, size \in Sizes \ {0} : ReallocGrow(t, p, size)

\* Callers that do
SpecGrow == Init /\ [][NextGrow]_vars

-----------------------------------------------------------------------------
(* Properties.                                                             *)

\* Blocks tile the pool: from each block its size leads to the next header,
\* over no other header, the first one stands where htfh_add_pool put it and
\* the walk ends at the one empty block; no block is smaller than a free
\* block's links need (block.h, block_size_min), and every size and address is
\* a multiple of ALIGN_SIZE (constants.h).
Tiled ==
    /\ \A b \in DOMAIN heap.mem : b % ALIGN_SIZE = 0 /\ heap.mem[b].size % ALIGN_SIZE = 0
    /\ \A b \in Blocks :
          /\ heap.mem[b].size >= block_size_min
          /\ block_next(heap, b) \in DOMAIN heap.mem
          /\ \A a \in DOMAIN heap.mem : ~(b < a /\ a < block_next(heap, b))
    /\ DOMAIN heap.mem # {} =>
          /\ FirstBlock \in Blocks
          /\ Cardinality(DOMAIN heap.mem \ Blocks) = 1
          /\ \A b \in Blocks, a \in DOMAIN heap.mem \ Blocks : FirstBlock <= b /\ b < a

\* A header's second flag says whether the block before it is busy or free,
\* and when it is free prev_phys_block leads back to it: what
\* controller_block_merge_prev relies on to coalesce.
PrevFlagExact ==
    \A b \in Blocks :
        LET n == heap.mem[block_next(heap, b)]
        IN  /\ n.prev_is_free = heap.mem[b].is_free
            /\ heap.mem[b].is_free => n.prev_phys_block = b

\* Free blocks coalesce at once: through splits, alignment gaps and merges on
\* either side no two neighbours are both free.
NoFreeNeighbours ==
    \A b \in Blocks : ~(heap.mem[b].is_free /\ heap.mem[block_next(heap, b)].is_free)

\* the blocks met on the way from a list's head along next_free
Walk(c) ==
    LET at[i \in 0 .. Cardinality(Blocks)] ==
            IF i = 0 THEN heap.blocks[c]
            ELSE IF at[i - 1] \in Blocks THEN heap.mem[at[i - 1]].next_free ELSE at[i - 1]
    IN  {at[i] : i \in DOMAIN at}

\* Every free block is reached from the head of the one list its size belongs
\* to, no list leads to anything else, all lists end, and prev_free leads back
\* the way next_free came: removal from the middle of a list relies on it.
ListsExact ==
    /\ \A c \in FLs \X SLs :
          Walk(c) = {b \in Blocks : heap.mem[b].is_free /\ mapping_insert(heap.mem[b].size) = c}
                        \cup {block_null}
    /\ \A b \in Blocks : heap.mem[b].is_free =>
          LET n == heap.mem[b].next_free
              p == heap.mem[b].prev_free
          IN  /\ n # block_null => heap.mem[n].prev_free = b
              /\ p = block_null <=> heap.blocks[mapping_insert(heap.mem[b].size)] = b

\* The two levels of bitmaps say which lists hold a block: a stale bit would
\* hand out the null block, a missing one would hide free memory.
BitmapsExact ==
    /\ \A c \in FLs \X SLs : c[2] \in heap.sl_bitmap[c[1]] <=> heap.blocks[c] # block_null
    /\ \A fl \in FLs : fl \in heap.fl_bitmap <=> heap.sl_bitmap[fl] # {}

\* The segregated lists and the bitmaps that index them agree with the blocks.
FreeIndexExact == ListsExact /\ BitmapsExact

\* controller_block_find_free answers a free block that is large enough, and
\* fails only when every free block that would do is in the class the size
\* itself falls in and that class also holds smaller sizes: the rounding up
\* that makes the search constant time loses nothing else. For the sizes that
\* clients ask for and for the exact size of each free block.
SearchExact ==
    \A n \in ({adjust_request_size(size, ALIGN_SIZE) : size \in Sizes} \ {0})
                 \cup {heap.mem[b].size : b \in {b \in Blocks : heap.mem[b].is_free}} :
        LET f == controller_block_find_free(heap, n).block
            c == mapping_insert(n)
        IN  /\ f # NULL => heap.mem[f].is_free /\ heap.mem[f].size >= n
            /\ f = NULL => \A b \in Blocks :
                  heap.mem[b].is_free /\ heap.mem[b].size >= n =>
                      mapping_insert(heap.mem[b].size) = c /\ mapping_insert(n - ALIGN_SIZE) = c

\* What a client holds is a block in use, large enough for what was asked, and
\* every block in use is held by a client: nothing leaks inside the heap.
\* htfh_memalign honours an alignment of four times ALIGN_SIZE and more, also
\* when the gap in front is too small to be a block of its own.
HeldExact ==
    /\ {block_from_ptr(p) : p \in DOMAIN live} = {b \in Blocks : ~heap.mem[b].is_free}
    /\ \A p \in DOMAIN live :
          /\ live[p].size <= heap.mem[block_from_ptr(p)].size
          /\ live[p].align >= 4 * ALIGN_SIZE => p % live[p].align = 0

\* The largest pool that htfh_add_pool accepts ends here
HeapEnd == htfh_size + block_size_max + htfh_pool_overhead

ArenaOf == INSTANCE Arena WITH
    regions  <- [p \in DOMAIN live |-> live[p].size],
    Overhead <- block_header_overhead,
    Low      <- htfh_size,
    High     <- HeapEnd

\* The allocator gives out regions that no client holds, each behind its size
\* word, and never takes one back unasked: malloc, calloc, memalign, free and
\* realloc through every sequence of calls implement the arena.
ImplementsArena == ArenaOf!Spec
=============================================================================
