--------------------------------- MODULE GCA ---------------------------------
(***************************************************************************)
(* The boundary-tag allocator of allocator/glibc: blocks behind a header   *)
(* that also describes the block before it, one free list, and a break     *)
(* that is moved up inside one mapping. A call is one critical section of  *)
(* the recursive mutex, released on every path.                            *)
(*                                                                         *)
(* Addresses are byte offsets from the start of the mapping. A header is   *)
(* in DOMAIN h.mem while it is the header of a block or the sentinel at    *)
(* the break. Links that lie in memory a client owns are NULL.             *)
(***************************************************************************)
EXTENDS Integers, FiniteSets

CONSTANTS
    GCA_SBRK_ALIGN,    \* the break moves by multiples of this
    SizeBits,          \* width of size_t
    HeapSizes,         \* the arguments of gca_create, in bytes
    Sizes,             \* requested sizes, in bytes
    Counts,            \* element counts of gca_calloc
    GrowSizes          \* sizes asked of gca_realloc

Word == 8    \* sizeof(size_t)
GCA_INFO_SIZE  == 2 * Word
GCA_DATA_ALIGN == 2 * Word
SIZE_MAX == 2 ^ SizeBits - 1

NULL == -1

size_t(n) == n % 2 ^ SizeBits
gca_round_up(x, align) == LET y == size_t(x + align - 1) IN y - (y % align)
aligned(size) == gca_round_up(size, GCA_DATA_ALIGN)

ASSUME SizesAssumption ==
    /\ Sizes \subseteq 0 .. SIZE_MAX /\ Counts \subseteq 0 .. SIZE_MAX
    /\ GrowSizes \subseteq 0 .. SIZE_MAX /\ HeapSizes \subseteq 0 .. SIZE_MAX

\* a page is a power of two that holds two headers and the smallest block
ASSUME PageAssumption ==
    /\ \E k \in 0 .. SizeBits - 1 : GCA_SBRK_ALIGN = 2 ^ k
    /\ GCA_SBRK_ALIGN \in Nat /\ GCA_SBRK_ALIGN >= 2 * GCA_INFO_SIZE + GCA_DATA_ALIGN
    /\ GCA_SBRK_ALIGN % GCA_DATA_ALIGN = 0

ASSUME WidthAssumption ==
    2 ^ SizeBits \in Nat /\ 2 ^ SizeBits > GCA_SBRK_ALIGN /\ 2 ^ SizeBits % GCA_DATA_ALIGN = 0

page_size(size) == gca_round_up(size_t(size + GCA_INFO_SIZE), GCA_SBRK_ALIGN)

\* Two kinds of requests near SIZE_MAX are not refused and left out: one whose
\* page_size wraps to 0, and a realloc that rounds to 0
ASSUME NoWrapAssumption ==
    /\ \A n \in Sizes \cup {n \in {c * m : c \in Counts, m \in Sizes} : n <= SIZE_MAX} :
          page_size(aligned(n)) # 0
    /\ \A n \in GrowSizes : n # 0 => aligned(n) # 0 /\ page_size(aligned(n)) # 0

-----------------------------------------------------------------------------
(* Headers. prev and curr are prev_info and curr_info: a size and a flag.  *)

Info(size, used) == [size |-> size, used |-> used]
Header(prev, curr) == [prev |-> prev, curr |-> curr, prev_free |-> NULL, next_free |-> NULL]

gca_data_to_header(p) == p - GCA_INFO_SIZE
gca_header_to_data(b) == b + GCA_INFO_SIZE

gca_next(h, b) == gca_header_to_data(b) + h.mem[b].curr.size
gca_prev(h, b) == gca_data_to_header(b - h.mem[b].prev.size)
gca_is_sentinel(h, b) == h.mem[b].curr.size = 0

gca_add_free_listMutant(h, b) ==
    [h EXCEPT !.free_list = b, !.mem[b].prev_free = NULL, !.mem[b].next_free = h.free_list]

gca_add_free_list(h, b) ==
    [h EXCEPT
        !.free_list = b,
        !.mem = [a \in DOMAIN h.mem |->
                    CASE a = b -> [h.mem[a] EXCEPT !.prev_free = NULL, !.next_free = h.free_list]
                      [] a = h.free_list -> [h.mem[a] EXCEPT !.prev_free = b]
                      [] OTHER -> h.mem[a]]]

gca_remove_free_list(h, b) ==
    [h EXCEPT
        !.free_list = IF @ = b THEN h.mem[b].next_free ELSE @,
        !.mem = [a \in DOMAIN h.mem |->
                    CASE a = h.mem[b].prev_free -> [h.mem[a] EXCEPT !.next_free = h.mem[b].next_free]
                      [] a = h.mem[b].next_free -> [h.mem[a] EXCEPT !.prev_free = h.mem[b].prev_free]
                      [] OTHER -> h.mem[a]]]

CoalescesNext(h, b) == ~h.mem[gca_next(h, b)].curr.used

\* the flag that coalescing b with its successor leaves behind it
FlagBehindMutant(h, b) == FALSE
FlagBehind(h, b) == h.mem[b].curr.used

\* b takes over n, which follows it; nn follows n
Absorbed(h, b, n, nn) ==
    LET size == h.mem[b].curr.size + GCA_INFO_SIZE + h.mem[n].curr.size
    IN  [h EXCEPT
            !.mem = [a \in DOMAIN h.mem \ {n} |->
                        CASE a = b -> [h.mem[a] EXCEPT !.curr.size = size]
                          [] a = nn -> [h.mem[a] EXCEPT !.prev = Info(size, FlagBehind(h, b))]
                          [] OTHER -> h.mem[a]]]

gca_coalesce_next(h, b) ==
    LET n == gca_next(h, b)
    IN  IF CoalescesNext(h, b)
        THEN Absorbed(gca_remove_free_list(h, n), b, n, gca_next(h, n))
        ELSE h

\* the block that b becomes part of
PrevOrSelf(h, b) == IF h.mem[b].prev.used THEN b ELSE gca_prev(h, b)

gca_coalesce_prev(h, b) ==
    IF h.mem[b].prev.used THEN h ELSE gca_coalesce_next(h, gca_prev(h, b))

gca_coalesce(h, b) == gca_coalesce_prev(gca_coalesce_next(h, b), b)

\* the n-th block of the free list, NULL past its end
ListAt(h) ==
    LET at[i \in 1 .. Cardinality(DOMAIN h.mem)] ==
            IF i = 1 THEN h.free_list
            ELSE IF at[i - 1] = NULL THEN NULL ELSE h.mem[at[i - 1]].next_free
    IN  at

Fits(h, b, size) == h.mem[b].curr.size >= size

gca_find_free_blockMutant(h, size) ==
    IF h.free_list # NULL /\ Fits(h, h.free_list, size) THEN h.free_list ELSE NULL

\* the first block of the list that is large enough
gca_find_free_block(h, size) ==
    LET at   == ListAt(h)
        fits == {i \in DOMAIN at : at[i] # NULL /\ Fits(h, at[i], size)}
    IN  IF fits = {} THEN NULL ELSE at[CHOOSE i \in fits : \A j \in fits : i <= j]

-----------------------------------------------------------------------------
(* The emulated break                                                      *)

\* gca_handled_sbrk, gca_sbrk and gca_brk: whether the break can move up. An
\* increment past SIZE_MAX / 2, negative for gca_sbrk, is refused as well.
CanMove(h, delta) == h.current_brk + delta <= h.heap_size

\* the sentinel becomes the header of the new memory, with a new one behind it
Extended(h, delta) ==
    LET top == gca_data_to_header(h.current_brk)
        new == Info(delta - GCA_INFO_SIZE, FALSE)
    IN  [h EXCEPT
            !.current_brk = @ + delta,
            !.mem = [a \in DOMAIN h.mem \cup {top + delta} |->
                        CASE a = top -> [h.mem[a] EXCEPT !.curr = new]
                          [] a = top + delta -> Header(new, Info(0, TRUE))
                          [] OTHER -> h.mem[a]]]

\* the new block joins the one before it, if that is free
NewBlock(h, top) ==
    [h |-> gca_coalesce_prev(gca_add_free_list(h, top), top), block |-> PrevOrSelf(h, top)]

\* answers the block, NULL when the break cannot move
gca_sbrk_new_block(h, size) ==
    IF CanMove(h, page_size(size))
    THEN NewBlock(Extended(h, page_size(size)), gca_data_to_header(h.current_brk))
    ELSE [h |-> h, block |-> NULL]

-----------------------------------------------------------------------------
(* Requests as functions of the heap                                       *)

SplitsMutant(h, b, size) == h.mem[b].curr.size >= size + GCA_INFO_SIZE

Splits(h, b, size) == h.mem[b].curr.size >= size + GCA_INFO_SIZE + GCA_DATA_ALIGN

\* b keeps size bytes; the rest becomes the block at rest, before n
Cut(h, b, size, rest, n) ==
    LET split == h.mem[b].curr.size - size - GCA_INFO_SIZE
    IN  [h EXCEPT
            !.mem = [a \in DOMAIN h.mem \cup {rest} |->
                        CASE a = b -> [h.mem[a] EXCEPT !.curr.size = size]
                          [] a = rest -> Header(Info(size, h.mem[b].curr.used), Info(split, FALSE))
                          [] a = n -> [h.mem[a] EXCEPT !.prev = Info(split, FALSE)]
                          [] OTHER -> h.mem[a]]]

Rest(h, rest) == gca_coalesce_next(gca_add_free_list(h, rest), rest)

gca_split_block(h, b, size) ==
    IF Splits(h, b, size)
    THEN Rest(Cut(h, b, size, gca_header_to_data(b) + size, gca_next(h, b)),
              gca_header_to_data(b) + size)
    ELSE h

MarkedMutant(h, b) ==
    [h EXCEPT !.mem[b].curr.used = TRUE, !.mem[b].prev_free = NULL, !.mem[b].next_free = NULL]

\* b has left the free list: the client owns it
Marked(h, b) ==
    [h EXCEPT !.mem[b].curr.used = TRUE,
              !.mem[b].prev_free = NULL,
              !.mem[b].next_free = NULL,
              !.mem[gca_next(h, b)].prev.used = TRUE]

Taken(f, size) ==
    IF f.block = NULL
    THEN [h |-> f.h, ptr |-> NULL]
    ELSE [h   |-> Marked(gca_remove_free_list(gca_split_block(f.h, f.block, size), f.block), f.block),
          ptr |-> gca_header_to_data(f.block)]

FromList(h, found, size) ==
    IF found # NULL THEN [h |-> h, block |-> found] ELSE gca_sbrk_new_block(h, size)

gca_malloc(h, size) ==
    IF aligned(size) = 0
    THEN [h |-> h, ptr |-> NULL]
    ELSE Taken(FromList(h, gca_find_free_block(h, aligned(size)), aligned(size)), aligned(size))

Unmarked(h, b) ==
    [h EXCEPT !.mem[b].curr.used = FALSE, !.mem[gca_next(h, b)].prev.used = FALSE]

gca_free(h, b) == gca_coalesce(gca_add_free_list(Unmarked(h, b), b), b)

-----------------------------------------------------------------------------
VARIABLES
    heap,    \* the allocator: headers, free list, break and size
    live     \* the clients' view: the size of what they were given, by address

vars == <<heap, live>>

NoHeap == [mem |-> [a \in {} |-> NULL], free_list |-> NULL, current_brk |-> 0, heap_size |-> 0]

Created == DOMAIN heap.mem # {}

Init == heap = NoHeap /\ live = [p \in {} |-> NULL]

Given(p, size) == [q \in DOMAIN live \cup {p} |-> IF q = p THEN size ELSE live[q]]
Without(p) == [q \in DOMAIN live \ {p} |-> live[q]]

\* m is what the call left behind; the client keeps what it was given
Takes(m, size) ==
    /\ heap' = m.h
    /\ live' = IF m.ptr = NULL THEN live ELSE Given(m.ptr, size)

\* one free block between the first header and the sentinel; a mapping smaller
\* than a page is refused
CreateHeap(heapSize) ==
    LET bottom == Info(GCA_SBRK_ALIGN - 2 * GCA_INFO_SIZE, FALSE)
        top    == GCA_SBRK_ALIGN - GCA_INFO_SIZE
    IN  /\ ~Created
        /\ GCA_SBRK_ALIGN <= heapSize
        /\ heap' = gca_add_free_list(
                       [mem         |-> [a \in {0, top} |->
                                            IF a = 0 THEN Header(Info(0, TRUE), bottom)
                                                     ELSE Header(bottom, Info(0, TRUE))],
                        free_list   |-> NULL,
                        current_brk |-> GCA_SBRK_ALIGN,
                        heap_size   |-> heapSize], 0)
        /\ UNCHANGED live

gca_destroy ==
    /\ Created
    /\ heap' = NoHeap
    /\ live' = [p \in {} |-> NULL]

Malloc(size) ==
    /\ Created
    /\ \E m \in {gca_malloc(heap, size)} : Takes(m, size)

gca_callocMutant(num, size) ==
    /\ Created /\ size # 0 /\ num # 0
    /\ \E m \in {gca_malloc(heap, size_t(num * size))} : Takes(m, num * size)

gca_calloc(num, size) ==
    /\ Created /\ size # 0 /\ num # 0
    /\ num <= SIZE_MAX \div size
    /\ \E m \in {gca_malloc(heap, num * size)} : Takes(m, num * size)

Free(p) ==
    /\ p \in DOMAIN live
    /\ heap' = gca_free(heap, gca_data_to_header(p))
    /\ live' = Without(p)

(* gca_realloc of a block in use. A block that is too small first absorbs  *)
(* a free neighbour, and keeps it even when that does not suffice.         *)

\* within the block's size
ReallocShrink(p, size) ==
    LET b == gca_data_to_header(p) IN
    /\ aligned(size) <= heap.mem[b].curr.size
    /\ heap' = gca_split_block(heap, b, aligned(size))
    /\ live' = Given(p, size)

\* g is the heap once b has absorbed its neighbour
Suffices(g, b, size) == CoalescesNext(heap, b) /\ aligned(size) <= g.mem[b].curr.size

ReallocGrow(p, size, b, g) ==
    /\ Suffices(g, b, size)
    /\ heap' = gca_split_block(g, b, aligned(size))
    /\ live' = Given(p, size)

\* what a block at the break asks of gca_sbrk_new_block
Missing(g, b, size) == aligned(size) - g.mem[b].curr.size

AtTop(g, b, size) == gca_is_sentinel(g, gca_next(g, b)) /\ CanMove(g, page_size(Missing(g, b, size)))

ReallocExtend(p, size, b, g) ==
    /\ ~Suffices(g, b, size) /\ AtTop(g, b, size)
    /\ \E n \in {gca_sbrk_new_block(g, Missing(g, b, size))} :
          heap' = gca_split_block(gca_coalesce_next(n.h, b), b, aligned(size))
    /\ live' = Given(p, size)

\* a copy; when malloc fails the block stays as it is
ReallocMove(p, size, b, g) ==
    /\ ~Suffices(g, b, size) /\ ~AtTop(g, b, size)
    /\ \E m \in {gca_malloc(g, size)} :
          IF m.ptr = NULL
          THEN heap' = m.h /\ UNCHANGED live
          ELSE /\ heap' = gca_free(m.h, b)
               /\ live' = [q \in (DOMAIN live \ {p}) \cup {m.ptr} |->
                              IF q = m.ptr THEN size ELSE live[q]]

Realloc(p, size) ==
    \/ ReallocShrink(p, size)
    \/ /\ aligned(size) > heap.mem[gca_data_to_header(p)].curr.size
       /\ \E g \in {gca_coalesce_next(heap, gca_data_to_header(p))} :
             \/ ReallocGrow(p, size, gca_data_to_header(p), g)
             \/ ReallocExtend(p, size, gca_data_to_header(p), g)
             \/ ReallocMove(p, size, gca_data_to_header(p), g)

\* gca_realloc(NULL, size)
ReallocNull(size) == Created /\ size # 0 /\ Malloc(size)

Next ==
    \/ \E heapSize \in HeapSizes : CreateHeap(heapSize)
    \/ gca_destroy
    \/ \E size \in Sizes : Malloc(size)
    \/ \E size \in GrowSizes : ReallocNull(size)
    \/ \E num \in Counts, size \in Sizes : gca_calloc(num, size)
    \/ \E p \in DOMAIN live : Free(p)
    \/ \E p \in DOMAIN live, size \in GrowSizes \ {0} : Realloc(p, size)

Spec == Init /\ [][Next]_vars

-----------------------------------------------------------------------------
(* Properties                                                              *)

Blocks == {b \in DOMAIN heap.mem : heap.mem[b].curr.size # 0}
FreeBlocks == {b \in Blocks : ~heap.mem[b].curr.used}

\* Blocks tile the memory below the break: from the first header each size
\* leads to the next header and over none, up to the one sentinel just under
\* the break; every block has room for the links of a free block and its data
\* is aligned as glibc.h asks (GCA_DATA_ALIGN).
Tiled ==
    Created =>
        /\ 0 \in Blocks
        /\ DOMAIN heap.mem \ Blocks = {gca_data_to_header(heap.current_brk)}
        /\ \A b \in Blocks :
              /\ heap.mem[b].curr.size >= GCA_DATA_ALIGN
              /\ gca_header_to_data(b) % GCA_DATA_ALIGN = 0
              /\ gca_next(heap, b) \in DOMAIN heap.mem
              /\ \A a \in DOMAIN heap.mem : ~(b < a /\ a < gca_next(heap, b))

\* The two tags of a block agree: what the header behind a block says of it
\* is what its own header says, so gca_prev leads back to it and the next
\* gca_coalesce_prev sees whether it is free.
TagsAgree == \A b \in Blocks : heap.mem[gca_next(heap, b)].prev = heap.mem[b].curr

\* Free neighbours are joined at once: after a free, a split, a shrink, a
\* growth that did not suffice and a move of the break.
NoFreeNeighbours ==
    \A b \in Blocks : ~(b \in FreeBlocks /\ gca_next(heap, b) \in FreeBlocks)

\* The boundary tags are exact, and coalescing, which trusts them, complete.
Coalesced == TagsAgree /\ NoFreeNeighbours

\* The free list ends, leads through every free block and through nothing
\* else, and prev_free leads back: removal from its middle relies on it.
ListExact ==
    Created =>
        LET at == ListAt(heap)
        IN  /\ {at[i] : i \in DOMAIN at} \ {NULL} = FreeBlocks
            /\ \A i \in DOMAIN at : at[i] # NULL =>
                  /\ heap.mem[at[i]].prev_free = IF i = 1 THEN NULL ELSE at[i - 1]
                  /\ heap.mem[at[i]].next_free # NULL =>
                        heap.mem[heap.mem[at[i]].next_free].prev_free = at[i]

\* What a client holds is a block in use with room for all it asked for, also
\* after a realloc in place, and no other block is in use: nothing leaks.
HeldExact ==
    /\ {gca_data_to_header(p) : p \in DOMAIN live} = Blocks \ FreeBlocks
    /\ \A p \in DOMAIN live : live[p] <= heap.mem[gca_data_to_header(p)].curr.size

\* The break moves only when it must: for a region that is new and larger than
\* every free block, or for the last region below the break, grown in place
\* past it.  gca_realloc grows the last one without a search, also when a free
\* block would have been large enough for a copy.
BreakNeeded ==
    [][heap.current_brk # heap'.current_brk /\ Created /\ DOMAIN heap'.mem # {} =>
          \E p \in DOMAIN live' :
              \/ /\ p \notin DOMAIN live
                 /\ \A b \in FreeBlocks : heap.mem[b].curr.size < live'[p]
              \/ /\ p \in DOMAIN live
                 /\ \A q \in DOMAIN live : q <= p
                 /\ p + live'[p] > gca_data_to_header(heap.current_brk)]_vars

\* No mapping is larger
HeapEnd == CHOOSE n \in HeapSizes : \A m \in HeapSizes : m <= n

ArenaOf == INSTANCE Arena WITH
    regions  <- live,
    Overhead <- GCA_INFO_SIZE,
    Low      <- 0,
    High     <- HeapEnd

\* malloc, calloc, free and realloc, in place or by copying, implement the
\* arena: no client's region overlaps another's or a header, ever.
ImplementsArena == ArenaOf!Spec
=============================================================================
