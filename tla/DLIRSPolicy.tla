----------------------------- MODULE DLIRSPolicy -----------------------------
(***************************************************************************)
(* The DLIRS replacement policy of src/src/cache/dlirs/dlirs.c, driven by  *)
(* one client that runs the get / request loops of src/src/main.c.         *)
(*                                                                         *)
(* The module says what the policy does with its three DequeueHashTables;  *)
(* what a DequeueHashTable does is given by the operators it is            *)
(* instantiated with.  DLIRSEntry objects are reference counted: an object *)
(* whose counter is 0 is free memory.  Each iteration of a loop of the C   *)
(* code is one step, so a loop that never ends is a behaviour that never   *)
(* returns to "idle".                                                      *)
(*                                                                         *)
(* Four values of pc stand for a process that is lost:                     *)
(*   "hung"   dqht_print_table walks a list that has become cyclic;        *)
(*   "fatal"  a FATAL(...) line ran, which calls exit;                     *)
(*   "exit"   dlirs_request answered -1, on which queryProcessor of main.c *)
(*            ends the process;                                            *)
(*   "abort"  freed memory or an uninitialised pointer was used, which the *)
(*            asan build of run.sh reports and aborts on.                  *)
(***************************************************************************)
EXTENDS Integers

CONSTANTS
    Keys, Entries, KeyOf(_), CacheSize, SIZE_MAX, Recheck, NULL,
    InitialHirsLimit,    \* hirs_limit of a new cache
    Gain(_, _)           \* how far dlirs_resize moves a limit

CONSTANTS                \* what a DequeueHashTable t does:
    EmptyTable,          \* a new table
    IsEmpty(_),          \* t has no node
    FrontOf(_),            \* the entry at the front of the list of t
    PopFront(_),         \* t without its front
    Holds(_, _),         \* t has a node of key k
    At(_, _),            \* the entry of the node that a search for k finds
    Without(_, _),       \* t without that node
    Insert(_, _),        \* t once entry e has been inserted
    Refuses(_, _),       \* t cannot grow, and so cannot insert k
    Meets(_, _),         \* an insertion of k meets a node of k and overrides it
    InsertHangs(_, _),   \* an insertion of k leaves a cyclic list
    Refs(_, _),          \* how many nodes of t refer to entry e
    Emptied(_)           \* t once all its nodes are destroyed

VARIABLES
    lirs, non_resident_hirs, resident_hirs,   \* the three tables
    hirs_limit, lirs_limit,                   \* float fields, whole values
    hirs_count, lirs_count, demoted, non_resident,
    entry,      \* the DLIRSEntry objects
    evicted,    \* the client's out parameter
    call,       \* operation in progress: its arguments, locals and result
    pc

tables   == <<lirs, non_resident_hirs, resident_hirs>>
limits   == <<hirs_limit, lirs_limit>>
counters == <<hirs_count, lirs_count, demoted, non_resident>>
data     == <<tables, limits, counters, entry, evicted>>
vars     == <<data, call, pc>>

Freed == [is_LIR |-> FALSE, is_demoted |-> FALSE, in_cache |-> FALSE, rc |-> 0]

Lost == {"hung", "fatal", "exit", "abort"}
Loops == {"prune", "eject_lir", "eject_hir", "request", "limit"}

NoCall == [op |-> "none", key |-> NULL, entry |-> NULL, in_cache |-> FALSE,
           size |-> 0, back |-> "ret", result |-> "none", contained |-> FALSE]

-----------------------------------------------------------------------------
(* size_t arithmetic                                                       *)

DecMutant(n) == n

\* size_t decrement, increment and addition
Dec(n) == IF n = 0 THEN SIZE_MAX ELSE n - 1
Inc(n) == IF n = SIZE_MAX THEN 0 ELSE n + 1

Plus(m, n) == IF m + n > SIZE_MAX THEN m + n - (SIZE_MAX + 1) ELSE m + n

\* the cast (int) n, for an int as wide as a size_t
AsInt(n) == IF n > SIZE_MAX \div 2 THEN n - (SIZE_MAX + 1) ELSE n

AtMostMutant(bound, n) == n
AtMost(bound, n) == IF n > bound THEN bound ELSE n

-----------------------------------------------------------------------------
(* DLIRSEntry objects                                                      *)

Live(e) == entry[e].rc > 0

ReleaseMutant(objs, e) == [objs EXCEPT ![e].rc = @ - 2]

\* dlirs_entry_destroy and entry_destroy_handler on a live object.  The flags
\* of an object that this frees are what its memory still holds.
Release(objs, e) ==
    [objs EXCEPT ![e].rc = @ - 1]

Created(is_LIR, rc) ==
    [is_LIR |-> is_LIR, is_demoted |-> FALSE, in_cache |-> TRUE, rc |-> rc]

\* dlirs_entry_reference_copy for the stack and for non_resident_hirs, of an
\* entry that is no longer demoted
Copied(o) == [o EXCEPT !.is_demoted = FALSE, !.rc = o.rc + 2]

\* a LIR entry that becomes a demoted HIR entry
Demoted(o) == [o EXCEPT !.is_LIR = FALSE, !.is_demoted = TRUE]

\* an entry that leaves resident_hirs, and the cache if the stack knows it
Evicted(o, stacked) == [o EXCEPT !.in_cache = o.in_cache /\ ~stacked, !.is_demoted = FALSE]

-----------------------------------------------------------------------------
(* Insertion                                                               *)

OverriddenMutant(objs, t, k) == objs

\* the reference that dqht_insert overwrites is released
Overridden(objs, t, k) == IF Meets(t, k) THEN Release(objs, At(t, k)) ELSE objs

InsertFault(objs, t, k) ==
    IF Refuses(t, k) THEN "fatal"
    ELSE IF Meets(t, k) /\ objs[At(t, k)].rc = 0 THEN "abort"
    ELSE IF InsertHangs(t, k) THEN "hung" ELSE "none"

\* dlirs_request answers an insertion that fails with -1 itself
RequestFault(objs, t, k) ==
    IF Refuses(t, k) THEN "exit" ELSE InsertFault(objs, t, k)

-----------------------------------------------------------------------------
(* dlirs_contains, dlirs_is_full                                           *)

CacheContains(k) ==
    \/ Holds(lirs, k) /\ entry[At(lirs, k)].in_cache
    \/ Holds(resident_hirs, k)

\* the entries that dlirs_contains reads
ContainsFault(k) ==
    IF \/ Holds(lirs, k) /\ ~Live(At(lirs, k))
       \/ /\ Holds(lirs, k) => ~entry[At(lirs, k)].in_cache
          /\ Holds(resident_hirs, k) /\ ~Live(At(resident_hirs, k))
    THEN "abort" ELSE "none"

IsFull == Plus(hirs_count, lirs_count) = CacheSize

NoRoomMutant == Plus(hirs_count, lirs_count) > CacheSize

\* the condition of both eviction loops
NoRoom == Plus(hirs_count, lirs_count) >= CacheSize

Resize(hit_nonresident_hir) ==
    IF hit_nonresident_hir
    THEN /\ hirs_limit' = AtMost(CacheSize - 1, hirs_limit + Gain(demoted, non_resident))
         /\ lirs_limit' = CacheSize - hirs_limit'
    ELSE /\ lirs_limit' = AtMost(CacheSize - 1, lirs_limit + Gain(non_resident, demoted))
         /\ hirs_limit' = CacheSize - lirs_limit'

-----------------------------------------------------------------------------
(* Control.  A fault is found before the step takes effect: what a lost    *)
(* process had already written no longer matters.                          *)

Unless(fault, step) ==
    IF fault = "none" THEN step ELSE pc' = fault /\ UNCHANGED <<data, call>>

FirstFault(f1, f2) == IF f1 = "none" THEN f2 ELSE f1

Begin(op, k) ==
    [NoCall EXCEPT !.op = op, !.key = k, !.contained = CacheContains(k)]

Init ==
    /\ lirs = EmptyTable /\ non_resident_hirs = EmptyTable /\ resident_hirs = EmptyTable
    /\ hirs_limit = InitialHirsLimit
    /\ lirs_limit = CacheSize - InitialHirsLimit
    /\ hirs_count = 0 /\ lirs_count = 0 /\ demoted = 0 /\ non_resident = 0
    /\ entry = [e \in Entries |-> Freed]
    /\ evicted = NULL
    /\ call = NoCall
    /\ pc = "idle"

-----------------------------------------------------------------------------
(* dlirs_get                                                               *)

WasFrontMutant(k) == FALSE

\* lru_lir, the front before the key was moved
WasFront(k) == KeyOf(FrontOf(lirs)) = k

\* dlirs_hit_lir: to the tail of the stack, and prune if it was the front.
HitLir(k) ==
    /\ lirs' = Insert(Without(lirs, k), At(lirs, k))
    /\ entry' = Overridden(entry, Without(lirs, k), k)
    /\ call' = [Begin("get", k) EXCEPT !.result = "hit"]
    /\ pc' = IF WasFront(k) THEN "prune" ELSE "ret"
    /\ UNCHANGED <<non_resident_hirs, resident_hirs, limits, counters, evicted>>

\* lru_lir->key is read once the key has been inserted again
HitLirFault(k) ==
    FirstFault(InsertFault(entry, Without(lirs, k), k),
               IF Overridden(entry, Without(lirs, k), k)[FrontOf(lirs)].rc > 0
               THEN "none" ELSE "abort")

\* dlirs_hir_in_lirs up to its loops.  The reference of non_resident_hirs is
\* released first; then a resident entry also leaves resident_hirs, and one
\* that had been evicted becomes resident again and moves the limits.
Unstacked(k) ==
    Release([entry EXCEPT ![At(lirs, k)].is_LIR = TRUE], At(non_resident_hirs, k))

HirInLirs(k) ==
    LET e == At(lirs, k) IN
    /\ lirs' = Without(lirs, k)
    /\ non_resident_hirs' = Without(non_resident_hirs, k)
    /\ IF entry[e].in_cache
       THEN /\ entry' = Release(Unstacked(k), At(resident_hirs, k))
            /\ resident_hirs' = Without(resident_hirs, k)
            /\ hirs_count' = Dec(hirs_count)
            /\ UNCHANGED <<limits, non_resident>>
       ELSE /\ Resize(TRUE)
            /\ entry' = [Unstacked(k) EXCEPT ![e].in_cache = TRUE]
            /\ non_resident' = Dec(non_resident)
            /\ UNCHANGED <<resident_hirs, hirs_count>>
    /\ call' = [Begin("get", k) EXCEPT !.entry = e, !.in_cache = entry[e].in_cache]
    /\ pc' = "eject_lir"
    /\ UNCHANGED <<lirs_count, demoted, evicted>>

\* A key missing from the other tables leaves hirsEntry or residentEntry
\* uninitialised: dqht_remove answers 1, which only -1 is tested for.
HirInLirsFault(k) ==
    IF /\ Holds(non_resident_hirs, k)
       /\ Live(At(non_resident_hirs, k))
       /\ IF entry[At(lirs, k)].in_cache
          THEN Holds(resident_hirs, k) /\ Unstacked(k)[At(resident_hirs, k)].rc > 0
          ELSE Unstacked(k)[At(lirs, k)].rc > 0
    THEN "none" ELSE "abort"

PruneSizeMutant(hirs) == 0

\* dlirs_limit_stack: how many entries it is going to drop
PruneSize(hirs) ==
    LET size == AsInt(hirs) + AsInt(lirs_count) + AsInt(non_resident) - 2 * CacheSize
    IN  IF size > 0 THEN size ELSE 0

\* dlirs_hit_hir_in_resident_hirs.  Two references are taken; the insertion
\* into resident_hirs overrides the entry by itself and releases one of them.
HitHirInResidentHirs(k) ==
    LET e == At(resident_hirs, k)
        copied == [entry EXCEPT ![e] = Copied(entry[e])]
    IN  /\ IF entry[e].is_demoted
           THEN Resize(FALSE) /\ demoted' = Dec(demoted)
           ELSE UNCHANGED <<limits, demoted>>
        /\ entry' = Overridden(Overridden(copied, resident_hirs, k), non_resident_hirs, k)
        /\ resident_hirs' = Insert(resident_hirs, e)
        /\ lirs' = Insert(lirs, e)
        /\ non_resident_hirs' = Insert(non_resident_hirs, e)
        /\ call' = [Begin("get", k) EXCEPT !.result = "hit", !.size = PruneSize(hirs_count)]
        /\ pc' = "limit"
        /\ UNCHANGED <<hirs_count, lirs_count, non_resident, evicted>>

HitHirFault(k) ==
    FirstFault(IF Live(At(resident_hirs, k)) THEN "none" ELSE "abort",
      FirstFault(InsertFault(entry, resident_hirs, k),
        FirstFault(InsertFault(entry, lirs, k),
                   InsertFault(entry, non_resident_hirs, k))))

GetMiss(k) ==
    /\ call' = [Begin("get", k) EXCEPT !.result = "null"]
    /\ pc' = "ret"
    /\ UNCHANGED data

GetLirs(k) ==
    IF ~Live(At(lirs, k)) THEN Unless("abort", FALSE)
    ELSE IF entry[At(lirs, k)].is_LIR
    THEN Unless(HitLirFault(k), HitLir(k))
    ELSE Unless(HirInLirsFault(k), HirInLirs(k))

StartGet(k) ==
    IF Holds(lirs, k) THEN GetLirs(k)
    ELSE IF Holds(resident_hirs, k)
    THEN Unless(HitHirFault(k), HitHirInResidentHirs(k))
    ELSE GetMiss(k)

-----------------------------------------------------------------------------
(* The loops                                                               *)

\* non_resident_hirs once dlirs_prune has removed k from it
Forgotten(k) ==
    IF Holds(non_resident_hirs, k) THEN Without(non_resident_hirs, k) ELSE non_resident_hirs

LeftStackMutant(e) == non_resident

\* non_resident once e has left the stack
LeftStack(e) == IF entry[e].in_cache THEN non_resident ELSE Dec(non_resident)

\* one iteration of dlirs_prune: drop the front of the stack unless it is
\* LIR.  What leaves the stack is what a search for its key finds.
PruneFront ==
    LET k == KeyOf(FrontOf(lirs))
        once == Release(entry, At(lirs, k))
    IN  /\ lirs' = Without(lirs, k)
        /\ non_resident_hirs' = Forgotten(k)
        /\ entry' = IF Holds(non_resident_hirs, k)
                    THEN Release(once, At(non_resident_hirs, k)) ELSE once
        /\ non_resident' = LeftStack(FrontOf(lirs))
        /\ UNCHANGED <<resident_hirs, limits, hirs_count, lirs_count, demoted, evicted, call, pc>>

\* entry->key is read again after the first release
PruneFault ==
    LET k == KeyOf(FrontOf(lirs))
        once == Release(entry, At(lirs, k))
    IN  IF /\ Live(At(lirs, k)) /\ once[FrontOf(lirs)].rc > 0
           /\ Holds(non_resident_hirs, k) => once[At(non_resident_hirs, k)].rc > 0
        THEN "none" ELSE "abort"

Prune ==
    /\ pc = "prune"
    /\ IF IsEmpty(lirs) THEN pc' = call.back /\ UNCHANGED <<data, call>>
       ELSE IF ~Live(FrontOf(lirs)) THEN Unless("abort", FALSE)
       ELSE IF entry[FrontOf(lirs)].is_LIR THEN pc' = call.back /\ UNCHANGED <<data, call>>
       ELSE Unless(PruneFault, PruneFront)

\* dlirs_evict_lir: the front of the stack becomes a demoted resident HIR
\* entry; the caller's loop resumes at back once the stack is pruned.
DemoteFront(back) ==
    LET e == FrontOf(lirs) IN
    /\ lirs' = PopFront(lirs)
    /\ lirs_count' = Dec(lirs_count)
    /\ entry' = Overridden([entry EXCEPT ![e] = Demoted(entry[e])], resident_hirs, KeyOf(e))
    /\ demoted' = Inc(demoted)
    /\ resident_hirs' = Insert(resident_hirs, e)
    /\ hirs_count' = Inc(hirs_count)
    /\ call' = [call EXCEPT !.back = back]
    /\ pc' = "prune"
    /\ UNCHANGED <<non_resident_hirs, limits, non_resident, evicted>>

\* On an empty stack it does nothing, and neither does the caller's loop.
EvictLir(back) ==
    IF IsEmpty(lirs) THEN UNCHANGED vars
    ELSE IF ~Live(FrontOf(lirs)) THEN Unless("abort", FALSE)
    ELSE Unless(InsertFault(entry, resident_hirs, KeyOf(FrontOf(lirs))), DemoteFront(back))

LeftResidentHirsMutant(e) == demoted

\* demoted once e has left resident_hirs
LeftResidentHirs(e) == IF entry[e].is_demoted THEN Dec(demoted) ELSE demoted

\* dlirs_evict_resident_hir: an entry still on the stack is remembered there
TakeFront ==
    LET e == FrontOf(resident_hirs)
        stacked == Holds(lirs, KeyOf(e))
    IN  /\ resident_hirs' = PopFront(resident_hirs)
        /\ entry' = [entry EXCEPT ![e] = Evicted(entry[e], stacked)]
        /\ non_resident' = IF stacked THEN Inc(non_resident) ELSE non_resident
        /\ demoted' = LeftResidentHirs(e)
        /\ hirs_count' = Dec(hirs_count)
        /\ evicted' = e
        /\ UNCHANGED <<lirs, non_resident_hirs, limits, lirs_count, call, pc>>

EvictResidentHir ==
    IF IsEmpty(resident_hirs)
    THEN evicted' = NULL /\ UNCHANGED <<tables, limits, counters, entry, call, pc>>
    ELSE Unless(IF Live(FrontOf(resident_hirs)) THEN "none" ELSE "abort", TakeFront)

\* dlirs_hir_in_lirs, first loop
EjectLir ==
    /\ pc = "eject_lir"
    /\ IF lirs_count >= lirs_limit THEN EvictLir("eject_lir")
       ELSE pc' = "eject_hir" /\ UNCHANGED <<data, call>>

AnswerMutant(in_cache) == IF in_cache THEN "null" ELSE "hit"

\* return !in_cache, and dlirs_get's answer to it: 1 becomes NULL
Answer(in_cache) == IF in_cache THEN "hit" ELSE "null"

\* dlirs_hir_in_lirs, second loop and the insertion that follows it
Reinsert ==
    /\ entry' = Overridden(entry, lirs, call.key)
    /\ lirs' = Insert(lirs, call.entry)
    /\ lirs_count' = Inc(lirs_count)
    /\ call' = [call EXCEPT !.result = Answer(call.in_cache)]
    /\ pc' = "ret"
    /\ UNCHANGED <<non_resident_hirs, resident_hirs, limits, hirs_count, demoted,
                   non_resident, evicted>>

EjectHir ==
    /\ pc = "eject_hir"
    /\ IF NoRoom THEN EvictResidentHir
       ELSE Unless(InsertFault(entry, lirs, call.key), Reinsert)

\* one iteration of dlirs_limit_stack
DropOldest ==
    LET e == FrontOf(non_resident_hirs)
        s == At(lirs, KeyOf(e))
    IN  /\ non_resident_hirs' = PopFront(non_resident_hirs)
        /\ lirs' = Without(lirs, KeyOf(e))
        /\ non_resident' = LeftStack(e)
        /\ entry' = Release(Release(entry, s), e)
        /\ call' = [call EXCEPT !.size = @ - 1]
        /\ UNCHANGED <<resident_hirs, limits, hirs_count, lirs_count, demoted, evicted, pc>>

DropFault ==
    LET e == FrontOf(non_resident_hirs)
        s == At(lirs, KeyOf(e))
    IN  IF IsEmpty(non_resident_hirs) THEN "fatal"
        ELSE IF ~Live(e) THEN "abort"
        ELSE IF ~Holds(lirs, KeyOf(e)) THEN "fatal"
        ELSE IF Live(s) /\ Release(entry, s)[e].rc > 0 THEN "none" ELSE "abort"

LimitStack ==
    /\ pc = "limit"
    /\ IF call.size > 0 THEN Unless(DropFault, DropOldest)
       ELSE pc' = "ret" /\ UNCHANGED <<data, call>>

-----------------------------------------------------------------------------
(* dlirs_request.  It never looks the key up.                              *)

References(e) == Refs(lirs, e) + Refs(non_resident_hirs, e) + Refs(resident_hirs, e)

\* memory for a new entry of key k: an object nothing points to any more
FreeNames(k) ==
    {e \in Entries :
        KeyOf(e) = k /\ ~Live(e) /\ e # evicted /\ References(e) = 0}

NewEntry(k) == CHOOSE e \in FreeNames(k) : TRUE

\* room for a LIR entry
RequestLir(k) ==
    LET e == NewEntry(k) IN
    /\ entry' = [Overridden(entry, lirs, k) EXCEPT ![e] = Created(TRUE, 1)]
    /\ lirs' = Insert(lirs, e)
    /\ lirs_count' = Inc(lirs_count)
    /\ evicted' = NULL
    /\ call' = [Begin("request", k) EXCEPT !.result = "0"]
    /\ pc' = "ret"
    /\ UNCHANGED <<non_resident_hirs, resident_hirs, limits, hirs_count, demoted,
                   non_resident>>

StartRequest(k) ==
    /\ FreeNames(k) # {}
    /\ IF lirs_count < lirs_limit /\ hirs_count = 0
       THEN Unless(RequestFault(entry, lirs, k), RequestLir(k))
       ELSE /\ call' = [Begin("request", k) EXCEPT !.result = "0"]
            /\ pc' = "request"
            /\ UNCHANGED data

\* the new HIR entry goes to all three tables
AfterLirs(k) == Overridden(entry, lirs, k)
AfterStack(k) == Overridden(AfterLirs(k), non_resident_hirs, k)

RequestHir(k) ==
    LET e == NewEntry(k) IN
    /\ entry' = [Overridden(AfterStack(k), resident_hirs, k) EXCEPT ![e] = Created(FALSE, 3)]
    /\ lirs' = Insert(lirs, e)
    /\ non_resident_hirs' = Insert(non_resident_hirs, e)
    /\ resident_hirs' = Insert(resident_hirs, e)
    /\ hirs_count' = Inc(hirs_count)
    /\ call' = [call EXCEPT !.size = PruneSize(Inc(hirs_count))]
    /\ pc' = "limit"
    /\ UNCHANGED <<limits, lirs_count, demoted, non_resident, evicted>>

RequestHirFault(k) ==
    FirstFault(RequestFault(entry, lirs, k),
      FirstFault(RequestFault(AfterLirs(k), non_resident_hirs, k),
                 RequestFault(AfterStack(k), resident_hirs, k)))

\* The nested eviction loops: dlirs_evict_lir moves one from lirs_count to
\* hirs_count, so the outer condition still holds after the inner loop.
RequestLoop ==
    /\ pc = "request"
    /\ IF NoRoom
       THEN IF lirs_count > lirs_limit THEN EvictLir("request") ELSE EvictResidentHir
       ELSE Unless(RequestHirFault(call.key),
                   FreeNames(call.key) # {} /\ RequestHir(call.key))

-----------------------------------------------------------------------------
(* The client, and dlirs_destroy                                           *)

Get(k) == pc = "idle" /\ StartGet(k)

Request(k) ==
    /\ pc = "ask" /\ k = call.key
    /\ IF Recheck
       THEN Unless(ContainsFault(k), ~CacheContains(k) /\ StartRequest(k))
       ELSE StartRequest(k)

\* DESTROY_EVICTED_ENTRY; after a get that gave NULL the key may be requested
Collect ==
    /\ entry' = IF evicted = NULL THEN entry ELSE Release(entry, evicted)
    /\ evicted' = NULL
    /\ IF call.result = "null"
       THEN pc' = "ask" /\ UNCHANGED call
       ELSE pc' = "idle" /\ call' = NoCall
    /\ UNCHANGED <<tables, limits, counters>>

Finish ==
    /\ pc = "ret"
    /\ Unless(IF evicted # NULL /\ ~Live(evicted) THEN "abort" ELSE "none", Collect)

\* no request: the loop of main.c that only looks keys up, or a client that
\* asks again and finds the key
SkipRequest ==
    /\ pc = "ask"
    /\ pc' = "idle" /\ call' = NoCall
    /\ UNCHANGED data

\* every reference of every table is released, the objects are not looked at
\* again if their counters agree with the tables
ReleaseAll ==
    /\ entry' = [e \in Entries |-> [entry[e] EXCEPT !.rc = @ - References(e)]]
    /\ lirs' = Emptied(lirs) /\ resident_hirs' = Emptied(resident_hirs)
    /\ non_resident_hirs' = Emptied(non_resident_hirs)
    /\ pc' = "destroyed"
    /\ UNCHANGED <<limits, counters, evicted, call>>

Destroy ==
    /\ pc = "idle"
    /\ Unless(IF \E e \in Entries : References(e) > entry[e].rc THEN "abort" ELSE "none",
              ReleaseAll)

\* the process is gone, or does nothing but print
Stopped ==
    /\ pc \in Lost \cup {"destroyed"}
    /\ UNCHANGED vars

Step == Prune \/ EjectLir \/ EjectHir \/ LimitStack \/ RequestLoop \/ Finish

Next ==
    \/ \E k \in Keys : Get(k)
    \/ \E k \in Keys : Request(k)
    \/ Step
    \/ SkipRequest
    \/ Destroy
    \/ Stopped

Spec == Init /\ [][Next]_vars

\* A call that has begun is run to its end: the thread executes its next
\* statement as long as there is one.
FairSpec == Spec /\ WF_vars(Step)
=============================================================================
