---------------------------- MODULE CacheThreads ----------------------------
(***************************************************************************)
(* The cache of cache/cache.c shared by the threads of main.c: the         *)
(* readers-writer lock, what each thread does inside it and what it does   *)
(* after the unlock, and main, which starts the threads, joins them and    *)
(* destroys the cache.                                                     *)
(*                                                                         *)
(* The backing is taken for what it does to DLIRSEntry objects: a call     *)
(* adds references to its tables, moves some from one table to another,    *)
(* drops some, and hands over at most one entry in the out parameter       *)
(* (EvictionHandedOver of DLIRS), or it never returns.  The override at    *)
(* dlirs.c line 270, which decrements a counter and leaves the reference   *)
(* in its table, needs no second thread: it is DLIRS's NoUseAfterFree and  *)
(* left out here.  An entry's reference counter is a plain integer:        *)
(* changing it is a load and a store, and rc_last reads it again.          *)
(* The client's dlirs_entry_destroy of an evicted entry runs outside the   *)
(* lock while other threads, inside it, change the same counter.           *)
(***************************************************************************)
EXTENDS Naturals, FiniteSets

CONSTANTS
    Threads,       \* THREAD_COUNT of them
    Entry,         \* memory for DLIRSEntry objects
    Tables,        \* the tables of the backing
    resident,      \* the one of them that entries are evicted from
    Rounds,        \* bound: iterations of the loops of queryProcessor
    MaxMoves,      \* bound: reference changes of one call of the backing
    SIZE_MAX,      \* largest size_t: what decrementing 0 gives
    NULL

ASSUME ResidentAssumption == resident \in Tables
ASSUME TablesFinite == IsFiniteSet(Tables)
ASSUME TablesAssumption == Tables \cap {"none", "drop"} = {}
ASSUME ThreadsAssumption == Threads \cap {NULL, "main"} = {}
ASSUME EntryAssumption == NULL \notin Entry
ASSUME BoundAssumption == Rounds \in Nat \ {0} /\ MaxMoves \in Nat
ASSUME SizeMaxAssumption == SIZE_MAX \in Nat
ASSUME ThreadsFinite == IsFiniteSet(Threads)
\* a size_t can count one reference per table and per thread
ASSUME CounterAssumption == Cardinality(Tables) + Cardinality(Threads) <= SIZE_MAX

VARIABLES
    rwlock,   \* writer: a thread, "main" or NULL; readers: threads
    held,     \* the tables that refer to an entry
    count,    \* reference_counter
    alive,    \* the objects that are allocated
    th,       \* the threads
    prog,     \* main: "spawn", "join", "close", "ended"; "exit": the process is gone
    raced     \* history: entries with overlapping updates, one of them unlocked

objects == <<held, count, alive, raced>>
vars == <<rwlock, objects, th, prog>>

\* pc      "new", "get", "request", "full": about to lock for that call;
\*         "in": inside the backing, in call op; "out": after the unlock;
\*         "look", "look again": inside a read of the backing; "done"
\* op      the call; "failed" when a request answered -1, "hung" when a loop of
\*         the backing does not end
\* update  none, or the change of a counter in progress: the entry, its kind,
\*         the next step of it and the value loaded
NoUpdate == [entry |-> NULL, kind |-> "none", step |-> "none", reg |-> 0]
NewThread == [pc |-> "new", op |-> "none", round |-> 0, moves |-> 0, missed |-> FALSE,
              evicted |-> NULL, update |-> NoUpdate, seen |-> NULL]

Unlocked == [writer |-> NULL, readers |-> {}]

Init ==
    /\ rwlock = Unlocked
    /\ held = [e \in Entry |-> {}]
    /\ count = [e \in Entry |-> 0]
    /\ alive = {}
    /\ th = [t \in Threads |-> NewThread]
    /\ prog = "spawn"
    /\ raced = {}

Running == prog \notin {"ended", "exit"}

-----------------------------------------------------------------------------
(* lock.h                                                                  *)

\* htfh_rwlock_rdlock_handled: waits while a thread writes
Rdlock(t) ==
    /\ rwlock.writer = NULL
    /\ rwlock' = [rwlock EXCEPT !.readers = @ \cup {t}]

WrlockMutant(t) ==
    /\ rwlock.writer = NULL
    /\ rwlock' = [rwlock EXCEPT !.writer = t]

\* htfh_rwlock_wrlock_handled: waits for everyone
Wrlock(t) ==
    /\ rwlock = Unlocked
    /\ rwlock' = [rwlock EXCEPT !.writer = t]

\* htfh_rwlock_unlock_handled
Unlock(t) ==
    rwlock' = [writer |-> IF rwlock.writer = t THEN NULL ELSE rwlock.writer,
               readers |-> rwlock.readers \ {t}]

-----------------------------------------------------------------------------
(* The reference counter: rc_increment, rc_decrement, rc_last              *)

Locked(t) == th[t].pc = "in"

\* another thread is in the middle of an update of e, and not both are locked
Overlaps(t, e) ==
    \E u \in Threads \ {t} : th[u].update.entry = e /\ ~(Locked(t) /\ Locked(u))

\* memory that was freed is used: the asan build stops the process
Use(e, step) ==
    IF e \in alive THEN step ELSE prog' = "exit" /\ UNCHANGED <<rwlock, objects, th>>

\* The counter is read; kind is the table a copied reference is for, or "drop".
\* tables: what still refers to e when the update begins.
Load(t, e, kind, tables, moves) ==
    Use(e, /\ th' = [th EXCEPT ![t].moves = moves,
                               ![t].update = [entry |-> e, kind |-> kind, step |-> "store",
                                              reg |-> count[e]]]
           /\ held' = [held EXCEPT ![e] = tables]
           /\ raced' = IF Overlaps(t, e) THEN raced \cup {e} ELSE raced
           /\ UNCHANGED <<rwlock, count, alive, prog>>)

\* dlirs_entry_reference_copy writes the counter, and the reference is stored
StoreCopy(t) ==
    LET u == th[t].update IN
    /\ Running /\ u.step = "store" /\ u.kind \in Tables
    /\ Use(u.entry,
           /\ count' = [count EXCEPT ![u.entry] = (u.reg + 1) % (SIZE_MAX + 1)]
           /\ held' = [held EXCEPT ![u.entry] = @ \cup {u.kind}]
           /\ th' = [th EXCEPT ![t].update = NoUpdate]
           /\ UNCHANGED <<rwlock, alive, raced, prog>>)

\* dlirs_entry_destroy writes the counter; the client's pointer is spent
StoreDrop(t) ==
    LET u == th[t].update IN
    /\ Running /\ u.step = "store" /\ u.kind = "drop"
    /\ Use(u.entry,
           /\ count' = [count EXCEPT ![u.entry] = IF u.reg = 0 THEN SIZE_MAX ELSE u.reg - 1]
           /\ th' = [th EXCEPT ![t].update.step = "test", ![t].update.reg = 0,
                               ![t].evicted = IF Locked(t) THEN @ ELSE NULL]
           /\ UNCHANGED <<rwlock, held, alive, raced, prog>>)

\* rc_last
Last(e) == count[e] = 0

\* the rest of dlirs_entry_destroy
TestLast(t) ==
    LET u == th[t].update IN
    /\ Running /\ u.step = "test"
    /\ Use(u.entry,
           /\ alive' = IF Last(u.entry) THEN alive \ {u.entry} ELSE alive
           /\ th' = [th EXCEPT ![t].update = NoUpdate]
           /\ UNCHANGED <<rwlock, held, count, raced, prog>>)

-----------------------------------------------------------------------------
(* Inside the backing, under the write lock                                *)

Ready(t) == Running /\ th[t].update = NoUpdate /\ th[t].op # "hung"
Inside(t) == Ready(t) /\ Locked(t) /\ th[t].moves < MaxMoves

\* no thread has a pointer to e left
Forgotten(e) == \A t \in Threads : th[t].evicted # e /\ th[t].update.entry # e

\* dlirs_request: a new object, for one table
CreateEntry(t) ==
    /\ Inside(t) /\ th[t].op = "request"
    /\ \E e \in Entry \ alive, k \in Tables :
         /\ Forgotten(e) /\ held[e] = {}
         /\ alive' = alive \cup {e}
         /\ count' = [count EXCEPT ![e] = 1]
         /\ held' = [held EXCEPT ![e] = {k}]
         /\ raced' = raced \ {e}
    /\ th' = [th EXCEPT ![t].moves = @ + 1]
    /\ UNCHANGED <<rwlock, prog>>

\* dlirs_entry_reference_copy of an entry found in a table, for another one
CopyReference(t) ==
    /\ Inside(t)
    /\ \E e \in Entry, k \in Tables :
         held[e] # {} /\ k \notin held[e] /\ Load(t, e, k, held[e], th[t].moves + 1)

\* an entry is removed from a table and its reference released
DropReference(t) ==
    /\ Inside(t)
    /\ \E e \in Entry : \E k \in held[e] :
         Load(t, e, "drop", held[e] \ {k}, th[t].moves + 1)

\* dlirs_evict_lir and dlirs_hit_lir: a reference leaves one table for another
MoveReference(t) ==
    /\ Inside(t)
    /\ \E e \in Entry, k \in Tables : \E j \in held[e] :
         /\ k \notin held[e]
         /\ Use(e, /\ held' = [held EXCEPT ![e] = (@ \ {j}) \cup {k}]
                   /\ th' = [th EXCEPT ![t].moves = @ + 1]
                   /\ UNCHANGED <<rwlock, count, alive, raced, prog>>)

\* dlirs_evict_resident_hir: the table's reference becomes the client's
EvictResident(t) ==
    /\ Inside(t) /\ th[t].evicted = NULL
    /\ \E e \in Entry :
         /\ resident \in held[e]
         /\ held' = [held EXCEPT ![e] = @ \ {resident}]
         /\ th' = [th EXCEPT ![t].evicted = e, ![t].moves = @ + 1]
    /\ UNCHANGED <<rwlock, count, alive, raced, prog>>

\* the loops at dlirs.c:151, 157, 321 and 322 go round for ever on tables that
\* have nothing left to evict, and so does a walk of dqht_print_table
Hang(t) ==
    /\ Ready(t) /\ Locked(t)
    /\ th' = [th EXCEPT ![t].op = "hung"]
    /\ UNCHANGED <<rwlock, objects, prog>>

-----------------------------------------------------------------------------
(* cache.c                                                                 *)

Enter(t, op) == th' = [th EXCEPT ![t].pc = "in", ![t].op = op, ![t].moves = 0]

cache_getMutant(t) ==
    /\ Ready(t) /\ th[t].pc = "get"
    /\ Rdlock(t) /\ Enter(t, "get")
    /\ UNCHANGED <<objects, prog>>

cache_get(t) ==
    /\ Ready(t) /\ th[t].pc = "get"
    /\ Wrlock(t) /\ Enter(t, "get")
    /\ UNCHANGED <<objects, prog>>

cache_request(t) ==
    /\ Ready(t) /\ th[t].pc = "request"
    /\ Wrlock(t) /\ Enter(t, "request")
    /\ UNCHANGED <<objects, prog>>

\* the handler returns: a get found its key or not, a request succeeded
Leave(t) ==
    /\ Ready(t) /\ th[t].pc = "in"
    /\ Unlock(t)
    /\ \E miss \in IF th[t].op = "get" THEN BOOLEAN ELSE {FALSE} :
         th' = [th EXCEPT ![t].pc = "out", ![t].missed = miss, ![t].moves = 0]
    /\ UNCHANGED <<objects, prog>>

\* a request that answers -1
RequestFails(t) ==
    /\ Ready(t) /\ th[t].pc = "in" /\ th[t].op = "request"
    /\ Unlock(t)
    /\ th' = [th EXCEPT ![t].pc = "out", ![t].op = "failed", ![t].moves = 0]
    /\ UNCHANGED <<objects, prog>>

\* cache_is_full reads two counters, cache_contains two tables
cache_is_full(t) ==
    /\ Ready(t) /\ th[t].pc = "full"
    /\ Rdlock(t)
    /\ th' = [th EXCEPT ![t].pc = "look"]
    /\ UNCHANGED <<objects, prog>>

Look(t) ==
    /\ Ready(t) /\ th[t].pc = "look"
    /\ th' = [th EXCEPT ![t].pc = "look again", ![t].seen = held]
    /\ UNCHANGED <<rwlock, objects, prog>>

-----------------------------------------------------------------------------
(* main.c: queryProcessor                                                  *)

\* the next iteration of a loop, or pthread_exit
NextRound(t) ==
    LET ends == th[t].round + 1 = Rounds
    IN  [th EXCEPT ![t] = [NewThread EXCEPT !.pc = IF ends THEN "done" ELSE "get",
                                            !.round = IF ends THEN 0 ELSE th[t].round + 1]]

LookAgainMutant(t) ==
    /\ Ready(t) /\ th[t].pc = "look again"
    /\ th' = NextRound(t)
    /\ UNCHANGED <<rwlock, objects, prog>>

\* the second read, and the unlock that follows it
LookAgain(t) ==
    /\ Ready(t) /\ th[t].pc = "look again"
    /\ Unlock(t)
    /\ th' = NextRound(t)
    /\ UNCHANGED <<objects, prog>>

\* DESTROY_EVICTED_ENTRY
DestroyEvicted(t) ==
    /\ Ready(t) /\ th[t].pc = "out" /\ th[t].evicted # NULL
    /\ Load(t, th[t].evicted, "drop", held[th[t].evicted], 0)

\* A get that missed is followed by a request, but not in the second loop.
Continue(t) ==
    /\ Ready(t) /\ th[t].pc = "out" /\ th[t].evicted = NULL
    /\ \/ th[t].missed /\ th' = [th EXCEPT ![t].pc = "request", ![t].missed = FALSE]
       \/ th[t].op = "request" /\ th' = [th EXCEPT ![t].pc = "full"]
       \/ th[t].op = "get" /\ th' = NextRound(t)
    /\ UNCHANGED <<rwlock, objects, prog>>

\* what it evicted is destroyed first, then the thread ends the process
Exit(t) ==
    /\ Ready(t) /\ th[t].pc = "out" /\ th[t].evicted = NULL /\ th[t].op = "failed"
    /\ prog' = "exit"
    /\ UNCHANGED <<rwlock, objects, th>>

-----------------------------------------------------------------------------
(* main.c: main                                                            *)

Spawn ==
    /\ prog = "spawn"
    /\ \E t \in Threads :
         /\ th[t].pc = "new"
         /\ th' = [th EXCEPT ![t].pc = "get"]
         /\ prog' = IF \A u \in Threads \ {t} : th[u].pc # "new" THEN "join" ELSE "spawn"
    /\ UNCHANGED <<rwlock, objects>>

\* pthread_create failed: FATAL
SpawnFails ==
    /\ prog = "spawn"
    /\ prog' = "exit"
    /\ UNCHANGED <<rwlock, objects, th>>

Join ==
    /\ prog = "join" /\ \A t \in Threads : th[t].pc = "done"
    /\ prog' = "close"
    /\ UNCHANGED <<rwlock, objects, th>>

Referenced == {e \in Entry : held[e] # {}}

\* the table's references are more than the counter knows of, or freed
Broken == {e \in Referenced : e \notin alive \/ Cardinality(held[e]) > count[e]}

\* dlirs_destroy releases every reference of every table
ReleaseAll ==
    /\ count' = [e \in Entry |-> count[e] - Cardinality(held[e])]
    /\ alive' = alive \ {e \in Referenced : count[e] = Cardinality(held[e])}
    /\ held' = [e \in Entry |-> {}]

\* The destroy handler returns nothing and its caller reads a result all the
\* same.  If that is not 0 the lock stays held, and main gives up with FATAL.
cache_destroy ==
    /\ prog = "close" /\ rwlock = Unlocked
    /\ IF Broken # {} THEN prog' = "exit" /\ UNCHANGED <<rwlock, held, count, alive>>
       ELSE /\ ReleaseAll
            /\ \/ prog' = "ended" /\ UNCHANGED rwlock
               \/ prog' = "exit" /\ rwlock' = [rwlock EXCEPT !.writer = "main"]
    /\ UNCHANGED <<th, raced>>

ThreadStep(t) ==
    \/ cache_get(t) \/ cache_request(t) \/ cache_is_full(t)
    \/ CreateEntry(t) \/ CopyReference(t) \/ DropReference(t)
    \/ MoveReference(t) \/ EvictResident(t) \/ Hang(t)
    \/ StoreCopy(t) \/ StoreDrop(t) \/ TestLast(t)
    \/ Leave(t) \/ RequestFails(t)
    \/ Look(t) \/ LookAgain(t)
    \/ DestroyEvicted(t) \/ Continue(t) \/ Exit(t)

MainStep == Spawn \/ SpawnFails \/ Join \/ cache_destroy

Next == (\E t \in Threads : ThreadStep(t)) \/ MainStep

\* Every thread, main too, goes on as long as it has a statement to execute
\* and the lock it waits for is free.
Spec ==
    /\ Init /\ [][Next]_vars
    /\ \A t \in Threads : WF_vars(ThreadStep(t))
    /\ WF_vars(MainStep)

-----------------------------------------------------------------------------
(* Properties                                                              *)

\* the references that exist: in tables, in a client's out parameter, and the
\* ones taken out of a table and not yet released
References(e) ==
    Cardinality(held[e])
    + Cardinality({t \in Threads : th[t].evicted = e})
    + Cardinality({t \in Threads : /\ Locked(t) /\ th[t].update.entry = e
                                   /\ th[t].update.kind = "drop"
                                   /\ th[t].update.step = "store"})

\* A reference counter is the number of references, and an object is freed
\* when none is left and never leaked, unless a client's dlirs_entry_destroy,
\* which runs outside the lock, overlapped another thread's update of it: of the
\* moves modelled here, no other interleaving makes a counter wrong.
CountsExact ==
    \A e \in Entry \ raced :
        /\ e \in alive => count[e] = References(e)
        /\ e \notin alive => References(e) = 0
        /\ e \in alive /\ count[e] = 0 =>
             \E t \in Threads : th[t].update.entry = e /\ th[t].update.step = "test"

\* A reader under the read lock sees one state of the backing in both of its
\* reads: no writer comes between them.
ReadersSeeOneState ==
    \A t \in Threads : th[t].pc = "look again" => th[t].seen = held

\* If no call stays in the backing for ever, the program comes to its end: the
\* lock is released on every way out of a call, a failing one too, and no thread
\* waits for a lock that nobody is going to release, whatever the misread result
\* of the destroy handler is.
AllEnd == (\A t \in Threads : []<>~Locked(t)) => <>~Running
=============================================================================
