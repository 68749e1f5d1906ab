-------------------------- MODULE CacheThreads_proof --------------------------
(***************************************************************************)
(* For any number of threads, entries, tables and rounds: the backing does *)
(* not change between the two reads of a thread that holds the read lock,  *)
(* and a counter no unlocked decrement has raced with is the number of the *)
(* references to its entry, however the other threads' steps fall between  *)
(* the load and the store of an update.                                    *)
(***************************************************************************)
EXTENDS CacheThreads, FiniteSetTheorems, TLAPS

Pc == {"new", "get", "request", "full", "in", "out", "look", "look again", "done"}

Update == [entry : Entry \cup {NULL}, kind : Tables \cup {"none", "drop"},
           step : {"none", "store", "test"}, reg : Nat]

Thread == [pc : Pc, op : {"none", "get", "request", "failed", "hung"}, round : Nat, moves : Nat,
           missed : BOOLEAN, evicted : Entry \cup {NULL}, update : Update,
           seen : [Entry -> SUBSET Tables] \cup {NULL}]

TypeInv ==
    /\ rwlock \in [writer : Threads \cup {NULL, "main"}, readers : SUBSET Threads]
    /\ held \in [Entry -> SUBSET Tables]
    /\ count \in [Entry -> Nat]
    /\ th \in [Threads -> Thread]

Reading(t) == th[t].pc \in {"look", "look again"}

\* A thread inside the backing is the writer, a thread that reads it is a
\* reader, and there are no readers beside a writer.
LockInv ==
    /\ rwlock.writer # NULL => rwlock.readers = {}
    /\ \A t \in Threads : Locked(t) => rwlock.writer = t
    /\ \A t \in Threads : Reading(t) => t \in rwlock.readers

\* References are copied into tables inside the backing only; the client's
\* dlirs_entry_destroy, after the unlock, changes no table.
CopyInv == \A t \in Threads : th[t].update.kind \in Tables => Locked(t)

IInv == TypeInv /\ LockInv /\ CopyInv /\ ReadersSeeOneState

-----------------------------------------------------------------------------
(* What the lock gives                                                     *)

\* While a thread is inside the backing nobody reads it.
LEMMA WriterExcludesReaders ==
    ASSUME LockInv, NEW t \in Threads, Locked(t)
    PROVE  \A u \in Threads : ~Reading(u)
  BY ThreadsAssumption DEF LockInv

\* While nobody has the lock nobody is inside the backing or reads it.
LEMMA UnlockedExcludesAll ==
    ASSUME LockInv, rwlock = Unlocked
    PROVE  \A u \in Threads : ~Reading(u) /\ ~Locked(u)
  BY ThreadsAssumption DEF LockInv, Unlocked

\* A step of t that changes neither the lock nor t's part in it
\* keeps the lock invariant.
LEMMA LockFrame ==
    ASSUME LockInv, UNCHANGED rwlock, NEW t \in Threads,
           \A u \in Threads \ {t} : th'[u] = th[u],
           Locked(t)' <=> Locked(t), Reading(t)' => Reading(t)
    PROVE  LockInv'
  BY DEF LockInv, Locked, Reading

\* A step of a thread inside the backing may change the tables.
LEMMA WriterKeepsReaders ==
    ASSUME LockInv, NEW t \in Threads, Locked(t), Locked(t)',
           \A u \in Threads \ {t} : th'[u] = th[u]
    PROVE  ReadersSeeOneState'
  BY WriterExcludesReaders DEF Locked, Reading, ReadersSeeOneState

\* Any other step that leaves the tables alone.
LEMMA ReadersFrame ==
    ASSUME ReadersSeeOneState, UNCHANGED held, NEW t \in Threads,
           \A u \in Threads \ {t} : th'[u] = th[u],
           th'[t].pc = "look again" => th'[t].seen = held
    PROVE  ReadersSeeOneState'
  BY DEF ReadersSeeOneState

-----------------------------------------------------------------------------
(* The type of a changed thread                                            *)

\* A thread that has not started has the type of a thread.
LEMMA InitThread == NewThread \in Thread
  BY DEF NewThread, Thread, Pc, NoUpdate, Update

\* No update in progress: of the type of updates, and no copy.
LEMMA NoUpdateType == NoUpdate \in Update /\ NoUpdate.kind = "none"
  BY DEF NoUpdate, Update

\* cache_create leaves the lock free and no thread started.
LEMMA InitIInv == Init => IInv
<1> SUFFICES ASSUME Init PROVE IInv
  OBVIOUS
<1>1. TypeInv
  BY InitThread DEF Init, TypeInv, Unlocked
<1>2. \A t \in Threads : th[t].pc = "new" /\ th[t].update.kind = "none"
  BY DEF Init, NewThread, NoUpdate
<1>3. LockInv /\ CopyInv /\ ReadersSeeOneState
  BY <1>2, TablesAssumption DEF LockInv, CopyInv, ReadersSeeOneState, Locked, Reading, Init, Unlocked
<1> QED
  BY <1>1, <1>3 DEF IInv

-----------------------------------------------------------------------------
(* One lemma per action                                                    *)

\* t is the only thread that changes, and its part in the lock stays.
Alone(t) ==
    /\ \A u \in Threads \ {t} : th'[u] = th[u]
    /\ th'[t].pc = th[t].pc
    /\ UNCHANGED rwlock

\* A load changes one thread, and the table only as it is told.
LEMMA LoadStep ==
    ASSUME TypeInv, NEW t \in Threads, NEW e \in Entry, NEW kind \in Tables \cup {"drop"},
           NEW tables \in SUBSET Tables, NEW moves \in Nat,
           Load(t, e, kind, tables, moves)
    PROVE  /\ TypeInv' /\ Alone(t)
           /\ th'[t].update.kind \in {kind, th[t].update.kind}
           /\ held' = held \/ held' = [held EXCEPT ![e] = tables]
           /\ th'[t].seen = th[t].seen
<1>1. CASE e \in alive
  <2> DEFINE new == [entry |-> e, kind |-> kind, step |-> "store", reg |-> count[e]]
  <2>1. /\ th' = [th EXCEPT ![t].moves = moves, ![t].update = new]
        /\ held' = [held EXCEPT ![e] = tables]
        /\ UNCHANGED <<rwlock, count>>
    BY <1>1 DEF Load, Use
  <2>2. new \in Update
    BY DEF TypeInv, Update
  <2> HIDE DEF new
  <2>0. [th[t] EXCEPT !.moves = moves, !.update = new] \in Thread
    BY <2>2 DEF TypeInv, Thread
  <2>3. TypeInv'
    BY <2>1, <2>0 DEF TypeInv
  <2>4. new.kind = kind
    BY DEF new
  <2> QED
    BY <2>1, <2>3, <2>4 DEF TypeInv, Thread, Alone
<1>2. CASE e \notin alive
  BY <1>2 DEF Load, Use, TypeInv, Alone, objects
<1> QED
  BY <1>1, <1>2

\* The actions inside the backing: t has the write lock before and after.
LEMMA InsideKeeps ==
    ASSUME IInv, NEW t \in Threads, Locked(t), TypeInv', Alone(t)
    PROVE  IInv'
<1>1. Locked(t)' /\ ~Reading(t)'
  BY DEF Locked, Reading, Alone
<1>2. LockInv'
  BY <1>1, LockFrame DEF IInv, Alone
<1>3. ReadersSeeOneState'
  BY <1>1, WriterKeepsReaders DEF IInv, Alone
<1>4. CopyInv'
  BY <1>1 DEF IInv, CopyInv, Alone, Locked
<1> QED
  BY <1>2, <1>3, <1>4 DEF IInv

\* Steps of a thread that leave the lock and the tables alone.
LEMMA OutsideKeeps ==
    ASSUME IInv, NEW t \in Threads, TypeInv', UNCHANGED <<rwlock, held>>,
           \A u \in Threads \ {t} : th'[u] = th[u],
           Locked(t)' <=> Locked(t), Reading(t)' => Reading(t),
           th'[t].pc = "look again" => th'[t].seen = held,
           th'[t].update.kind \in Tables => Locked(t)
    PROVE  IInv'
<1>1. LockInv'
  BY LockFrame DEF IInv
<1>2. ReadersSeeOneState'
  BY ReadersFrame DEF IInv
<1>3. CopyInv'
  BY DEF IInv, CopyInv, Locked
<1> QED
  BY <1>1, <1>2, <1>3 DEF IInv

\* A step that only ends the process, or is none of the threads'.
LEMMA FrameKeeps ==
    ASSUME IInv, UNCHANGED <<rwlock, held, count, th>>
    PROVE  IInv'
  BY DEF IInv, TypeInv, LockInv, CopyInv, ReadersSeeOneState, Locked, Reading

\* dlirs_request stores a new entry, under the write lock.
LEMMA CreateEntryKeeps ==
    ASSUME IInv, NEW t \in Threads, CreateEntry(t) PROVE IInv'
<1>1. Locked(t)
  BY DEF CreateEntry, Inside
<1>2. PICK e \in Entry, k \in Tables :
         /\ count' = [count EXCEPT ![e] = 1]
         /\ held' = [held EXCEPT ![e] = {k}]
  BY DEF CreateEntry
<1>3. th' = [th EXCEPT ![t].moves = @ + 1] /\ UNCHANGED rwlock
  BY DEF CreateEntry
<1>0. [th[t] EXCEPT !.moves = @ + 1] \in Thread
  BY DEF IInv, TypeInv, Thread
<1>4. TypeInv'
  BY <1>2, <1>3, <1>0 DEF IInv, TypeInv
<1>5. Alone(t)
  BY <1>3 DEF IInv, TypeInv, Thread, Alone
<1> QED
  BY <1>1, <1>4, <1>5, InsideKeeps

\* dlirs_entry_reference_copy begins, under the write lock.
LEMMA CopyReferenceKeeps ==
    ASSUME IInv, NEW t \in Threads, CopyReference(t) PROVE IInv'
<1>1. PICK e \in Entry, k \in Tables : Load(t, e, k, held[e], th[t].moves + 1)
  BY DEF CopyReference
<1>2. held[e] \in SUBSET Tables /\ th[t].moves + 1 \in Nat /\ Locked(t)
  BY DEF IInv, TypeInv, Thread, CopyReference, Inside
<1>3. TypeInv' /\ Alone(t)
  BY <1>1, <1>2, LoadStep DEF IInv
<1> QED
  BY <1>2, <1>3, InsideKeeps

\* A table gives an entry up, under the write lock.
LEMMA DropReferenceKeeps ==
    ASSUME IInv, NEW t \in Threads, DropReference(t) PROVE IInv'
<1>1. PICK e \in Entry : \E k \in held[e] : Load(t, e, "drop", held[e] \ {k}, th[t].moves + 1)
  BY DEF DropReference
<1>2. PICK k \in held[e] : Load(t, e, "drop", held[e] \ {k}, th[t].moves + 1)
  BY <1>1
<1>3. held[e] \ {k} \in SUBSET Tables /\ th[t].moves + 1 \in Nat /\ Locked(t)
  BY DEF IInv, TypeInv, Thread, DropReference, Inside
<1>4. TypeInv' /\ Alone(t)
  BY <1>2, <1>3, LoadStep DEF IInv
<1> QED
  BY <1>3, <1>4, InsideKeeps

\* A reference changes tables, under the write lock.
LEMMA MoveReferenceKeeps ==
    ASSUME IInv, NEW t \in Threads, MoveReference(t) PROVE IInv'
<1>1. Locked(t)
  BY DEF MoveReference, Inside
<1>2. PICK e \in Entry, k \in Tables : \E j \in held[e] :
         Use(e, /\ held' = [held EXCEPT ![e] = (@ \ {j}) \cup {k}]
                /\ th' = [th EXCEPT ![t].moves = @ + 1]
                /\ UNCHANGED <<rwlock, count, alive, raced, prog>>)
  BY DEF MoveReference
<1>3. CASE e \in alive
  <2>1. PICK j \in held[e] : /\ held' = [held EXCEPT ![e] = (@ \ {j}) \cup {k}]
                             /\ th' = [th EXCEPT ![t].moves = @ + 1]
                             /\ UNCHANGED <<rwlock, count>>
    BY <1>2, <1>3 DEF Use
  <2>2. TypeInv' /\ Alone(t)
    BY <2>1 DEF IInv, TypeInv, Thread, Alone
  <2> QED
    BY <1>1, <2>2, InsideKeeps
<1>4. CASE e \notin alive
  BY <1>2, <1>4, FrameKeeps DEF Use, objects
<1> QED
  BY <1>3, <1>4

\* A call that never returns keeps the lock.
LEMMA HangKeeps ==
    ASSUME IInv, NEW t \in Threads, Hang(t) PROVE IInv'
<1>1. Locked(t) /\ th' = [th EXCEPT ![t].op = "hung"] /\ UNCHANGED <<rwlock, held, count>>
  BY DEF Hang, objects
<1>2. TypeInv' /\ Alone(t)
  BY <1>1 DEF IInv, TypeInv, Thread, Alone
<1> QED
  BY <1>1, <1>2, InsideKeeps

\* dlirs_evict_resident_hir, under the write lock.
LEMMA EvictResidentKeeps ==
    ASSUME IInv, NEW t \in Threads, EvictResident(t) PROVE IInv'
<1>1. Locked(t)
  BY DEF EvictResident, Inside
<1>2. PICK e \in Entry :
         /\ held' = [held EXCEPT ![e] = @ \ {resident}]
         /\ th' = [th EXCEPT ![t].evicted = e, ![t].moves = @ + 1]
  BY DEF EvictResident
<1>3. UNCHANGED <<rwlock, count>>
  BY DEF EvictResident
<1>4. TypeInv' /\ Alone(t)
  BY <1>2, <1>3 DEF IInv, TypeInv, Thread, Alone
<1> QED
  BY <1>1, <1>4, InsideKeeps

\* A copied reference enters a table: CopyInv says that t has the write lock.
LEMMA StoreCopyKeeps ==
    ASSUME IInv, NEW t \in Threads, StoreCopy(t) PROVE IInv'
<1> DEFINE u == th[t].update
<1>1. Locked(t)
  BY DEF StoreCopy, IInv, CopyInv
<1>2. CASE u.entry \in alive
  <2>1. /\ count' = [count EXCEPT ![u.entry] = (u.reg + 1) % (SIZE_MAX + 1)]
        /\ held' = [held EXCEPT ![u.entry] = @ \cup {u.kind}]
        /\ th' = [th EXCEPT ![t].update = NoUpdate]
        /\ UNCHANGED rwlock
    BY <1>2 DEF StoreCopy, Use
  <2>2. u \in Update /\ u.kind \in Tables
    BY DEF StoreCopy, IInv, TypeInv, Thread
  <2>3. (u.reg + 1) % (SIZE_MAX + 1) \in Nat
    BY <2>2, SizeMaxAssumption DEF Update
  <2>4. [th[t] EXCEPT !.update = NoUpdate] \in Thread
    BY NoUpdateType DEF IInv, TypeInv, Thread
  <2> HIDE DEF u
  <2>5. TypeInv'
    BY <2>1, <2>2, <2>3, <2>4 DEF IInv, TypeInv
  <2>6. Alone(t)
    BY <2>1 DEF IInv, TypeInv, Thread, Alone
  <2> QED
    BY <1>1, <2>5, <2>6, InsideKeeps
<1>3. CASE u.entry \notin alive
  <2>1. UNCHANGED <<rwlock, held, count, th>>
    BY <1>3 DEF StoreCopy, Use, objects
  <2> QED
    BY <2>1, <1>1, InsideKeeps DEF IInv, TypeInv, Alone
<1> QED
  BY <1>2, <1>3

\* dlirs_entry_destroy writes the counter, inside the lock or outside.
LEMMA StoreDropKeeps ==
    ASSUME IInv, NEW t \in Threads, StoreDrop(t) PROVE IInv'
<1> DEFINE u == th[t].update
           reg == IF u.reg = 0 THEN SIZE_MAX ELSE u.reg - 1
           evicted == IF Locked(t) THEN th[t].evicted ELSE NULL
<1>1. CASE u.entry \in alive
  <2>1. /\ count' = [count EXCEPT ![u.entry] = reg]
        /\ th' = [th EXCEPT ![t].update.step = "test", ![t].update.reg = 0,
                             ![t].evicted = evicted]
        /\ UNCHANGED <<rwlock, held>>
    BY <1>1 DEF StoreDrop, Use
  <2>2. u \in Update /\ th[t] \in Thread /\ u.kind = "drop"
    BY DEF StoreDrop, IInv, TypeInv, Thread
  <2>3. reg \in Nat /\ evicted \in Entry \cup {NULL}
    BY <2>2, SizeMaxAssumption DEF Update, Thread
  <2> HIDE DEF reg, evicted
  <2>4. [u EXCEPT !.step = "test", !.reg = 0] \in Update
    BY <2>2 DEF Update
  <2>5. [th[t] EXCEPT !.update = [u EXCEPT !.step = "test", !.reg = 0], !.evicted = evicted] \in Thread
    BY <2>2, <2>3, <2>4 DEF Thread
  <2>6. th'[t] = [th[t] EXCEPT !.update = [u EXCEPT !.step = "test", !.reg = 0], !.evicted = evicted]
    BY <2>1, <2>2 DEF IInv, TypeInv, Thread
  <2>7. \A v \in Threads \ {t} : th'[v] = th[v]
    BY <2>1 DEF IInv, TypeInv
  <2>8. th' \in [Threads -> Thread]
    BY <2>1, <2>5, <2>6, <2>7 DEF IInv, TypeInv
  <2>9. TypeInv'
    BY <2>1, <2>3, <2>8 DEF IInv, TypeInv
  <2>10. /\ th'[t].pc = th[t].pc /\ th'[t].seen = th[t].seen
         /\ th'[t].update.kind = th[t].update.kind
    <3> DEFINE new == [u EXCEPT !.step = "test", !.reg = 0]
    <3>1. new.kind = u.kind
      BY <2>2 DEF Update
    <3> HIDE DEF new
    <3>2. /\ th'[t].pc = th[t].pc /\ th'[t].seen = th[t].seen
          /\ th'[t].update = new
      BY <2>2, <2>6 DEF Thread, new
    <3> QED
      BY <3>1, <3>2
  <2>11. th'[t].update.kind \notin Tables
    BY <2>2, <2>10, TablesAssumption
  <2>12. th[t].pc = "look again" => th[t].seen = held
    BY DEF IInv, ReadersSeeOneState
  <2> QED
    BY <2>1, <2>7, <2>9, <2>10, <2>11, <2>12, OutsideKeeps DEF Locked, Reading
<1>2. CASE u.entry \notin alive
  BY <1>2, FrameKeeps DEF StoreDrop, Use, objects
<1> QED
  BY <1>1, <1>2

\* dlirs_entry_destroy ends, inside the lock or outside.
LEMMA TestLastKeeps ==
    ASSUME IInv, NEW t \in Threads, TestLast(t) PROVE IInv'
<1>1. CASE th[t].update.entry \in alive
  <2>1. th' = [th EXCEPT ![t].update = NoUpdate] /\ UNCHANGED <<rwlock, held, count>>
    BY <1>1 DEF TestLast, Use
  <2>2. [th[t] EXCEPT !.update = NoUpdate] \in Thread
    BY NoUpdateType DEF IInv, TypeInv, Thread
  <2>3. TypeInv'
    BY <2>1, <2>2 DEF IInv, TypeInv
  <2>4. /\ \A v \in Threads \ {t} : th'[v] = th[v]
        /\ th'[t].pc = th[t].pc /\ th'[t].seen = th[t].seen
        /\ th'[t].update.kind = "none"
    BY <2>1, NoUpdateType DEF IInv, TypeInv, Thread
  <2>5. "none" \notin Tables
    BY TablesAssumption
  <2>6. th[t].pc = "look again" => th[t].seen = held
    BY DEF IInv, ReadersSeeOneState
  <2> QED
    BY <2>1, <2>3, <2>4, <2>5, <2>6, OutsideKeeps DEF Locked, Reading
<1>2. CASE th[t].update.entry \notin alive
  BY <1>2, FrameKeeps DEF TestLast, Use, objects
<1> QED
  BY <1>1, <1>2

\* DESTROY_EVICTED_ENTRY, outside the lock, leaves the tables as they are.
LEMMA DestroyEvictedKeeps ==
    ASSUME IInv, NEW t \in Threads, DestroyEvicted(t) PROVE IInv'
<1>1. th[t].evicted \in Entry /\ th[t].pc = "out"
  BY DEF DestroyEvicted, IInv, TypeInv, Thread
<1>2. PICK e \in Entry : Load(t, e, "drop", held[e], 0)
  BY <1>1 DEF DestroyEvicted
<1>3. PICK tables \in SUBSET Tables : tables = held[e] /\ Load(t, e, "drop", tables, 0)
  BY <1>2 DEF IInv, TypeInv
<1>4. /\ TypeInv' /\ Alone(t)
      /\ th'[t].update.kind \in {"drop", th[t].update.kind}
      /\ held' = held \/ held' = [held EXCEPT ![e] = tables]
  BY <1>3, LoadStep DEF IInv
<1>5. UNCHANGED held
  BY <1>3, <1>4 DEF IInv, TypeInv
<1>6. th[t].update.kind \notin Tables
  BY <1>1 DEF IInv, CopyInv, Locked
<1>7. th'[t].update.kind \notin Tables
  BY <1>4, <1>6, TablesAssumption
<1> QED
  BY <1>1, <1>4, <1>5, <1>7, OutsideKeeps DEF Locked, Reading, Alone

-----------------------------------------------------------------------------
(* Locking and unlocking                                                   *)

\* t, outside the lock and with no update in progress, becomes r.
LEMMA ThreadBecomes ==
    ASSUME IInv, NEW t \in Threads, NEW r \in Thread, th' = [th EXCEPT ![t] = r],
           rwlock' \in [writer : Threads \cup {NULL, "main"}, readers : SUBSET Threads],
           UNCHANGED <<held, count>>
    PROVE  TypeInv' /\ th'[t] = r /\ \A u \in Threads \ {t} : th'[u] = th[u]
  BY DEF IInv, TypeInv

\* A thread between two statements copies nothing.
LEMMA ReadyHasNoCopy ==
    ASSUME NEW t \in Threads, Ready(t)
    PROVE  th[t].update = NoUpdate /\ th[t].update.kind \notin Tables
  BY NoUpdateType, TablesAssumption DEF Ready

\* cache_get and cache_request: the lock was free, so nobody is reading.
LEMMA WriteLockKeeps ==
    ASSUME IInv, NEW t \in Threads, NEW op \in {"get", "request"},
           Ready(t), Wrlock(t), Enter(t, op), UNCHANGED objects
    PROVE  IInv'
<1> DEFINE r == [th[t] EXCEPT !.pc = "in", !.op = op, !.moves = 0]
<1>0. th[t] \in Thread
  BY DEF IInv, TypeInv
<1>1. r \in Thread /\ r.pc = "in"
  BY <1>0 DEF Thread, Pc
<1>2. th' = [th EXCEPT ![t] = r]
  BY DEF Enter
<1>3. rwlock = Unlocked /\ rwlock' = [writer |-> t, readers |-> {}]
  BY DEF Wrlock, Unlocked
<1> HIDE DEF r
<1>4. TypeInv' /\ th'[t].pc = "in" /\ \A u \in Threads \ {t} : th'[u] = th[u]
  BY <1>1, <1>2, <1>3, ThreadBecomes DEF objects
<1>5. \A u \in Threads : ~Reading(u) /\ ~Locked(u)
  BY <1>3, UnlockedExcludesAll DEF IInv
<1>6. LockInv' /\ CopyInv' /\ ReadersSeeOneState'
  BY <1>3, <1>4, <1>5 DEF IInv, LockInv, CopyInv, ReadersSeeOneState, Locked, Reading
<1> QED
  BY <1>4, <1>6 DEF IInv

\* cache_is_full: no writer, so nobody is inside the backing.
LEMMA cache_is_fullKeeps ==
    ASSUME IInv, NEW t \in Threads, cache_is_full(t) PROVE IInv'
<1> DEFINE r == [th[t] EXCEPT !.pc = "look"]
<1>1. r \in Thread /\ r.pc = "look" /\ r.update = th[t].update
  BY DEF IInv, TypeInv, Thread, Pc
<1>2. th' = [th EXCEPT ![t] = r] /\ UNCHANGED <<held, count>>
  BY DEF cache_is_full, objects
<1>3. /\ rwlock.writer = NULL
      /\ rwlock' = [writer |-> NULL, readers |-> rwlock.readers \cup {t}]
  BY DEF cache_is_full, Rdlock, IInv, TypeInv
<1>4. th[t].update.kind \notin Tables
  BY ReadyHasNoCopy DEF cache_is_full
<1> HIDE DEF r
<1>5. rwlock' \in [writer : Threads \cup {NULL, "main"}, readers : SUBSET Threads]
  BY <1>3 DEF IInv, TypeInv
<1>6. TypeInv' /\ th'[t] = r /\ \A u \in Threads \ {t} : th'[u] = th[u]
  BY <1>1, <1>2, <1>5, ThreadBecomes
<1>7. LockInv' /\ CopyInv' /\ ReadersSeeOneState'
  BY <1>1, <1>2, <1>3, <1>4, <1>6 DEF IInv, LockInv, CopyInv, ReadersSeeOneState, Locked, Reading
<1> QED
  BY <1>6, <1>7 DEF IInv

\* t unlocks and becomes r, which is outside the lock.
LEMMA UnlockKeeps ==
    ASSUME IInv, NEW t \in Threads, Ready(t), Locked(t) \/ Reading(t),
           Unlock(t), UNCHANGED <<held, count>>,
           NEW r \in Thread, th' = [th EXCEPT ![t] = r], r.update.kind \notin Tables,
           r.pc \notin {"in", "look", "look again"}
    PROVE  IInv'
<1>1. rwlock' \in [writer : Threads \cup {NULL, "main"}, readers : SUBSET Threads]
  BY DEF Unlock, IInv, TypeInv
<1>2. TypeInv' /\ th'[t] = r /\ \A u \in Threads \ {t} : th'[u] = th[u]
  BY <1>1, ThreadBecomes
<1>3. /\ rwlock'.readers = rwlock.readers \ {t}
      /\ rwlock'.writer = IF rwlock.writer = t THEN NULL ELSE rwlock.writer
  BY DEF Unlock
<1>4. LockInv' /\ CopyInv'
  BY <1>2, <1>3 DEF IInv, LockInv, CopyInv, Locked, Reading
<1>5. ReadersSeeOneState'
  BY <1>2, ReadersFrame DEF IInv
<1> QED
  BY <1>2, <1>4, <1>5 DEF IInv

\* cache_get and cache_request unlock.
LEMMA LeaveKeeps ==
    ASSUME IInv, NEW t \in Threads, Leave(t) \/ RequestFails(t) PROVE IInv'
<1>0. th[t] \in Thread
  BY DEF IInv, TypeInv
<1>1. /\ Ready(t) /\ Locked(t) /\ Unlock(t) /\ UNCHANGED <<held, count>>
      /\ th[t].update.kind \notin Tables
  BY ReadyHasNoCopy DEF Leave, RequestFails, Locked, objects
<1>2. CASE Leave(t)
  <2>1. PICK miss \in BOOLEAN :
           th' = [th EXCEPT ![t].pc = "out", ![t].missed = miss, ![t].moves = 0]
    BY <1>2 DEF Leave
  <2> DEFINE r == [th[t] EXCEPT !.pc = "out", !.missed = miss, !.moves = 0]
  <2>2. r \in Thread /\ r.pc = "out" /\ r.update = th[t].update
    BY <1>0 DEF Thread, Pc
  <2>3. th' = [th EXCEPT ![t] = r]
    BY <2>1
  <2> HIDE DEF r
  <2> QED
    BY <1>1, <2>2, <2>3, UnlockKeeps
<1>3. CASE RequestFails(t)
  <2> DEFINE r == [th[t] EXCEPT !.pc = "out", !.op = "failed", !.moves = 0]
  <2>1. r \in Thread /\ r.pc = "out" /\ r.update = th[t].update
    BY <1>0 DEF Thread, Pc
  <2>2. th' = [th EXCEPT ![t] = r]
    BY <1>3 DEF RequestFails
  <2> HIDE DEF r
  <2> QED
    BY <1>1, <2>1, <2>2, UnlockKeeps
<1> QED
  BY <1>2, <1>3

\* The thread that begins the next iteration, or is done.
LEMMA NextRoundStep ==
    ASSUME IInv, NEW t \in Threads
    PROVE  \E r \in Thread : /\ NextRound(t) = [th EXCEPT ![t] = r]
                             /\ r.pc \in {"done", "get"} /\ r.update = NoUpdate
<1> DEFINE ends == th[t].round + 1 = Rounds
           r == [NewThread EXCEPT !.pc = IF ends THEN "done" ELSE "get",
                                  !.round = IF ends THEN 0 ELSE th[t].round + 1]
<1>1. th[t].round \in Nat
  BY DEF IInv, TypeInv, Thread
<1>2. (IF ends THEN 0 ELSE th[t].round + 1) \in Nat
  BY <1>1
<1>3. r \in Thread /\ r.pc \in {"done", "get"} /\ r.update = NoUpdate
  <2> HIDE DEF ends
  <2> QED
    BY <1>2, InitThread DEF Thread, Pc, NewThread
<1>4. NextRound(t) = [th EXCEPT ![t] = r]
  BY DEF NextRound
<1> QED
  BY <1>3, <1>4

\* The first read of a reader.
LEMMA LookKeeps ==
    ASSUME IInv, NEW t \in Threads, Look(t) PROVE IInv'
<1> DEFINE r == [th[t] EXCEPT !.pc = "look again", !.seen = held]
<1>0. th[t] \in Thread /\ th[t].pc = "look" /\ held \in [Entry -> SUBSET Tables]
  BY DEF IInv, TypeInv, Look
<1>1. r \in Thread /\ r.pc = "look again" /\ r.seen = held /\ r.update = th[t].update
  BY <1>0 DEF Thread, Pc
<1>2. th' = [th EXCEPT ![t] = r] /\ UNCHANGED <<rwlock, held, count>>
  BY DEF Look, objects
<1>3. th[t].update.kind \notin Tables
  BY ReadyHasNoCopy DEF Look
<1> HIDE DEF r
<1>4. TypeInv' /\ th'[t] = r /\ \A u \in Threads \ {t} : th'[u] = th[u]
  BY <1>1, <1>2, ThreadBecomes DEF IInv, TypeInv
<1> QED
  BY <1>0, <1>1, <1>2, <1>3, <1>4, OutsideKeeps DEF Locked, Reading

\* The second read of a reader, and its unlock.
LEMMA LookAgainKeeps ==
    ASSUME IInv, NEW t \in Threads, LookAgain(t) PROVE IInv'
<1>1. PICK r \in Thread : /\ NextRound(t) = [th EXCEPT ![t] = r]
                          /\ r.pc \in {"done", "get"} /\ r.update = NoUpdate
  BY NextRoundStep
<1>2. /\ Ready(t) /\ Reading(t) /\ Unlock(t) /\ UNCHANGED <<held, count>>
      /\ th' = [th EXCEPT ![t] = r]
  BY <1>1 DEF LookAgain, Reading, objects
<1>3. r.update.kind \notin Tables
  BY <1>1, NoUpdateType, TablesAssumption
<1> QED
  BY <1>1, <1>2, <1>3, UnlockKeeps

\* t, outside the lock, becomes r, outside it too.
LEMMA GoesOn ==
    ASSUME IInv, NEW t \in Threads, ~Locked(t), ~Reading(t), UNCHANGED <<rwlock, held, count>>,
           NEW r \in Thread, th' = [th EXCEPT ![t] = r], r.update.kind \notin Tables,
           r.pc \notin {"in", "look", "look again"}
    PROVE  IInv'
<1>1. TypeInv' /\ th'[t] = r /\ \A u \in Threads \ {t} : th'[u] = th[u]
  BY ThreadBecomes DEF IInv, TypeInv
<1> QED
  BY <1>1, OutsideKeeps DEF Locked, Reading

\* queryProcessor between two calls.
LEMMA ContinueKeeps ==
    ASSUME IInv, NEW t \in Threads, Continue(t) PROVE IInv'
<1>0. th[t] \in Thread /\ th[t].update.kind \notin Tables
  BY ReadyHasNoCopy DEF IInv, TypeInv, Continue
<1>1. ~Locked(t) /\ ~Reading(t) /\ UNCHANGED <<rwlock, held, count>>
  BY DEF Continue, Locked, Reading, objects
<1>2. CASE th' = [th EXCEPT ![t].pc = "request", ![t].missed = FALSE]
  <2> DEFINE r == [th[t] EXCEPT !.pc = "request", !.missed = FALSE]
  <2>1. r \in Thread /\ r.pc = "request" /\ r.update = th[t].update
    BY <1>0 DEF Thread, Pc
  <2>2. th' = [th EXCEPT ![t] = r]
    BY <1>2
  <2> HIDE DEF r
  <2> QED
    BY <1>0, <1>1, <2>1, <2>2, GoesOn
<1>3. CASE th' = [th EXCEPT ![t].pc = "full"]
  <2> DEFINE r == [th[t] EXCEPT !.pc = "full"]
  <2>1. r \in Thread /\ r.pc = "full" /\ r.update = th[t].update
    BY <1>0 DEF Thread, Pc
  <2>2. th' = [th EXCEPT ![t] = r]
    BY <1>3
  <2> HIDE DEF r
  <2> QED
    BY <1>0, <1>1, <2>1, <2>2, GoesOn
<1>4. CASE th' = NextRound(t)
  <2>1. PICK r \in Thread : /\ NextRound(t) = [th EXCEPT ![t] = r]
                            /\ r.pc \in {"done", "get"} /\ r.update = NoUpdate
    BY NextRoundStep
  <2>2. r.update.kind \notin Tables
    BY <2>1, NoUpdateType, TablesAssumption
  <2> QED
    BY <1>1, <1>4, <2>1, <2>2, GoesOn
<1> QED
  BY <1>2, <1>3, <1>4 DEF Continue

-----------------------------------------------------------------------------
(* main                                                                    *)

\* pthread_create.
LEMMA SpawnKeeps ==
    ASSUME IInv, Spawn PROVE IInv'
<1>1. PICK t \in Threads : th[t].pc = "new" /\ th' = [th EXCEPT ![t].pc = "get"]
  BY DEF Spawn
<1> DEFINE r == [th[t] EXCEPT !.pc = "get"]
<1>2. th[t] \in Thread /\ ~Locked(t) /\ ~Reading(t)
  BY <1>1 DEF IInv, TypeInv, Locked, Reading
<1>3. r \in Thread /\ r.pc = "get" /\ r.update = th[t].update
  BY <1>2 DEF Thread, Pc
<1>4. th' = [th EXCEPT ![t] = r] /\ UNCHANGED <<rwlock, held, count>>
  BY <1>1 DEF Spawn, objects
<1>5. th[t].update.kind \notin Tables
  BY <1>2 DEF IInv, CopyInv
<1> HIDE DEF r
<1> QED
  BY <1>2, <1>3, <1>4, <1>5, GoesOn

\* The tables are emptied while nobody has the lock.
LEMMA cache_destroyKeeps ==
    ASSUME IInv, cache_destroy PROVE IInv'
<1>1. /\ rwlock = Unlocked /\ UNCHANGED th
      /\ rwlock' \in {rwlock, [rwlock EXCEPT !.writer = "main"]}
  BY DEF cache_destroy
<1>2. \A u \in Threads : ~Reading(u) /\ ~Locked(u)
  BY <1>1, UnlockedExcludesAll DEF IInv
<1>3. CASE Broken # {}
  BY <1>1, <1>3, FrameKeeps DEF cache_destroy
<1>4. CASE Broken = {}
  <2>1. ReleaseAll
    BY <1>4 DEF cache_destroy
  <2>2. held' \in [Entry -> SUBSET Tables]
    BY <2>1 DEF ReleaseAll
  <2>3. count' \in [Entry -> Nat]
    <3>1. \A e \in Entry : count[e] - Cardinality(held[e]) \in Nat
      <4> SUFFICES ASSUME NEW e \in Entry PROVE count[e] - Cardinality(held[e]) \in Nat
        OBVIOUS
      <4>1. count[e] \in Nat /\ held[e] \subseteq Tables
        BY DEF IInv, TypeInv
      <4>2. Cardinality(held[e]) \in Nat /\ (held[e] = {} => Cardinality(held[e]) = 0)
        BY <4>1, FS_Subset, FS_CardinalityType, FS_EmptySet, TablesFinite
      <4>3. CASE held[e] = {}
        BY <4>1, <4>2, <4>3
      <4>4. CASE held[e] # {}
        <5>1. ~(Cardinality(held[e]) > count[e])
          BY <1>4, <4>4 DEF Broken, Referenced
        <5> QED
          BY <4>1, <4>2, <5>1
      <4> QED
        BY <4>3, <4>4
    <3> QED
      BY <2>1, <3>1 DEF ReleaseAll
  <2>4. rwlock' \in [writer : Threads \cup {NULL, "main"}, readers : SUBSET Threads] /\ rwlock'.readers = {}
    BY <1>1 DEF Unlocked
  <2>5. TypeInv'
    BY <1>1, <2>2, <2>3, <2>4 DEF IInv, TypeInv
  <2>6. \A u \in Threads : ~Reading(u)' /\ ~Locked(u)'
    BY <1>1, <1>2 DEF Reading, Locked
  <2>7. LockInv' /\ CopyInv' /\ ReadersSeeOneState'
    BY <1>1, <2>4, <2>6 DEF IInv, LockInv, CopyInv, ReadersSeeOneState, Reading, Locked
  <2> QED
    BY <2>5, <2>7 DEF IInv
<1> QED
  BY <1>3, <1>4

\* Every step of a thread keeps the invariant.
LEMMA ThreadStepKeeps ==
    ASSUME IInv, NEW t \in Threads, ThreadStep(t) PROVE IInv'
<1>1. CASE cache_get(t)
  BY <1>1, WriteLockKeeps DEF cache_get
<1>2. CASE cache_request(t)
  BY <1>2, WriteLockKeeps DEF cache_request
<1>3. CASE Exit(t)
  BY <1>3, FrameKeeps DEF Exit, objects
<1> QED
  BY <1>1, <1>2, <1>3, cache_is_fullKeeps, CreateEntryKeeps, CopyReferenceKeeps,
     DropReferenceKeeps, MoveReferenceKeeps, EvictResidentKeeps, HangKeeps, StoreCopyKeeps, StoreDropKeeps, TestLastKeeps,
     LeaveKeeps, LookKeeps, LookAgainKeeps, DestroyEvictedKeeps, ContinueKeeps
     DEF ThreadStep

\* Every step keeps the invariant.
LEMMA NextKeeps ==
    ASSUME IInv, [Next]_vars PROVE IInv'
<1>1. CASE \E t \in Threads : ThreadStep(t)
  BY <1>1, ThreadStepKeeps
<1>2. CASE SpawnFails \/ Join
  BY <1>2, FrameKeeps DEF SpawnFails, Join, objects
<1>3. CASE UNCHANGED vars
  BY <1>3, FrameKeeps DEF vars, objects
<1> QED
  BY <1>1, <1>2, <1>3, SpawnKeeps, cache_destroyKeeps DEF Next, MainStep

\* The lock of cache.c keeps its promise to the two reads of cache_is_full and
\* of cache_contains, for any number of threads and whatever the threads do
\* outside of it: no table changes between them.
THEOREM ReadersConsistent == Spec => []ReadersSeeOneState
<1>1. IInv /\ [Next]_vars => IInv'
  BY NextKeeps
<1>2. IInv => ReadersSeeOneState
  BY DEF IInv
<1> QED
  BY <1>1, <1>2, InitIInv, PTL DEF Spec

-----------------------------------------------------------------------------
(* The reference counters                                                  *)

Updating(t, e) == th[t].update.entry = e

\* t has taken a reference to e out of a table and not yet released it
Dropping(t, e) ==
    /\ Locked(t) /\ Updating(t, e)
    /\ th[t].update.kind = "drop" /\ th[t].update.step = "store"

Holders(e) == {t \in Threads : th[t].evicted = e}
Droppers(e) == {t \in Threads : Dropping(t, e)}

\* A thread has no entry to destroy and no update in progress between two
\* calls; the client destroys what it was handed; a reference is copied for a
\* table that has none.
UpdateOK(t) ==
    /\ th[t].pc \notin {"in", "out"} => th[t].evicted = NULL /\ th[t].update = NoUpdate
    /\ th[t].update # NoUpdate => /\ th[t].update.entry \in Entry
                                  /\ th[t].update.step \in {"store", "test"}
    /\ th[t].update.step = "store" /\ th[t].update.kind = "drop" /\ ~Locked(t)
         => th[t].evicted = th[t].update.entry
    /\ th[t].update.step = "store" /\ th[t].update.kind \in Tables
         => th[t].update.kind \notin held[th[t].update.entry]

UpdateInv == \A t \in Threads : UpdateOK(t)

\* Updates of an entry that has not raced exclude each other.
SoleUpdate ==
    \A e \in Entry \ raced : \A t, u \in Threads : Updating(t, e) /\ Updating(u, e) => t = u

\* What such an update has loaded is still what the counter holds.
RegOK(t) ==
    th[t].update.step = "store" /\ th[t].update.entry \notin raced
        => th[t].update.reg = count[th[t].update.entry]
RegInv == \A t \in Threads : RegOK(t)

\* main destroys the cache when the threads are done.
ProgInv == prog = "close" => \A t \in Threads : th[t].pc = "done"

CountInv == UpdateInv /\ SoleUpdate /\ RegInv /\ ProgInv /\ CountsExact

\* CountsExact for one entry
CountOK(e) ==
    /\ e \in alive => count[e] = References(e)
    /\ e \notin alive => References(e) = 0
    /\ e \in alive /\ count[e] = 0 =>
         \E t \in Threads : Updating(t, e) /\ th[t].update.step = "test"

\* CountsExact is CountOK of every entry that has not raced.
LEMMA CountsExactIs == CountsExact <=> \A e \in Entry \ raced : CountOK(e)
  BY DEF CountsExact, CountOK, Updating

\* The three parts of the number of references.
LEMMA ReferencesIs ==
    ASSUME NEW e
    PROVE  References(e) = Cardinality(held[e]) + Cardinality(Holders(e)) + Cardinality(Droppers(e))
  BY DEF References, Holders, Droppers, Dropping, Updating

\* All of them are finite.
LEMMA PartsFinite ==
    ASSUME TypeInv, NEW e \in Entry
    PROVE  /\ IsFiniteSet(held[e]) /\ Cardinality(held[e]) \in Nat
           /\ IsFiniteSet(Holders(e)) /\ Cardinality(Holders(e)) \in Nat
           /\ IsFiniteSet(Droppers(e)) /\ Cardinality(Droppers(e)) \in Nat
           /\ Cardinality(held[e]) <= Cardinality(Tables)
           /\ Cardinality(Holders(e)) <= Cardinality(Threads)
<1>1. held[e] \in SUBSET Tables /\ Holders(e) \in SUBSET Threads /\ Droppers(e) \in SUBSET Threads
  BY DEF TypeInv, Holders, Droppers
<1> QED
  BY <1>1, FS_Subset, FS_CardinalityType, TablesFinite, ThreadsFinite

\* Two threads are never both inside the backing.
LEMMA LockedAlone ==
    ASSUME LockInv, NEW t \in Threads, NEW u \in Threads, Locked(t), Locked(u)
    PROVE  t = u
  BY DEF LockInv

\* A step of t that changes nothing of what it has to do with e.
LEMMA ReferencesFrame ==
    ASSUME NEW t \in Threads, \A u \in Threads \ {t} : th'[u] = th[u],
           NEW e \in Entry, held'[e] = held[e],
           th'[t].evicted = e <=> th[t].evicted = e, Dropping(t, e)' <=> Dropping(t, e)
    PROVE  References(e)' = References(e)
<1>1. Holders(e)' = Holders(e)
  BY DEF Holders
<1>2. Droppers(e)' = Droppers(e)
  BY DEF Droppers, Dropping, Updating, Locked
<1>3. References(e)' = Cardinality(held'[e]) + Cardinality(Holders(e)') + Cardinality(Droppers(e)')
  BY DEF References, Holders, Droppers, Dropping, Updating, Locked
<1> QED
  BY <1>1, <1>2, <1>3, ReferencesIs

\* Its counter is then right as long as no other update of e is involved.
LEMMA CountFrame ==
    ASSUME NEW t \in Threads, \A u \in Threads \ {t} : th'[u] = th[u],
           NEW e \in Entry, CountOK(e), held'[e] = held[e], count'[e] = count[e],
           e \in alive' <=> e \in alive,
           th'[t].evicted = e <=> th[t].evicted = e, Dropping(t, e)' <=> Dropping(t, e),
           Updating(t, e) /\ th[t].update.step = "test" =>
               Updating(t, e)' /\ th'[t].update.step = "test"
    PROVE  CountOK(e)'
<1>1. References(e)' = References(e)
  BY ReferencesFrame
<1>2. ASSUME e \in alive, count[e] = 0
      PROVE  \E u \in Threads : Updating(u, e)' /\ th'[u].update.step = "test"
  <2>1. PICK u \in Threads : Updating(u, e) /\ th[u].update.step = "test"
    BY <1>2 DEF CountOK
  <2> QED
    BY <2>1 DEF Updating
<1> QED
  BY <1>1, <1>2 DEF CountOK

-----------------------------------------------------------------------------
(* Steps that touch no counter                                             *)

\* A step that changes nothing but main or the lock.
LEMMA CountStutter ==
    ASSUME CountInv, UNCHANGED <<held, count, alive, raced, th>>,
           prog' = "close" => prog = "close" \/ \A t \in Threads : th[t].pc = "done"
    PROVE  CountInv'
<1>1. UpdateInv' /\ SoleUpdate' /\ RegInv' /\ ProgInv'
  BY DEF CountInv, UpdateInv, UpdateOK, SoleUpdate, RegInv, RegOK, ProgInv, Updating, Locked
<1>2. CountsExact'
  BY DEF CountInv, CountsExact, References, Locked
<1> QED
  BY <1>1, <1>2 DEF CountInv

\* t, with no update in progress, becomes r.
LEMMA QuietKeeps ==
    ASSUME IInv, CountInv, NEW t \in Threads, NEW r \in Thread, th' = [th EXCEPT ![t] = r],
           UNCHANGED <<held, count, alive, raced>>, prog' = "close" => prog = "close",
           th[t].pc # "done", th[t].update = NoUpdate, r.update = NoUpdate,
           r.evicted = th[t].evicted, r.pc \notin {"in", "out"} => r.evicted = NULL
    PROVE  CountInv'
<1>1. th'[t] = r /\ \A u \in Threads \ {t} : th'[u] = th[u]
  BY DEF IInv, TypeInv
<1>2. NoUpdate.entry = NULL /\ NoUpdate.step = "none"
  BY DEF NoUpdate
<1>3. UpdateInv'
  <2> SUFFICES ASSUME NEW u \in Threads PROVE UpdateOK(u)'
    BY DEF UpdateInv
  <2>1. CASE u = t
    BY <1>1, <1>2, <2>1 DEF UpdateOK
  <2>2. CASE u # t
    BY <1>1, <2>2 DEF CountInv, UpdateInv, UpdateOK, Locked
  <2> QED
    BY <2>1, <2>2
<1>4. SoleUpdate' /\ RegInv'
  BY <1>1, <1>2 DEF CountInv, SoleUpdate, RegInv, RegOK, Updating
<1>5. ProgInv'
  BY DEF CountInv, ProgInv
<1>6. ASSUME NEW e \in Entry \ raced PROVE CountOK(e)'
  <2>1. ~Updating(t, e) /\ ~Updating(t, e)'
    BY <1>1, <1>2, EntryAssumption DEF Updating
  <2>2. CountOK(e)
    BY CountsExactIs DEF CountInv
  <2>3. ~Dropping(t, e) /\ ~Dropping(t, e)'
    BY <2>1 DEF Dropping
  <2> QED
    BY <1>1, <2>1, <2>2, <2>3, CountFrame
<1>7. CountsExact'
  BY <1>6 DEF CountsExact, CountOK, Updating
<1> QED
  BY <1>3, <1>4, <1>5, <1>7 DEF CountInv

-----------------------------------------------------------------------------
(* Steps of an update                                                      *)

\* What the load of an update changes.
LEMMA LoadEffect ==
    ASSUME TypeInv, NEW t \in Threads, NEW e \in Entry, NEW kind, NEW tables, NEW moves,
           e \in alive, Load(t, e, kind, tables, moves)
    PROVE  /\ \A u \in Threads \ {t} : th'[u] = th[u]
           /\ th'[t].pc = th[t].pc /\ th'[t].evicted = th[t].evicted
           /\ Updating(t, e)' /\ th'[t].update.kind = kind
           /\ th'[t].update.step = "store" /\ th'[t].update.reg = count[e]
           /\ held' = [held EXCEPT ![e] = tables]
           /\ UNCHANGED <<count, alive, prog>>
           /\ raced' = IF Overlaps(t, e) THEN raced \cup {e} ELSE raced
<1> DEFINE new == [entry |-> e, kind |-> kind, step |-> "store", reg |-> count[e]]
<1>1. /\ th' = [th EXCEPT ![t].moves = moves, ![t].update = new]
      /\ held' = [held EXCEPT ![e] = tables]
      /\ UNCHANGED <<count, alive, prog>>
      /\ raced' = IF Overlaps(t, e) THEN raced \cup {e} ELSE raced
  BY DEF Load, Use
<1>2. new.entry = e /\ new.kind = kind /\ new.step = "store" /\ new.reg = count[e]
  OBVIOUS
<1> HIDE DEF new
<1>3. /\ \A u \in Threads \ {t} : th'[u] = th[u]
      /\ th'[t].pc = th[t].pc /\ th'[t].evicted = th[t].evicted /\ th'[t].update = new
  BY <1>1 DEF TypeInv, Thread
<1> QED
  BY <1>1, <1>2, <1>3 DEF Updating

\* A load keeps everything but, possibly, the number of references of e, which
\* its caller answers for.
LEMMA LoadKeeps ==
    ASSUME IInv, CountInv, NEW t \in Threads, NEW e \in Entry, NEW kind \in Tables \cup {"drop"},
           NEW tables, NEW moves, e \in alive, Load(t, e, kind, tables, moves),
           th[t].update = NoUpdate, th[t].pc \in {"in", "out"},
           Locked(t) \/ (kind = "drop" /\ tables = held[e] /\ th[t].evicted = e),
           kind \in Tables => kind \notin tables,
           e \notin raced => References(e)' = References(e)
    PROVE  CountInv'
<1>0. /\ \A u \in Threads \ {t} : th'[u] = th[u]
      /\ th'[t].pc = th[t].pc /\ th'[t].evicted = th[t].evicted
      /\ th'[t].update.entry = e /\ th'[t].update.kind = kind
      /\ th'[t].update.step = "store" /\ th'[t].update.reg = count[e]
      /\ held' = [held EXCEPT ![e] = tables]
      /\ UNCHANGED <<count, alive, prog>>
      /\ raced' = IF Overlaps(t, e) THEN raced \cup {e} ELSE raced
  BY LoadEffect DEF IInv, Updating
<1>1. NoUpdate.entry = NULL /\ NoUpdate.step = "none"
  BY DEF NoUpdate
<1>2. held'[e] = tables /\ \A x \in Entry : x # e => held'[x] = held[x]
  BY <1>0 DEF IInv, TypeInv
<1>3. UpdateInv'
  <2> SUFFICES ASSUME NEW u \in Threads PROVE UpdateOK(u)'
    BY DEF UpdateInv
  <2>1. CASE u = t
    BY <1>0, <1>2, <2>1 DEF UpdateOK, Locked
  <2>2. CASE u # t
    <3>1. UpdateOK(u) /\ th'[u] = th[u]
      BY <1>0, <2>2 DEF CountInv, UpdateInv
    <3>2. ASSUME th[u].update.step = "store", th[u].update.kind \in Tables
          PROVE  th[u].update.kind \notin held'[th[u].update.entry]
      <4>1. Locked(u)
        BY <3>2 DEF IInv, CopyInv
      <4>2. ~Locked(t)
        BY <2>2, <4>1, LockedAlone DEF IInv
      <4>3. held' = held
        BY <1>0, <4>2 DEF IInv, TypeInv
      <4> QED
        BY <3>1, <3>2, <4>3 DEF UpdateOK
    <3> QED
      BY <3>1, <3>2 DEF UpdateOK, Locked
  <2> QED
    BY <2>1, <2>2
<1>4. SoleUpdate'
  <2>1. ASSUME NEW x \in Entry \ raced', NEW u \in Threads, NEW v \in Threads,
               Updating(u, x)', Updating(v, x)', u # v
        PROVE  FALSE
    <3>1. x \notin raced
      BY <1>0, <2>1
    <3>2. CASE u # t /\ v # t
      BY <1>0, <2>1, <3>1, <3>2 DEF CountInv, SoleUpdate, Updating
    <3>3. ASSUME NEW w \in Threads \ {t}, x = e, Updating(w, e) PROVE FALSE
      <4>1. ~Overlaps(t, e)
        BY <1>0, <2>1, <3>3
      <4>2. Locked(t) /\ Locked(w)
        BY <3>3, <4>1 DEF Overlaps, Updating
      <4> QED
        BY <3>3, <4>2, LockedAlone DEF IInv
    <3> QED
      BY <1>0, <2>1, <3>2, <3>3 DEF Updating
  <2> QED
    BY <2>1 DEF SoleUpdate
<1>5. RegInv'
  BY <1>0 DEF CountInv, RegInv, RegOK
<1>6. ProgInv'
  BY <1>0 DEF CountInv, ProgInv
<1>7. ASSUME NEW x \in Entry \ raced' PROVE CountOK(x)'
  <2>1. CountOK(x) /\ x \notin raced
    BY <1>0, <1>7, CountsExactIs DEF CountInv
  <2>2. CASE x = e
    <3>1. References(e)' = References(e)
      BY <2>1, <2>2
    <3>2. ASSUME count[e] = 0
          PROVE  FALSE
      <4>1. PICK u \in Threads : Updating(u, e) /\ th[u].update.step = "test"
        BY <2>1, <2>2, <3>2 DEF CountOK
      <4>2. u # t
        BY <1>1, <4>1, EntryAssumption DEF Updating
      <4>3. Updating(u, e)' /\ Updating(t, e)'
        BY <1>0, <4>1, <4>2 DEF Updating
      <4> QED
        BY <1>4, <1>7, <2>2, <4>2, <4>3 DEF SoleUpdate
    <3> QED
      BY <1>0, <2>1, <2>2, <3>1, <3>2 DEF CountOK
  <2>3. CASE x # e
    <3>1. ~Updating(t, x) /\ ~Updating(t, x)'
      BY <1>0, <1>1, <2>3, EntryAssumption DEF Updating
    <3>2. ~Dropping(t, x) /\ ~Dropping(t, x)'
      BY <3>1 DEF Dropping
    <3>3. held'[x] = held[x] /\ count'[x] = count[x]
      BY <1>0, <1>2, <2>3
    <3> QED
      BY <1>0, <2>1, <3>1, <3>2, <3>3, CountFrame
  <2> QED
    BY <2>2, <2>3
<1>8. CountsExact'
  BY <1>7 DEF CountsExact, CountOK, Updating
<1> QED
  BY <1>3, <1>4, <1>5, <1>6, <1>8 DEF CountInv

\* Loading through a freed object ends the process.
LEMMA LoadFreed ==
    ASSUME CountInv, NEW t \in Threads, NEW e, NEW kind, NEW tables, NEW moves,
           e \notin alive, Load(t, e, kind, tables, moves)
    PROVE  CountInv'
  BY CountStutter DEF Load, Use, objects

\* dlirs_entry_reference_copy begins: the tables are as before.
LEMMA CountCopyReference ==
    ASSUME IInv, CountInv, NEW t \in Threads, CopyReference(t) PROVE CountInv'
<1>1. PICK e \in Entry, k \in Tables : k \notin held[e] /\ Load(t, e, k, held[e], th[t].moves + 1)
  BY DEF CopyReference
<1>2. Locked(t) /\ th[t].update = NoUpdate /\ NoUpdate.entry = NULL
  BY DEF CopyReference, Inside, Ready, NoUpdate
<1>3. CASE e \in alive
  <2>1. References(e)' = References(e)
    <3>1. /\ \A u \in Threads \ {t} : th'[u] = th[u]
          /\ th'[t].evicted = th[t].evicted /\ th'[t].update.kind = k
          /\ held' = [held EXCEPT ![e] = held[e]]
      BY <1>1, <1>3, LoadEffect DEF IInv
    <3>2. ~Dropping(t, e) /\ ~Dropping(t, e)'
      BY <1>2, <3>1, EntryAssumption, TablesAssumption DEF Dropping, Updating
    <3>3. held'[e] = held[e]
      BY <3>1 DEF IInv, TypeInv
    <3> QED
      BY <3>1, <3>2, <3>3, ReferencesFrame
  <2> QED
    BY <1>1, <1>2, <1>3, <2>1, LoadKeeps DEF Locked
<1>4. CASE e \notin alive
  BY <1>1, <1>4, LoadFreed
<1> QED
  BY <1>3, <1>4

\* A table gives an entry up: the reference is now the running release's.
LEMMA CountDropReference ==
    ASSUME IInv, CountInv, NEW t \in Threads, DropReference(t) PROVE CountInv'
<1>1. PICK e \in Entry : \E k \in held[e] : Load(t, e, "drop", held[e] \ {k}, th[t].moves + 1)
  BY DEF DropReference
<1>2. PICK k \in held[e] : Load(t, e, "drop", held[e] \ {k}, th[t].moves + 1)
  BY <1>1
<1>3. Locked(t) /\ th[t].update = NoUpdate /\ NoUpdate.entry = NULL
  BY DEF DropReference, Inside, Ready, NoUpdate
<1>4. CASE e \in alive
  <2>1. /\ \A u \in Threads \ {t} : th'[u] = th[u]
        /\ th'[t].pc = th[t].pc /\ th'[t].evicted = th[t].evicted
        /\ Updating(t, e)' /\ th'[t].update.kind = "drop" /\ th'[t].update.step = "store"
        /\ held' = [held EXCEPT ![e] = held[e] \ {k}]
    BY <1>2, <1>4, LoadEffect DEF IInv
  <2>2. held'[e] = held[e] \ {k}
    BY <2>1 DEF IInv, TypeInv
  <2>3. Holders(e)' = Holders(e)
    BY <2>1 DEF Holders
  <2>4. t \notin Droppers(e)
    BY <1>3, EntryAssumption DEF Droppers, Dropping, Updating
  <2>5. Dropping(t, e)'
    BY <1>3, <2>1 DEF Dropping, Locked
  <2>6. Droppers(e)' = Droppers(e) \cup {t}
    BY <2>1, <2>5 DEF Droppers, Dropping, Updating, Locked
  <2>7. /\ Cardinality(held[e] \ {k}) = Cardinality(held[e]) - 1
        /\ Cardinality(Droppers(e) \cup {t}) = Cardinality(Droppers(e)) + 1
    BY <1>2, <2>4, PartsFinite, FS_AddElement, FS_RemoveElement DEF IInv
  <2>8. References(e)' = Cardinality(held'[e]) + Cardinality(Holders(e)') + Cardinality(Droppers(e)')
    BY DEF References, Holders, Droppers, Dropping, Updating, Locked
  <2>9. References(e)' = References(e)
    BY <2>2, <2>3, <2>6, <2>7, <2>8, PartsFinite, ReferencesIs DEF IInv
  <2> QED
    BY <1>2, <1>3, <1>4, <2>9, LoadKeeps, TablesAssumption DEF Locked
<1>5. CASE e \notin alive
  BY <1>2, <1>5, LoadFreed
<1> QED
  BY <1>4, <1>5

\* DESTROY_EVICTED_ENTRY begins, outside the lock.
LEMMA CountDestroyEvicted ==
    ASSUME IInv, CountInv, NEW t \in Threads, DestroyEvicted(t) PROVE CountInv'
<1>1. /\ th[t].evicted \in Entry /\ th[t].pc = "out" /\ ~Locked(t)
      /\ th[t].update = NoUpdate
  BY DEF DestroyEvicted, IInv, TypeInv, Thread, Ready, Locked
<1>2. PICK e \in Entry : th[t].evicted = e /\ Load(t, e, "drop", held[e], 0)
  BY <1>1 DEF DestroyEvicted
<1>3. CASE e \in alive
  <2>1. /\ \A u \in Threads \ {t} : th'[u] = th[u]
        /\ th'[t].pc = th[t].pc /\ th'[t].evicted = th[t].evicted
        /\ held' = [held EXCEPT ![e] = held[e]]
    BY <1>2, <1>3, LoadEffect DEF IInv
  <2>2. ~Dropping(t, e) /\ ~Dropping(t, e)' /\ held'[e] = held[e]
    BY <1>1, <2>1 DEF Dropping, Locked, IInv, TypeInv
  <2>3. References(e)' = References(e)
    BY <2>1, <2>2, ReferencesFrame
  <2> QED
    BY <1>1, <1>2, <1>3, <2>3, LoadKeeps, TablesAssumption
<1>4. CASE e \notin alive
  BY <1>2, <1>4, LoadFreed
<1> QED
  BY <1>3, <1>4

\* An update that goes on or ends, of an entry e that only it changes.
LEMMA UpdateKeeps ==
    ASSUME IInv, CountInv, NEW t \in Threads, NEW e \in Entry, Updating(t, e),
           \A u \in Threads \ {t} : th'[u] = th[u],
           th'[t].pc = th[t].pc, th[t].pc \in {"in", "out"},
           th'[t].update = NoUpdate \/ (Updating(t, e)' /\ th'[t].update.step = "test"),
           \A x \in Entry : x # e => /\ held'[x] = held[x] /\ count'[x] = count[x]
                                     /\ x \in alive' <=> x \in alive
                                     /\ th'[t].evicted = x <=> th[t].evicted = x,
           Locked(t) \/ UNCHANGED held,
           UNCHANGED <<raced, prog>>,
           e \notin raced /\ CountOK(e) => CountOK(e)'
    PROVE  CountInv'
<1>1. NoUpdate.entry = NULL /\ NoUpdate.step = "none"
  BY DEF NoUpdate
<1>2. UpdateInv'
  <2> SUFFICES ASSUME NEW u \in Threads PROVE UpdateOK(u)'
    BY DEF UpdateInv
  <2>1. CASE u = t
    BY <1>1, <2>1 DEF UpdateOK, Updating
  <2>2. CASE u # t
    <3>1. UpdateOK(u) /\ th'[u] = th[u]
      BY <2>2 DEF CountInv, UpdateInv
    <3>2. ASSUME th[u].update.step = "store", th[u].update.kind \in Tables
          PROVE  th[u].update.kind \notin held'[th[u].update.entry]
      <4>1. Locked(u)
        BY <3>2 DEF IInv, CopyInv
      <4>2. ~Locked(t)
        BY <2>2, <4>1, LockedAlone DEF IInv
      <4> QED
        BY <3>1, <3>2, <4>2 DEF UpdateOK
    <3> QED
      BY <3>1, <3>2 DEF UpdateOK, Locked
  <2> QED
    BY <2>1, <2>2
<1>3. SoleUpdate'
  <2> SUFFICES ASSUME NEW x \in Entry \ raced, NEW u \in Threads, NEW v \in Threads,
                      Updating(u, x)', Updating(v, x)'
               PROVE  u = v
    BY DEF SoleUpdate
  <2>1. Updating(u, x) /\ Updating(v, x)
    BY <1>1, EntryAssumption DEF Updating
  <2> QED
    BY <2>1 DEF CountInv, SoleUpdate
<1>4. RegInv'
  <2> SUFFICES ASSUME NEW u \in Threads, th'[u].update.step = "store",
                      th'[u].update.entry \notin raced
               PROVE  th'[u].update.reg = count'[th'[u].update.entry]
    BY DEF RegInv, RegOK
  <2>1. u # t /\ th'[u] = th[u]
    BY <1>1 DEF Updating
  <2>2. th[u].update.entry \in Entry
    BY <1>1, <2>1 DEF CountInv, UpdateInv, UpdateOK
  <2>3. th[u].update.entry # e
    BY <2>1, <2>2 DEF CountInv, SoleUpdate, Updating
  <2>4. RegOK(u)
    BY DEF CountInv, RegInv
  <2> QED
    BY <2>1, <2>2, <2>3, <2>4 DEF RegOK
<1>5. ProgInv'
  BY DEF CountInv, ProgInv
<1>6. ASSUME NEW x \in Entry \ raced PROVE CountOK(x)'
  <2>1. CountOK(x)
    BY CountsExactIs DEF CountInv
  <2>2. CASE x = e
    BY <2>1, <2>2
  <2>3. CASE x # e
    <3>1. ~Updating(t, x) /\ ~Updating(t, x)'
      BY <1>1, <2>3, EntryAssumption DEF Updating
    <3>2. ~Dropping(t, x) /\ ~Dropping(t, x)'
      BY <3>1 DEF Dropping
    <3>3. /\ held'[x] = held[x] /\ count'[x] = count[x] /\ x \in alive' <=> x \in alive
          /\ th'[t].evicted = x <=> th[t].evicted = x
      BY <2>3
    <3> QED
      BY <2>1, <3>1, <3>2, <3>3, CountFrame
  <2> QED
    BY <2>2, <2>3
<1>7. CountsExact'
  BY <1>6 DEF CountsExact, CountOK, Updating
<1> QED
  BY <1>2, <1>3, <1>4, <1>5, <1>7 DEF CountInv

\* The number of references as a sum, in the next state.
LEMMA ReferencesNext ==
    ASSUME NEW e
    PROVE  References(e)' = Cardinality(held'[e]) + Cardinality(Holders(e)') + Cardinality(Droppers(e)')
  BY DEF References, Holders, Droppers, Dropping, Updating, Locked

\* A thread in the middle of an update is in a call, of an entry.
LEMMA UpdateInCall ==
    ASSUME CountInv, NEW t \in Threads, th[t].update.step \in {"store", "test"}
    PROVE  th[t].update.entry \in Entry /\ th[t].pc \in {"in", "out"}
<1>1. th[t].update # NoUpdate
  BY DEF NoUpdate
<1> QED
  BY <1>1 DEF CountInv, UpdateInv, UpdateOK

\* A size_t that is not at its limit is incremented without wrapping.
LEMMA Increment ==
    ASSUME NEW n \in Nat, NEW m \in Nat, n < m
    PROVE  (n + 1) % (m + 1) = n + 1
  OBVIOUS

\* A copied reference enters its table and the counter.
LEMMA CountStoreCopy ==
    ASSUME IInv, CountInv, NEW t \in Threads, StoreCopy(t) PROVE CountInv'
<1> DEFINE u == th[t].update
<1>0. u.step = "store" /\ u.kind \in Tables /\ Locked(t)
  BY DEF StoreCopy, IInv, CopyInv
<1>1. u.entry \in Entry /\ th[t].pc \in {"in", "out"}
  BY <1>0, UpdateInCall
<1>2. PICK e \in Entry : u.entry = e
  BY <1>1
<1>3. CASE e \in alive
  <2>1. /\ count' = [count EXCEPT ![e] = (u.reg + 1) % (SIZE_MAX + 1)]
        /\ held' = [held EXCEPT ![e] = @ \cup {u.kind}]
        /\ th' = [th EXCEPT ![t].update = NoUpdate]
        /\ UNCHANGED <<rwlock, alive, raced, prog>>
    BY <1>2, <1>3 DEF StoreCopy, Use
  <2>2. /\ \A v \in Threads \ {t} : th'[v] = th[v]
        /\ th'[t].pc = th[t].pc /\ th'[t].evicted = th[t].evicted /\ th'[t].update = NoUpdate
    BY <2>1 DEF IInv, TypeInv, Thread
  <2>3. /\ \A x \in Entry : x # e => held'[x] = held[x] /\ count'[x] = count[x]
        /\ held'[e] = held[e] \cup {u.kind} /\ count'[e] = (u.reg + 1) % (SIZE_MAX + 1)
    BY <2>1 DEF IInv, TypeInv
  <2>4. ASSUME e \notin raced, CountOK(e) PROVE CountOK(e)'
    <3>1. u.reg = count[e] /\ u.kind \notin held[e]
      BY <1>0, <1>2, <2>4 DEF CountInv, RegInv, RegOK, UpdateInv, UpdateOK
    <3>2. Droppers(e) = {}
      <4> SUFFICES ASSUME NEW v \in Threads, Dropping(v, e) PROVE FALSE
        BY DEF Droppers
      <4>1. v = t
        BY <1>0, LockedAlone DEF Dropping, IInv
      <4> QED
        BY <1>0, <4>1, TablesAssumption DEF Dropping
    <3>3. Holders(e)' = Holders(e)
      BY <2>2 DEF Holders
    <3>4. Droppers(e)' = {}
      <4>1. ~Dropping(t, e)'
        BY <2>2, EntryAssumption DEF Dropping, Updating, NoUpdate
      <4> QED
        BY <2>2, <3>2, <4>1 DEF Droppers, Dropping, Updating, Locked
    <3>5. /\ Cardinality(held[e] \cup {u.kind}) = Cardinality(held[e]) + 1
          /\ Cardinality(held[e] \cup {u.kind}) <= Cardinality(Tables)
      <4>1. held[e] \cup {u.kind} \in SUBSET Tables
        BY <1>0 DEF IInv, TypeInv
      <4> QED
        BY <3>1, <4>1, PartsFinite, FS_AddElement, FS_Subset, TablesFinite DEF IInv
    <3>6. Cardinality({}) = 0
      BY FS_EmptySet
    <3>7. /\ Cardinality(Tables) \in Nat /\ Cardinality(Threads) \in Nat
          /\ Cardinality(held[e]) \in Nat /\ Cardinality(Holders(e)) \in Nat
          /\ Cardinality(Holders(e)) <= Cardinality(Threads)
      BY PartsFinite, FS_CardinalityType, TablesFinite, ThreadsFinite DEF IInv
    <3>8. count[e] = Cardinality(held[e]) + Cardinality(Holders(e))
      <4>1. count[e] = Cardinality(held[e]) + Cardinality(Holders(e)) + Cardinality({})
        BY <1>3, <2>4, <3>2, ReferencesIs DEF CountOK
      <4> QED
        BY <3>6, <3>7, <4>1
    <3>9. count[e] \in Nat /\ count[e] < SIZE_MAX
      BY <3>5, <3>7, <3>8, CounterAssumption, SizeMaxAssumption
    <3>10. count'[e] = count[e] + 1
      BY <2>3, <3>1, <3>9, Increment, SizeMaxAssumption
    <3>11. References(e)' = count[e] + 1
      <4>1. References(e)' = Cardinality(held[e] \cup {u.kind}) + Cardinality(Holders(e)) + Cardinality({})
        BY <2>3, <3>3, <3>4, ReferencesNext
      <4> QED
        BY <3>5, <3>6, <3>7, <3>8, <4>1
    <3> QED
      BY <1>3, <2>1, <3>9, <3>10, <3>11 DEF CountOK
  <2>5. Updating(t, e)
    BY <1>2 DEF Updating
  <2> QED
    BY <1>0, <1>1, <2>1, <2>2, <2>3, <2>4, <2>5, UpdateKeeps
<1>4. CASE e \notin alive
  BY <1>2, <1>4, CountStutter DEF StoreCopy, Use, objects
<1> QED
  BY <1>3, <1>4

\* A release writes the counter: the reference it was for is gone.
LEMMA CountStoreDrop ==
    ASSUME IInv, CountInv, NEW t \in Threads, StoreDrop(t) PROVE CountInv'
<1> DEFINE u == th[t].update
<1>0. u.step = "store" /\ u.kind = "drop"
  BY DEF StoreDrop
<1>1. u.entry \in Entry /\ th[t].pc \in {"in", "out"}
  BY <1>0, UpdateInCall
<1>2. PICK e \in Entry : u.entry = e
  BY <1>1
<1>3. CASE e \in alive
  <2> DEFINE handed == IF Locked(t) THEN th[t].evicted ELSE NULL
             less == IF u.reg = 0 THEN SIZE_MAX ELSE u.reg - 1
  <2>1. /\ count' = [count EXCEPT ![e] = less]
        /\ th' = [th EXCEPT ![t].update.step = "test", ![t].update.reg = 0, ![t].evicted = handed]
        /\ UNCHANGED <<rwlock, held, alive, raced, prog>>
    BY <1>2, <1>3 DEF StoreDrop, Use
  <2> HIDE DEF handed, less
  <2>2. /\ \A v \in Threads \ {t} : th'[v] = th[v]
        /\ th'[t].pc = th[t].pc /\ th'[t].evicted = handed
        /\ th'[t].update.entry = u.entry /\ th'[t].update.step = "test"
    BY <2>1 DEF IInv, TypeInv, Thread, Update
  <2>3. /\ \A x \in Entry : x # e => held'[x] = held[x] /\ count'[x] = count[x]
        /\ held'[e] = held[e] /\ count'[e] = less
    BY <2>1 DEF IInv, TypeInv
  <2>4. ~Locked(t) => th[t].evicted = e
    BY <1>0, <1>2 DEF CountInv, UpdateInv, UpdateOK
  <2>5. ASSUME e \notin raced, CountOK(e) PROVE CountOK(e)'
    <3>1. u.reg = count[e] /\ count[e] = References(e)
      BY <1>0, <1>2, <1>3, <2>5 DEF CountInv, RegInv, RegOK, CountOK
    <3>2. ~Dropping(t, e)' /\ \A v \in Threads \ {t} : Dropping(v, e)' <=> Dropping(v, e)
      BY <2>2 DEF Dropping, Updating, Locked
    <3>3. /\ Cardinality(held[e]) \in Nat /\ Cardinality(Holders(e)) \in Nat
          /\ Cardinality(Droppers(e)) \in Nat
          /\ IsFiniteSet(Holders(e)) /\ IsFiniteSet(Droppers(e))
      BY PartsFinite DEF IInv
    <3>4. CASE Locked(t)
      <4>1. t \in Droppers(e) /\ Droppers(e)' = Droppers(e) \ {t}
        BY <1>0, <1>2, <3>2, <3>4 DEF Droppers, Dropping, Updating
      <4>2. Holders(e)' = Holders(e)
        BY <2>2, <3>4 DEF Holders, handed
      <4>3. Cardinality(Droppers(e) \ {t}) = Cardinality(Droppers(e)) - 1
        BY <3>3, <4>1, FS_RemoveElement
      <4>4. Cardinality(Droppers(e) \ {t}) \in Nat
        BY <3>3, FS_RemoveElement, FS_CardinalityType
      <4>5. count[e] - 1 \in Nat /\ count[e] # 0
        BY <3>1, <3>3, <4>3, <4>4, ReferencesIs
      <4>6. count'[e] = count[e] - 1
        BY <2>3, <3>1, <4>5 DEF less
      <4>7. References(e)' = count[e] - 1
        <5>1. References(e)' = Cardinality(held[e]) + Cardinality(Holders(e)) + Cardinality(Droppers(e) \ {t})
          BY <2>3, <4>1, <4>2, ReferencesNext
        <5>2. count[e] = Cardinality(held[e]) + Cardinality(Holders(e)) + Cardinality(Droppers(e))
          BY <3>1, ReferencesIs
        <5> QED
          BY <3>3, <4>3, <5>1, <5>2
      <4> QED
        BY <1>2, <1>3, <2>1, <2>2, <4>6, <4>7 DEF CountOK, Updating
    <3>5. CASE ~Locked(t)
      <4>1. Droppers(e)' = Droppers(e)
        BY <3>2, <3>5 DEF Droppers, Dropping
      <4>2. t \in Holders(e) /\ Holders(e)' = Holders(e) \ {t}
        BY <2>2, <2>4, <3>5, EntryAssumption DEF Holders, handed
      <4>3. Cardinality(Holders(e) \ {t}) = Cardinality(Holders(e)) - 1
        BY <3>3, <4>2, FS_RemoveElement
      <4>4. Cardinality(Holders(e) \ {t}) \in Nat
        BY <3>3, FS_RemoveElement, FS_CardinalityType
      <4>5. count[e] - 1 \in Nat /\ count[e] # 0
        BY <3>1, <3>3, <4>3, <4>4, ReferencesIs
      <4>6. count'[e] = count[e] - 1
        BY <2>3, <3>1, <4>5 DEF less
      <4>7. References(e)' = count[e] - 1
        <5>1. References(e)' = Cardinality(held[e]) + Cardinality(Holders(e) \ {t}) + Cardinality(Droppers(e))
          BY <2>3, <4>1, <4>2, ReferencesNext
        <5>2. count[e] = Cardinality(held[e]) + Cardinality(Holders(e)) + Cardinality(Droppers(e))
          BY <3>1, ReferencesIs
        <5> QED
          BY <3>3, <4>3, <5>1, <5>2
      <4> QED
        BY <1>2, <1>3, <2>1, <2>2, <4>6, <4>7 DEF CountOK, Updating
    <3> QED
      BY <3>4, <3>5
  <2>6. \A x \in Entry : x # e => (th'[t].evicted = x <=> th[t].evicted = x)
    BY <2>2, <2>4, EntryAssumption DEF handed
  <2>7. Updating(t, e) /\ Updating(t, e)'
    BY <1>2, <2>2 DEF Updating
  <2> QED
    BY <1>1, <2>1, <2>2, <2>3, <2>5, <2>6, <2>7, UpdateKeeps, ZenonT(40)
<1>4. CASE e \notin alive
  BY <1>2, <1>4, CountStutter DEF StoreDrop, Use, objects
<1> QED
  BY <1>3, <1>4

\* The end of a release frees the object when no reference is left.
LEMMA CountTestLast ==
    ASSUME IInv, CountInv, NEW t \in Threads, TestLast(t) PROVE CountInv'
<1> DEFINE u == th[t].update
<1>0. u.step = "test"
  BY DEF TestLast
<1>1. u.entry \in Entry /\ th[t].pc \in {"in", "out"}
  BY <1>0, UpdateInCall
<1>2. PICK e \in Entry : u.entry = e
  BY <1>1
<1>3. CASE e \in alive
  <2>1. /\ alive' = IF count[e] = 0 THEN alive \ {e} ELSE alive
        /\ th' = [th EXCEPT ![t].update = NoUpdate]
        /\ UNCHANGED <<rwlock, held, count, raced, prog>>
    BY <1>2, <1>3 DEF TestLast, Use, Last
  <2>2. /\ \A v \in Threads \ {t} : th'[v] = th[v]
        /\ th'[t].pc = th[t].pc /\ th'[t].evicted = th[t].evicted /\ th'[t].update = NoUpdate
    BY <2>1 DEF IInv, TypeInv, Thread
  <2>3. ASSUME e \notin raced, CountOK(e) PROVE CountOK(e)'
    <3>1. ~Dropping(t, e) /\ ~Dropping(t, e)'
      BY <1>0, <2>2 DEF Dropping, NoUpdate
    <3>2. References(e)' = References(e)
      BY <2>1, <2>2, <3>1, ReferencesFrame
    <3> QED
      BY <1>3, <2>1, <2>3, <3>2 DEF CountOK
  <2>4. Updating(t, e)
    BY <1>2 DEF Updating
  <2> QED
    BY <1>1, <2>1, <2>2, <2>3, <2>4, UpdateKeeps
<1>4. CASE e \notin alive
  BY <1>2, <1>4, CountStutter DEF TestLast, Use, objects
<1> QED
  BY <1>3, <1>4

-----------------------------------------------------------------------------
(* Steps inside the backing that move references                           *)

\* t, inside the backing and between two updates, moves references to e.
LEMMA MoveKeeps ==
    ASSUME IInv, CountInv, NEW t \in Threads, NEW e \in Entry, Locked(t),
           th[t].update = NoUpdate, th'[t].update = NoUpdate, th'[t].pc = th[t].pc,
           \A u \in Threads \ {t} : th'[u] = th[u],
           \A x \in Entry : x # e => /\ held'[x] = held[x] /\ count'[x] = count[x]
                                     /\ x \in alive' <=> x \in alive
                                     /\ x \in raced' <=> x \in raced
                                     /\ th'[t].evicted = x <=> th[t].evicted = x,
           UNCHANGED prog,
           UNCHANGED <<count, raced>> \/ \A u \in Threads : ~Updating(u, e),
           e \notin raced' => CountOK(e)'
    PROVE  CountInv'
<1>1. NoUpdate.entry = NULL /\ NoUpdate.step = "none"
  BY DEF NoUpdate
<1>2. UpdateInv'
  <2> SUFFICES ASSUME NEW u \in Threads PROVE UpdateOK(u)'
    BY DEF UpdateInv
  <2>1. CASE u = t
    BY <1>1, <2>1 DEF UpdateOK, Locked
  <2>2. CASE u # t
    <3>1. UpdateOK(u) /\ th'[u] = th[u]
      BY <2>2 DEF CountInv, UpdateInv
    <3>2. ~Locked(u)
      BY <2>2, LockedAlone DEF IInv
    <3>3. th[u].update.kind \notin Tables
      BY <3>2 DEF IInv, CopyInv
    <3> QED
      BY <3>1, <3>2, <3>3 DEF UpdateOK, Locked
  <2> QED
    BY <2>1, <2>2
<1>3. \A u \in Threads : th'[u].update = th[u].update
  OBVIOUS
<1>4. SoleUpdate'
  BY <1>3 DEF CountInv, SoleUpdate, Updating
<1>5. RegInv'
  <2> SUFFICES ASSUME NEW u \in Threads, th[u].update.step = "store",
                      th[u].update.entry \notin raced'
               PROVE  th[u].update.reg = count'[th[u].update.entry]
    BY <1>3 DEF RegInv, RegOK
  <2>1. th[u].update.entry \in Entry /\ RegOK(u)
    BY <1>1 DEF CountInv, UpdateInv, UpdateOK, RegInv
  <2>2. CASE th[u].update.entry = e
    BY <2>1, <2>2 DEF RegOK, Updating
  <2>3. CASE th[u].update.entry # e
    BY <2>1, <2>3 DEF RegOK
  <2> QED
    BY <2>2, <2>3
<1>6. ProgInv'
  BY DEF CountInv, ProgInv, Locked
<1>7. ASSUME NEW x \in Entry, x \notin raced' PROVE CountOK(x)'
  <2>1. CASE x = e
    BY <1>7, <2>1
  <2>2. CASE x # e
    <3>1. CountOK(x)
      BY <1>7, <2>2, CountsExactIs DEF CountInv
    <3>2. ~Updating(t, x) /\ ~Updating(t, x)'
      BY <1>1, EntryAssumption DEF Updating
    <3>3. ~Dropping(t, x) /\ ~Dropping(t, x)'
      BY <3>2 DEF Dropping
    <3>4. /\ held'[x] = held[x] /\ count'[x] = count[x]
          /\ x \in alive' <=> x \in alive
          /\ th'[t].evicted = x <=> th[t].evicted = x
      BY <2>2
    <3> QED
      BY <3>1, <3>2, <3>3, <3>4, CountFrame
  <2> QED
    BY <2>1, <2>2
<1>8. CountsExact'
  BY <1>7 DEF CountsExact, CountOK, Updating
<1> QED
  BY <1>2, <1>4, <1>5, <1>6, <1>8 DEF CountInv

\* A new object has one reference and its counter says so, whatever the
\* memory was used for before.
LEMMA CountCreateEntry ==
    ASSUME IInv, CountInv, NEW t \in Threads, CreateEntry(t) PROVE CountInv'
<1>1. PICK e \in Entry \ alive, k \in Tables :
         /\ Forgotten(e) /\ held[e] = {}
         /\ alive' = alive \cup {e}
         /\ count' = [count EXCEPT ![e] = 1]
         /\ held' = [held EXCEPT ![e] = {k}]
         /\ raced' = raced \ {e}
  BY DEF CreateEntry
<1>2. /\ Locked(t) /\ th[t].update = NoUpdate
      /\ th' = [th EXCEPT ![t].moves = @ + 1] /\ UNCHANGED prog
  BY DEF CreateEntry, Inside, Ready
<1>3. /\ \A u \in Threads : th'[u].pc = th[u].pc /\ th'[u].update = th[u].update
                            /\ th'[u].evicted = th[u].evicted
      /\ \A u \in Threads \ {t} : th'[u] = th[u]
  BY <1>2 DEF IInv, TypeInv, Thread
<1>4. /\ \A x \in Entry : x # e => held'[x] = held[x] /\ count'[x] = count[x]
      /\ held'[e] = {k} /\ count'[e] = 1
  BY <1>1 DEF IInv, TypeInv
<1>5. \A u \in Threads : ~Updating(u, e)
  BY <1>1 DEF Forgotten, Updating
<1>6. Holders(e)' = {} /\ Droppers(e)' = {}
  BY <1>1, <1>3 DEF Holders, Droppers, Dropping, Updating, Forgotten
<1>7. References(e)' = 1
  <2>1. References(e)' = Cardinality({k}) + Cardinality({}) + Cardinality({})
    BY <1>4, <1>6, ReferencesNext
  <2>2. Cardinality({k}) = 1 /\ Cardinality({}) = 0
    BY FS_Singleton, FS_EmptySet
  <2> QED
    BY <2>1, <2>2
<1>8. CountOK(e)'
  BY <1>1, <1>4, <1>7 DEF CountOK
<1> QED
  BY <1>1, <1>2, <1>3, <1>4, <1>5, <1>8, MoveKeeps

\* A reference that changes tables is still one reference.
LEMMA CountMoveReference ==
    ASSUME IInv, CountInv, NEW t \in Threads, MoveReference(t) PROVE CountInv'
<1>1. PICK e \in Entry, k \in Tables : \E j \in held[e] :
         /\ k \notin held[e]
         /\ Use(e, /\ held' = [held EXCEPT ![e] = (@ \ {j}) \cup {k}]
                   /\ th' = [th EXCEPT ![t].moves = @ + 1]
                   /\ UNCHANGED <<rwlock, count, alive, raced, prog>>)
  BY DEF MoveReference
<1>2. Locked(t) /\ th[t].update = NoUpdate /\ prog # "exit"
  BY DEF MoveReference, Inside, Ready, Running
<1>3. CASE e \notin alive
  BY <1>1, <1>3, CountStutter DEF Use, objects
<1>4. CASE e \in alive
  <2>1. PICK j \in held[e] : /\ k \notin held[e]
                             /\ held' = [held EXCEPT ![e] = (@ \ {j}) \cup {k}]
                             /\ th' = [th EXCEPT ![t].moves = @ + 1]
                             /\ UNCHANGED <<count, alive, raced, prog>>
    BY <1>1, <1>4 DEF Use
  <2>2. /\ \A u \in Threads \ {t} : th'[u] = th[u]
        /\ th'[t].pc = th[t].pc /\ th'[t].update = th[t].update
        /\ th'[t].evicted = th[t].evicted
    BY <2>1 DEF IInv, TypeInv, Thread
  <2>3. /\ \A x \in Entry : x # e => held'[x] = held[x]
        /\ held'[e] = (held[e] \ {j}) \cup {k}
    BY <2>1 DEF IInv, TypeInv
  <2>4. Holders(e)' = Holders(e) /\ Droppers(e)' = Droppers(e)
    BY <2>2 DEF Holders, Droppers, Dropping, Updating, Locked
  <2>5. Cardinality((held[e] \ {j}) \cup {k}) = Cardinality(held[e])
    <3>1. IsFiniteSet(held[e]) /\ Cardinality(held[e]) \in Nat
      BY PartsFinite DEF IInv
    <3>2. /\ Cardinality(held[e] \ {j}) = Cardinality(held[e]) - 1
          /\ IsFiniteSet(held[e] \ {j})
      BY <2>1, <3>1, FS_RemoveElement
    <3>3. Cardinality((held[e] \ {j}) \cup {k}) = Cardinality(held[e] \ {j}) + 1
      BY <2>1, <3>2, FS_AddElement
    <3> QED
      BY <3>1, <3>2, <3>3
  <2>6. References(e)' = References(e)
    <3>1. References(e)' = Cardinality(held'[e]) + Cardinality(Holders(e)') + Cardinality(Droppers(e)')
      BY ReferencesNext
    <3> QED
      BY <2>3, <2>4, <2>5, <3>1, ReferencesIs
  <2>7. ASSUME e \notin raced PROVE CountOK(e)'
    <3>1. CountOK(e)
      BY <2>7, CountsExactIs DEF CountInv
    <3>2. \A u \in Threads : th'[u].update = th[u].update
      BY <2>2
    <3> QED
      BY <2>1, <2>6, <3>1, <3>2 DEF CountOK, Updating
  <2> QED
    BY <1>2, <2>1, <2>2, <2>3, <2>7, MoveKeeps
<1> QED
  BY <1>3, <1>4

\* An eviction hands the table's reference over to the client.
LEMMA CountEvictResident ==
    ASSUME IInv, CountInv, NEW t \in Threads, EvictResident(t) PROVE CountInv'
<1>1. PICK e \in Entry :
         /\ resident \in held[e]
         /\ held' = [held EXCEPT ![e] = @ \ {resident}]
         /\ th' = [th EXCEPT ![t].evicted = e, ![t].moves = @ + 1]
  BY DEF EvictResident
<1>2. /\ Locked(t) /\ th[t].update = NoUpdate /\ th[t].evicted = NULL
      /\ UNCHANGED <<count, alive, raced, prog>>
  BY DEF EvictResident, Inside, Ready
<1>3. /\ \A u \in Threads \ {t} : th'[u] = th[u]
      /\ th'[t].pc = th[t].pc /\ th'[t].update = th[t].update /\ th'[t].evicted = e
  BY <1>1 DEF IInv, TypeInv, Thread
<1>4. /\ \A x \in Entry : x # e => held'[x] = held[x]
      /\ held'[e] = held[e] \ {resident}
  BY <1>1 DEF IInv, TypeInv
<1>5. t \notin Holders(e) /\ Holders(e)' = Holders(e) \cup {t}
  BY <1>2, <1>3, EntryAssumption DEF Holders
<1>6. Droppers(e)' = Droppers(e)
  BY <1>3 DEF Droppers, Dropping, Updating, Locked
<1>7. /\ Cardinality(held[e] \ {resident}) = Cardinality(held[e]) - 1
      /\ Cardinality(Holders(e) \cup {t}) = Cardinality(Holders(e)) + 1
  BY <1>1, <1>5, PartsFinite, FS_AddElement, FS_RemoveElement DEF IInv
<1>8. References(e)' = References(e)
  <2>1. References(e)' = Cardinality(held[e] \ {resident}) + Cardinality(Holders(e) \cup {t})
                         + Cardinality(Droppers(e))
    BY <1>4, <1>5, <1>6, ReferencesNext
  <2> QED
    BY <2>1, <1>7, PartsFinite, ReferencesIs DEF IInv
<1>9. ASSUME e \notin raced PROVE CountOK(e)'
  <2>1. CountOK(e)
    BY <1>9, CountsExactIs DEF CountInv
  <2>2. \A u \in Threads : th'[u].update = th[u].update
    BY <1>3
  <2> QED
    BY <1>2, <1>8, <2>1, <2>2 DEF CountOK, Updating
<1>10. \A x \in Entry : x # e => (th'[t].evicted = x <=> th[t].evicted = x)
  BY <1>2, <1>3, EntryAssumption
<1> QED
  BY <1>2, <1>3, <1>4, <1>9, <1>10, MoveKeeps

-----------------------------------------------------------------------------
(* The quiet steps                                                         *)

\* A thread that enters or leaves a call, or goes on to the next.
LEMMA CountQuiet ==
    ASSUME IInv, CountInv, NEW t \in Threads,
           \/ cache_get(t) \/ cache_request(t) \/ cache_is_full(t) \/ Leave(t)
           \/ RequestFails(t) \/ Look(t) \/ LookAgain(t) \/ Continue(t) \/ Hang(t)
    PROVE  CountInv'
<1>0. /\ th[t] \in Thread /\ th[t].update = NoUpdate /\ th[t].pc # "done"
      /\ UNCHANGED <<held, count, alive, raced, prog>>
  BY DEF IInv, TypeInv, Ready, cache_get, cache_request, cache_is_full, Leave, RequestFails,
     Look, LookAgain, Continue, Hang, Locked, objects
<1>1. SUFFICES \E r \in Thread : /\ th' = [th EXCEPT ![t] = r] /\ r.update = NoUpdate
                                 /\ r.evicted = th[t].evicted
                                 /\ r.pc \notin {"in", "out"} => r.evicted = NULL
  BY <1>0, QuietKeeps
<1>2. ASSUME NEW op \in {"get", "request"}, Enter(t, op)
      PROVE  \E r \in Thread : /\ th' = [th EXCEPT ![t] = r] /\ r.update = NoUpdate
                               /\ r.evicted = th[t].evicted /\ r.pc = "in"
  <2> DEFINE r == [th[t] EXCEPT !.pc = "in", !.op = op, !.moves = 0]
  <2>1. r \in Thread /\ r.update = NoUpdate /\ r.evicted = th[t].evicted /\ r.pc = "in"
    BY <1>0 DEF Thread, Pc
  <2>2. th' = [th EXCEPT ![t] = r]
    BY <1>2 DEF Enter
  <2> QED
    BY <2>1, <2>2
<1>3. CASE cache_get(t)
  BY <1>2, <1>3 DEF cache_get
<1>4. CASE cache_request(t)
  BY <1>2, <1>4 DEF cache_request
<1>5. CASE Leave(t)
  <2>1. PICK miss \in BOOLEAN :
           th' = [th EXCEPT ![t].pc = "out", ![t].missed = miss, ![t].moves = 0]
    BY <1>5 DEF Leave
  <2> DEFINE r == [th[t] EXCEPT !.pc = "out", !.missed = miss, !.moves = 0]
  <2>2. r \in Thread /\ r.pc = "out" /\ r.update = NoUpdate /\ r.evicted = th[t].evicted
    BY <1>0 DEF Thread, Pc
  <2>3. th' = [th EXCEPT ![t] = r]
    BY <2>1
  <2> QED
    BY <2>2, <2>3
<1>6. CASE RequestFails(t)
  <2> DEFINE r == [th[t] EXCEPT !.pc = "out", !.op = "failed", !.moves = 0]
  <2>1. r \in Thread /\ r.pc = "out" /\ r.update = NoUpdate /\ r.evicted = th[t].evicted
    BY <1>0 DEF Thread, Pc
  <2>2. th' = [th EXCEPT ![t] = r]
    BY <1>6 DEF RequestFails
  <2> QED
    BY <2>1, <2>2
<1>7. ASSUME th[t].pc \notin {"in", "out"} \/ th[t].evicted = NULL
      PROVE  th[t].evicted = NULL
  BY <1>7 DEF CountInv, UpdateInv, UpdateOK
<1>8. CASE cache_is_full(t)
  <2> DEFINE r == [th[t] EXCEPT !.pc = "look"]
  <2>1. r \in Thread /\ r.update = NoUpdate /\ r.evicted = th[t].evicted
    BY <1>0 DEF Thread, Pc
  <2>2. th' = [th EXCEPT ![t] = r] /\ th[t].evicted = NULL
    BY <1>7, <1>8 DEF cache_is_full
  <2> QED
    BY <2>1, <2>2
<1>9. CASE Look(t)
  <2> DEFINE r == [th[t] EXCEPT !.pc = "look again", !.seen = held]
  <2>0. held \in [Entry -> SUBSET Tables]
    BY DEF IInv, TypeInv
  <2>1. r \in Thread /\ r.update = NoUpdate /\ r.evicted = th[t].evicted
    BY <1>0, <2>0 DEF Thread, Pc
  <2>2. th' = [th EXCEPT ![t] = r] /\ th[t].evicted = NULL
    BY <1>7, <1>9 DEF Look
  <2> QED
    BY <2>1, <2>2
<1>10. ASSUME th' = NextRound(t), th[t].evicted = NULL
       PROVE  \E r \in Thread : /\ th' = [th EXCEPT ![t] = r] /\ r.update = NoUpdate
                                /\ r.evicted = th[t].evicted /\ r.evicted = NULL
  <2> DEFINE ends == th[t].round + 1 = Rounds
             r == [NewThread EXCEPT !.pc = IF ends THEN "done" ELSE "get",
                                    !.round = IF ends THEN 0 ELSE th[t].round + 1]
  <2>1. (IF ends THEN 0 ELSE th[t].round + 1) \in Nat
    BY <1>0 DEF Thread
  <2>2. r \in Thread /\ r.update = NoUpdate /\ r.evicted = NULL
    <3> HIDE DEF ends
    <3> QED
      BY <2>1, InitThread DEF Thread, Pc, NewThread
  <2>3. th' = [th EXCEPT ![t] = r]
    BY <1>10 DEF NextRound
  <2> QED
    BY <1>10, <2>2, <2>3
<1>11. CASE LookAgain(t)
  BY <1>7, <1>10, <1>11 DEF LookAgain
<1>12. CASE Continue(t)
  <2>1. th[t].evicted = NULL
    BY <1>12 DEF Continue
  <2>2. CASE th' = [th EXCEPT ![t].pc = "request", ![t].missed = FALSE]
    <3> DEFINE r == [th[t] EXCEPT !.pc = "request", !.missed = FALSE]
    <3>1. r \in Thread /\ r.update = NoUpdate /\ r.evicted = th[t].evicted
      BY <1>0 DEF Thread, Pc
    <3>2. th' = [th EXCEPT ![t] = r]
      BY <2>2
    <3> QED
      BY <2>1, <3>1, <3>2
  <2>3. CASE th' = [th EXCEPT ![t].pc = "full"]
    <3> DEFINE r == [th[t] EXCEPT !.pc = "full"]
    <3>1. r \in Thread /\ r.update = NoUpdate /\ r.evicted = th[t].evicted
      BY <1>0 DEF Thread, Pc
    <3>2. th' = [th EXCEPT ![t] = r]
      BY <2>3
    <3> QED
      BY <2>1, <3>1, <3>2
  <2>4. CASE th' = NextRound(t)
    BY <1>10, <2>1, <2>4
  <2> QED
    BY <1>12, <2>2, <2>3, <2>4 DEF Continue
<1>13. CASE Hang(t)
  <2> DEFINE r == [th[t] EXCEPT !.op = "hung"]
  <2>1. th[t].pc = "in" /\ th' = [th EXCEPT ![t] = r]
    BY <1>13 DEF Hang, Locked
  <2>2. r \in Thread /\ r.pc = "in" /\ r.update = NoUpdate /\ r.evicted = th[t].evicted
    BY <1>0, <2>1 DEF Thread, Pc
  <2> QED
    BY <2>1, <2>2
<1> QED
  BY <1>3, <1>4, <1>5, <1>6, <1>8, <1>9, <1>11, <1>12, <1>13

\* pthread_create.
LEMMA CountSpawn ==
    ASSUME IInv, CountInv, Spawn PROVE CountInv'
<1>1. PICK t \in Threads : th[t].pc = "new" /\ th' = [th EXCEPT ![t].pc = "get"]
  BY DEF Spawn
<1> DEFINE r == [th[t] EXCEPT !.pc = "get"]
<1>2. th[t] \in Thread /\ th[t].evicted = NULL /\ th[t].update = NoUpdate
  BY <1>1 DEF IInv, TypeInv, CountInv, UpdateInv, UpdateOK
<1>3. r \in Thread /\ r.evicted = NULL /\ r.update = NoUpdate
  BY <1>2 DEF Thread, Pc
<1>4. th' = [th EXCEPT ![t] = r] /\ UNCHANGED <<held, count, alive, raced>> /\ prog' # "close"
  BY <1>1 DEF Spawn, objects
<1> HIDE DEF r
<1> QED
  BY <1>1, <1>2, <1>3, <1>4, QuietKeeps

\* cache_destroy: all references are the tables', and their counters know it,
\* so every object that has not raced is freed with its last one.
LEMMA CountDestroy ==
    ASSUME IInv, CountInv, cache_destroy PROVE CountInv'
<1>1. prog = "close" /\ prog' # "close" /\ UNCHANGED <<th, raced>>
  BY DEF cache_destroy
<1>2. \A t \in Threads : th[t].evicted = NULL /\ th[t].update = NoUpdate
  BY <1>1 DEF CountInv, ProgInv, UpdateInv, UpdateOK
<1>3. CASE Broken # {}
  BY <1>1, <1>3, CountStutter DEF cache_destroy
<1>4. CASE Broken = {}
  <2>1. ReleaseAll
    BY <1>4 DEF cache_destroy
  <2>2. NoUpdate.entry = NULL /\ NoUpdate.step = "none"
    BY DEF NoUpdate
  <2>3. UpdateInv' /\ SoleUpdate' /\ RegInv' /\ ProgInv'
    BY <1>1, <1>2, <2>2, EntryAssumption
    DEF CountInv, UpdateInv, UpdateOK, SoleUpdate, RegInv, RegOK, ProgInv, Updating, Locked
  <2>4. ASSUME NEW e \in Entry \ raced PROVE CountOK(e)'
    <3>1. Holders(e) = {} /\ Droppers(e) = {} /\ Holders(e)' = {} /\ Droppers(e)' = {}
      BY <1>1, <1>2, <2>2, EntryAssumption DEF Holders, Droppers, Dropping, Updating
    <3>2. held'[e] = {}
      BY <2>1 DEF ReleaseAll
    <3>3. Cardinality({}) = 0 /\ Cardinality(held[e]) \in Nat
      BY FS_EmptySet, PartsFinite DEF IInv
    <3>4. References(e)' = 0
      <4>1. References(e)' = Cardinality({}) + Cardinality({}) + Cardinality({})
        BY <3>1, <3>2, ReferencesNext
      <4> QED
        BY <3>3, <4>1
    <3>5. References(e) = Cardinality(held[e])
      <4>1. References(e) = Cardinality(held[e]) + Cardinality({}) + Cardinality({})
        BY <3>1, ReferencesIs
      <4> QED
        BY <3>3, <4>1
    <3>6. CountOK(e)
      BY CountsExactIs DEF CountInv
    <3>7. e \notin alive'
      <4> SUFFICES ASSUME e \in alive PROVE e \in Referenced /\ count[e] = Cardinality(held[e])
        BY <2>1 DEF ReleaseAll
      <4>1. count[e] = Cardinality(held[e])
        BY <3>5, <3>6 DEF CountOK
      <4>2. count[e] # 0
        BY <1>2, <2>2, <3>6 DEF CountOK
      <4> QED
        BY <3>3, <4>1, <4>2 DEF Referenced
    <3> QED
      BY <3>4, <3>7 DEF CountOK
  <2>5. CountsExact'
    BY <1>1, <2>4 DEF CountsExact, CountOK, Updating
  <2> QED
    BY <2>3, <2>5 DEF CountInv
<1> QED
  BY <1>3, <1>4

-----------------------------------------------------------------------------

\* Nothing is allocated and nobody runs when the cache has been created.
LEMMA InitCountInv == Init => CountInv
<1> SUFFICES ASSUME Init PROVE CountInv
  OBVIOUS
<1>1. \A t \in Threads : th[t].pc = "new" /\ th[t].evicted = NULL /\ th[t].update = NoUpdate
  BY DEF Init, NewThread
<1>2. NoUpdate.entry = NULL /\ NoUpdate.step = "none"
  BY DEF NoUpdate
<1>3. UpdateInv /\ SoleUpdate /\ RegInv /\ ProgInv
  BY <1>1, <1>2, EntryAssumption
  DEF Init, UpdateInv, UpdateOK, SoleUpdate, RegInv, RegOK, ProgInv, Updating
<1>4. ASSUME NEW e \in Entry PROVE CountOK(e)
  <2>1. Holders(e) = {} /\ Droppers(e) = {} /\ held[e] = {} /\ e \notin alive
    BY <1>1, <1>2, EntryAssumption DEF Init, Holders, Droppers, Dropping, Updating
  <2>2. References(e) = Cardinality({}) + Cardinality({}) + Cardinality({})
    BY <2>1, ReferencesIs
  <2>3. References(e) = 0
    BY <2>2, FS_EmptySet
  <2> QED
    BY <2>1, <2>3 DEF CountOK
<1> QED
  BY <1>3, <1>4, CountsExactIs DEF CountInv

\* Every step keeps the counters exact.
LEMMA NextCountInv ==
    ASSUME IInv, CountInv, [Next]_vars PROVE CountInv'
<1>1. ASSUME NEW t \in Threads, ThreadStep(t) PROVE CountInv'
  <2>1. CASE Exit(t)
    BY <2>1, CountStutter DEF Exit, objects
  <2> QED
    BY <1>1, <2>1, CountQuiet, CountCreateEntry, CountCopyReference, CountDropReference,
       CountMoveReference, CountEvictResident, CountStoreCopy, CountStoreDrop, CountTestLast, CountDestroyEvicted
       DEF ThreadStep
<1>2. CASE SpawnFails
  BY <1>2, CountStutter DEF SpawnFails, objects
<1>3. CASE Join
  BY <1>3, CountStutter DEF Join, objects
<1>4. CASE UNCHANGED vars
  BY <1>4, CountStutter DEF vars, objects
<1> QED
  BY <1>1, <1>2, <1>3, <1>4, CountSpawn, CountDestroy DEF Next, MainStep

\* For any number of threads, entries and tables: the reference counter of
\* every DLIRSEntry that no unlocked dlirs_entry_destroy has raced with is the
\* number of its references, and the object is freed with the last of them.
THEOREM CountersConsistent == Spec => []CountsExact
<1>1. IInv /\ CountInv /\ [Next]_vars => IInv' /\ CountInv'
  BY NextKeeps, NextCountInv
<1>2. CountInv => CountsExact
  BY DEF CountInv
<1> QED
  BY <1>1, <1>2, InitIInv, InitCountInv, PTL DEF Spec

=============================================================================
