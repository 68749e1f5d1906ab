----------------------------- MODULE DLIRS_proof -----------------------------
(***************************************************************************)
(* Proofs about DLIRS for every set of keys, every cache size of at least  *)
(* two, every initial ratio, every hash function and every size of the     *)
(* tables: what holds until a table is given a key that it holds already.  *)
(*                                                                         *)
(* Until then a table is the list of its entries: slots, holes and growth  *)
(* make no difference to what its operations answer.  So the policy is     *)
(* instantiated a second time, on the lists of the tables, as P.           *)
(* The first part proves the invariants of the policy on lists: those of   *)
(* both kinds of client; then, on what the tables hold and what the        *)
(* counters count, of the client that asks again before it requests a key; *)
(* then, on the reference counters, of both again.  The second part shows  *)
(* that every step of DLIRS that stores no key twice is a step on lists,   *)
(* or loses the process, and states what follows for DLIRS.                *)
(***************************************************************************)
EXTENDS DLIRS, FiniteSetTheorems, SequenceTheorems, TLAPS

-----------------------------------------------------------------------------
(* A DequeueHashTable as a list that holds a key at most once              *)

ListEmptyTable == << >>
ListIsEmpty(t) == t = << >>
ListFrontOf(t) == Head(t)
ListPopFront(t) == Tail(t)
ListRefs(t, e) == IF e \in ToSet(t) THEN 1 ELSE 0
ListEmptied(t) == << >>

ListHolds(t, k) == \E i \in DOMAIN t : KeyOf(t[i]) = k
ListPos(t, k) == CHOOSE i \in DOMAIN t : KeyOf(t[i]) = k
ListAt(t, k) == t[ListPos(t, k)]
ListWithout(t, k) == RemoveAt(t, ListPos(t, k))

ListRefuses(t, k) == FALSE
ListMeets(t, k) == ListHolds(t, k)
ListInsertHangs(t, k) == ListHolds(t, k) /\ ListPos(t, k) # Len(t)
ListInsert(t, e) ==
    IF ListHolds(t, KeyOf(e)) THEN [t EXCEPT ![Len(t)] = e] ELSE Append(t, e)

P == INSTANCE DLIRSPolicy
    WITH lirs <- stack, non_resident_hirs <- index, resident_hirs <- resident,
         EmptyTable <- ListEmptyTable, IsEmpty <- ListIsEmpty, FrontOf <- ListFrontOf,
         PopFront <- ListPopFront, Holds <- ListHolds, At <- ListAt, Without <- ListWithout,
         Insert <- ListInsert, Refuses <- ListRefuses, Meets <- ListMeets,
         InsertHangs <- ListInsertHangs, Refs <- ListRefs, Emptied <- ListEmptied

USE DEF ListIsEmpty, ListFrontOf, ListPopFront, ListEmptyTable, ListEmptied, ListMeets,
        ListRefuses

-----------------------------------------------------------------------------
(* The properties, on lists                                                *)

ListTypeOK ==
    /\ stack \in Seq(Entries) /\ index \in Seq(Entries)
    /\ resident \in Seq(Entries)
    /\ hirs_limit \in Int /\ lirs_limit \in Int
    /\ hirs_count \in Counters /\ lirs_count \in Counters
    /\ demoted \in Counters /\ non_resident \in Counters
    /\ entry \in [Entries -> Objects]
    /\ evicted \in Entries \cup {NULL}
    /\ call \in Calls
    /\ pc \in {"idle", "ret", "ask", "destroyed"} \cup P!Loops \cup P!Lost

ListRunning == pc \notin P!Lost \cup {"destroyed"}

ListWithinCapacity ==
    /\ hirs_count + lirs_count <= CacheSize
    /\ Len(resident) <= hirs_count

ListCountersExact ==
    ListRunning => /\ hirs_count = Len(resident)
                   /\ lirs_count = Cardinality(LirEntries)
                   /\ non_resident = Cardinality(NonResident)
                   /\ demoted = Cardinality(DemotedEntries)

ListStackAgrees ==
    ListRunning =>
        /\ KeysOnce(stack) /\ KeysOnce(index) /\ KeysOnce(resident)
        /\ ToSet(index) = {e \in ToSet(stack) : ~entry[e].is_LIR}
        /\ \A a, b \in ToSet(index) :
              Before(index, a, b) => Before(stack, a, b)

ListBottomIsLir ==
    pc \in {"idle", "ask", "eject_lir", "request"} /\ stack # << >>
        => entry[Head(stack)].is_LIR

ListStackExact == ListStackAgrees /\ ListBottomIsLir

ListStackBounded == pc \in {"idle", "ask"} => Len(stack) <= 2 * CacheSize

ListGetAnswersContains ==
    pc = "ret" /\ call.op = "get" => (call.result = "hit" <=> call.contained)

ListNoFatal == pc # "fatal"

ListNothingLeaks == pc = "destroyed" => \A e \in Entries : ~P!Live(e)

ListResident ==
    LET promoted == IF call.entry # NULL /\ call.in_cache THEN {call.key} ELSE {}
    IN  {k \in Keys : P!CacheContains(k)} \cup promoted

ListBounded == INSTANCE BoundedCache
    WITH Capacity <- CacheSize, resident <- ListResident,
         out <- IF evicted = NULL THEN NULL ELSE KeyOf(evicted)

-----------------------------------------------------------------------------
\* The locals that the loops use were set when their call began.
Promoting ==
    pc \in {"eject_lir", "eject_hir"} \/ (pc = "prune" /\ call.back = "eject_lir")
Requesting ==
    pc = "request" \/ (pc = "prune" /\ call.back = "request")

CallOK ==
    /\ Promoting => call.entry \in Entries /\ call.key \in Keys
    /\ Requesting => call.key \in Keys

\* The inductive invariant.  The limits are needed to know that a loop which
\* calls dlirs_evict_lir has a positive lirs_count to decrement, and the
\* length of resident_hirs to know the same of hirs_count.
IInv == ListTypeOK /\ CallOK /\ LimitsPartition /\ ListWithinCapacity

-----------------------------------------------------------------------------
(* Operators                                                               *)

\* A key that a table holds has a position in it, and an entry of that key.
LEMMA AtType ==
    ASSUME NEW t \in Seq(Entries), NEW k, ListHolds(t, k)
    PROVE  ListPos(t, k) \in 1 .. Len(t) /\ KeyOf(ListAt(t, k)) = k /\ ListAt(t, k) \in Entries
BY DEF ListHolds, ListPos, ListAt

\* dqht_remove shortens the table by one.
LEMMA WithoutType ==
    ASSUME NEW t \in Seq(Entries), NEW k, ListHolds(t, k)
    PROVE  ListWithout(t, k) \in Seq(Entries) /\ Len(ListWithout(t, k)) = Len(t) - 1
BY AtType DEF ListWithout, RemoveAt

\* dqht_insert lengthens the table by one, unless it holds the key already.
LEMMA InsertType ==
    ASSUME NEW t \in Seq(Entries), NEW e \in Entries
    PROVE  /\ ListInsert(t, e) \in Seq(Entries)
           /\ Len(ListInsert(t, e)) = IF ListHolds(t, KeyOf(e)) THEN Len(t) ELSE Len(t) + 1
<1>1. CASE ListHolds(t, KeyOf(e))
  <2>1. Len(t) \in DOMAIN t
    BY <1>1, AtType
  <2> QED
    BY <1>1, <2>1 DEF ListInsert
<1>2. CASE ~ListHolds(t, KeyOf(e))
  BY <1>2 DEF ListInsert
<1> QED
  BY <1>1, <1>2

\* Releasing a live object leaves a counter that is not negative.
LEMMA ReleaseType ==
    ASSUME NEW objs \in [Entries -> Objects], NEW e \in Entries, objs[e].rc > 0
    PROVE  /\ P!Release(objs, e) \in [Entries -> Objects]
           /\ P!Release(objs, e)[e].rc = objs[e].rc - 1
           /\ \A x \in Entries : x # e => P!Release(objs, e)[x] = objs[x]
BY DEF P!Release, Objects

\* So does overriding one, where the insertion finds no freed object.
LEMMA OverriddenType ==
    ASSUME NEW objs \in [Entries -> Objects], NEW t \in Seq(Entries), NEW k,
           P!InsertFault(objs, t, k) = "none"
    PROVE  P!Overridden(objs, t, k) \in [Entries -> Objects]
<1>1. CASE ListHolds(t, k)
  <2>1. ListAt(t, k) \in Entries
    BY <1>1, AtType
  <2>2. objs[ListAt(t, k)].rc # 0 /\ objs[ListAt(t, k)].rc \in Nat
    BY <1>1, <2>1 DEF P!InsertFault, Objects
  <2> QED
    BY <1>1, <2>1, <2>2, ReleaseType DEF P!Overridden
<1>2. CASE ~ListHolds(t, k)
  BY <1>2 DEF P!Overridden
<1> QED
  BY <1>1, <1>2

\* An insertion that does not succeed loses the process.
LEMMA InsertFaultType ==
    ASSUME NEW objs, NEW t, NEW k
    PROVE  P!InsertFault(objs, t, k) \in P!Lost \cup {"none"}
BY DEF P!InsertFault, P!Lost

\* No operation on a list is refused.
Faults == {"none", "abort", "hung"}

LEMMA FaultTypes ==
    ASSUME NEW k
    PROVE  /\ \A objs, t : P!InsertFault(objs, t, k) \in Faults
           /\ P!HitLirFault(k) \in Faults /\ P!HirInLirsFault(k) \in Faults
           /\ P!HitHirFault(k) \in Faults /\ P!PruneFault \in Faults
           /\ P!ContainsFault(k) \in Faults /\ P!RequestHirFault(k) \in Faults
           /\ \A objs, t : P!RequestFault(objs, t, k) = P!InsertFault(objs, t, k)
<1>1. \A objs, t : P!InsertFault(objs, t, k) \in Faults
  BY DEF P!InsertFault, Faults
<1>2. \A objs, t : P!RequestFault(objs, t, k) = P!InsertFault(objs, t, k)
  BY DEF P!RequestFault
<1>3. P!HitLirFault(k) \in Faults /\ P!HitHirFault(k) \in Faults /\ P!RequestHirFault(k) \in Faults
  BY <1>1, <1>2 DEF P!HitLirFault, P!HitHirFault, P!RequestHirFault, P!FirstFault, Faults
<1>4. P!HirInLirsFault(k) \in Faults /\ P!PruneFault \in Faults /\ P!ContainsFault(k) \in Faults
  BY DEF P!HirInLirsFault, P!PruneFault, P!ContainsFault, Faults
<1> QED
  BY <1>1, <1>2, <1>3, <1>4

\* A counter stays a size_t, also where it wraps around.
LEMMA DecType ==
    ASSUME NEW n \in Counters
    PROVE  P!Dec(n) \in Counters /\ (n > 0 => P!Dec(n) = n - 1)
BY SizeMaxAssumption DEF P!Dec, Counters

\* It does not wrap around at what a cache counts.
LEMMA IncType ==
    ASSUME NEW n \in Counters
    PROVE  P!Inc(n) \in Counters /\ (n <= 4 * CacheSize => P!Inc(n) = n + 1)
BY SizeMaxAssumption, SizeAssumption DEF P!Inc, Counters

LEMMA PlusIs ==
    ASSUME NEW m \in Nat, NEW n \in Nat, m + n <= CacheSize
    PROVE  P!Plus(m, n) = m + n
BY SizeMaxAssumption, SizeAssumption DEF P!Plus

\* A counter is a natural number.
LEMMA CountersNat == \A n \in Counters : n \in Nat
BY SizeMaxAssumption DEF Counters

\* The condition of the eviction loops, on the numbers that are counted.
LEMMA NoRoomIs ==
    ASSUME ListTypeOK, hirs_count + lirs_count <= CacheSize
    PROVE  P!NoRoom <=> hirs_count + lirs_count >= CacheSize
BY PlusIs, CountersNat DEF P!NoRoom, ListTypeOK

\* A limit moves by at least one.
LEMMA GainType ==
    ASSUME NEW n \in Nat, NEW d \in Nat
    PROVE  Gain(n, d) \in Nat /\ Gain(n, d) >= 1
<1>1. CASE d = 0
  BY <1>1, SizeAssumption DEF Gain
<1>2. CASE d # 0
  <2>1. n \div d \in Int
    BY <1>2
  <2>2. RintHalf(n, d) \in Int
    BY <2>1 DEF RintHalf
  <2> QED
    BY <1>2, <2>2 DEF Gain, AtLeastOne
<1> QED
  BY <1>1, <1>2

\* dlirs_resize keeps both limits positive and their sum the cache size.
LEMMA ResizeLimits ==
    ASSUME hirs_limit \in Int, lirs_limit \in Int, LimitsPartition,
           demoted \in Counters, non_resident \in Counters, NEW ghost \in BOOLEAN, P!Resize(ghost)
    PROVE  hirs_limit' \in Int /\ lirs_limit' \in Int /\ LimitsPartition'
<1>1. /\ Gain(demoted, non_resident) \in Nat /\ Gain(demoted, non_resident) >= 1
      /\ Gain(non_resident, demoted) \in Nat /\ Gain(non_resident, demoted) >= 1
  BY GainType, CountersNat
<1>2. /\ CacheSize \in Nat /\ CacheSize >= 2
      /\ hirs_limit \in Int /\ lirs_limit \in Int
      /\ hirs_limit + lirs_limit = CacheSize /\ hirs_limit >= 1 /\ lirs_limit >= 1
  BY SizeAssumption DEF LimitsPartition
<1>3. CASE ghost
  <2>1. /\ hirs_limit' = P!AtMost(CacheSize - 1, hirs_limit + Gain(demoted, non_resident))
        /\ lirs_limit' = CacheSize - hirs_limit'
    BY <1>3 DEF P!Resize
  <2> QED
    BY <1>1, <1>2, <2>1 DEF LimitsPartition, P!AtMost
<1>4. CASE ~ghost
  <2>1. /\ lirs_limit' = P!AtMost(CacheSize - 1, lirs_limit + Gain(non_resident, demoted))
        /\ hirs_limit' = CacheSize - lirs_limit'
    BY <1>4 DEF P!Resize
  <2> QED
    BY <1>1, <1>2, <2>1 DEF LimitsPartition, P!AtMost
<1> QED
  BY <1>3, <1>4

-----------------------------------------------------------------------------
(* Steps                                                                   *)

\* A process that is lost keeps what it had.
LEMMA LostKeeps ==
    ASSUME IInv, pc' \in P!Lost, UNCHANGED <<P!data, call>>
    PROVE  IInv'
BY DEF IInv, ListTypeOK, CallOK, Promoting, Requesting, LimitsPartition, ListWithinCapacity,
    P!Lost, P!Loops, P!data,
       P!tables, P!limits, P!counters

\* dlirs_contains answers true or false.
LEMMA ContainsBoolean == ASSUME NEW k PROVE P!CacheContains(k) \in BOOLEAN
BY DEF P!CacheContains

\* A call starts with the locals of its type.
LEMMA BeginType ==
    ASSUME NEW op \in {"get", "request"}, NEW k \in Keys
    PROVE  /\ P!NoCall \in Calls /\ P!Begin(op, k) \in Calls
           /\ P!Begin(op, k).key = k /\ P!Begin(op, k).back = "ret"
BY ContainsBoolean DEF P!Begin, P!NoCall, Calls

\* Assigning to a field keeps the type of a record.
LEMMA CallUpdate ==
    ASSUME NEW c \in Calls
    PROVE  /\ \A r \in {"none", "hit", "null", "0"} : [c EXCEPT !.result = r] \in Calls
           /\ \A n \in Nat : [c EXCEPT !.size = n] \in Calls
           /\ \A e \in Entries : [c EXCEPT !.entry = e] \in Calls
           /\ \A b \in BOOLEAN : [c EXCEPT !.in_cache = b] \in Calls
           /\ \A b \in {"ret", "eject_lir", "request"} : [c EXCEPT !.back = b] \in Calls
BY DEF Calls

\* What the policy does to the flags of an entry keeps its type.
LEMMA ObjectTypes ==
    ASSUME NEW o \in Objects
    PROVE  /\ P!Copied(o) \in Objects /\ P!Copied(o).rc = o.rc + 2
           /\ P!Demoted(o) \in Objects /\ P!Demoted(o).rc = o.rc
           /\ \A b \in BOOLEAN : P!Evicted(o, b) \in Objects /\ P!Evicted(o, b).rc = o.rc
<1>1. P!Copied(o) \in Objects /\ P!Copied(o).rc = o.rc + 2
  <2>1. \A n \in Nat : /\ [o EXCEPT !.is_demoted = FALSE, !.rc = n] \in Objects
                       /\ [o EXCEPT !.is_demoted = FALSE, !.rc = n].rc = n
    BY DEF Objects
  <2>2. o.rc + 2 \in Nat
    BY DEF Objects
  <2> QED
    BY <2>1, <2>2, Zenon DEF P!Copied
<1>2. P!Demoted(o) \in Objects /\ P!Demoted(o).rc = o.rc
  BY DEF Objects, P!Demoted
<1>3. ASSUME NEW b \in BOOLEAN
      PROVE  P!Evicted(o, b) \in Objects /\ P!Evicted(o, b).rc = o.rc
  <2>1. /\ [o EXCEPT !.in_cache = TRUE, !.is_demoted = FALSE] \in Objects
        /\ [o EXCEPT !.in_cache = TRUE, !.is_demoted = FALSE].rc = o.rc
        /\ [o EXCEPT !.in_cache = FALSE, !.is_demoted = FALSE] \in Objects
        /\ [o EXCEPT !.in_cache = FALSE, !.is_demoted = FALSE].rc = o.rc
    BY DEF Objects
  <2>2. (o.in_cache /\ ~b) = TRUE \/ (o.in_cache /\ ~b) = FALSE
    OBVIOUS
  <2> QED
    BY <2>1, <2>2 DEF P!Evicted
<1> QED
  BY <1>1, <1>2, <1>3

\* dlirs_limit_stack drops a whole number of entries.
LEMMA PruneSizeType ==
    ASSUME ListTypeOK, NEW h \in Counters
    PROVE  P!PruneSize(h) \in Nat
<1>1. \A n \in Counters : P!AsInt(n) \in Int
  BY SizeMaxAssumption DEF P!AsInt, Counters
<1>2. P!AsInt(h) \in Int /\ P!AsInt(lirs_count) \in Int /\ P!AsInt(non_resident) \in Int
  BY <1>1 DEF ListTypeOK
<1> QED
  BY <1>2, SizeAssumption DEF P!PruneSize

\* dlirs_hit_lir
LEMMA HitLirKeeps ==
    ASSUME IInv, NEW k \in Keys, ListHolds(stack, k),
           P!InsertFault(entry, ListWithout(stack, k), k) = "none", P!HitLir(k)
    PROVE  IInv'
<1>1. /\ ListWithout(stack, k) \in Seq(Entries) /\ ListAt(stack, k) \in Entries
      /\ entry \in [Entries -> Objects]
  BY AtType, WithoutType DEF IInv, ListTypeOK
<1>2. stack' \in Seq(Entries)
  BY <1>1, InsertType DEF P!HitLir
<1>3. entry' \in [Entries -> Objects]
  BY <1>1, OverriddenType DEF P!HitLir
<1>4. call' \in Calls /\ call'.back = "ret"
  BY BeginType DEF P!HitLir, Calls
<1>5. pc' \in {"prune", "ret"}
  BY DEF P!HitLir
<1>6. UNCHANGED <<index, resident, hirs_limit, lirs_limit, hirs_count, lirs_count,
                  demoted, non_resident, evicted>>
  BY DEF P!HitLir, P!limits, P!counters
<1> QED
  BY <1>2, <1>3, <1>4, <1>5, <1>6
  DEF IInv, ListTypeOK, CallOK, Promoting, Requesting, LimitsPartition, ListWithinCapacity,
      P!Loops

\* dlirs_hir_in_lirs up to its loops
LEMMA HirInLirsKeeps ==
    ASSUME IInv, NEW k \in Keys, ListHolds(stack, k), P!HirInLirsFault(k) = "none", P!HirInLirs(k)
    PROVE  IInv'
<1> DEFINE e == ListAt(stack, k)
           h == ListAt(index, k)
           r == ListAt(resident, k)
<1>1. e \in Entries /\ stack' \in Seq(Entries)
  BY AtType, WithoutType DEF IInv, ListTypeOK, P!HirInLirs
<1>2. ListHolds(index, k) /\ entry[h].rc > 0
  BY DEF P!HirInLirsFault, P!Live
<1>3. h \in Entries /\ index' \in Seq(Entries)
  BY <1>2, AtType, WithoutType DEF IInv, ListTypeOK, P!HirInLirs
<1>4. P!Unstacked(k) \in [Entries -> Objects]
  <2>1. [entry EXCEPT ![e].is_LIR = TRUE] \in [Entries -> Objects]
    BY <1>1 DEF IInv, ListTypeOK, Objects
  <2>2. [entry EXCEPT ![e].is_LIR = TRUE][h].rc > 0
    BY <1>1, <1>2, <1>3 DEF IInv, ListTypeOK, Objects
  <2> QED
    BY <1>3, <2>1, <2>2, ReleaseType DEF P!Unstacked
<1>5. call' \in Calls /\ call'.entry \in Entries /\ call'.key \in Keys /\ pc' = "eject_lir"
  <2>1. entry[e].in_cache \in BOOLEAN
    BY <1>1 DEF IInv, ListTypeOK, Objects
  <2> QED
    <3>1. [P!Begin("get", k) EXCEPT !.entry = e] \in Calls
      BY <1>1, BeginType, CallUpdate
    <3>2. call' \in Calls
      BY <2>1, <3>1, CallUpdate DEF P!HirInLirs
    <3>3. call'.entry = e /\ call'.key = k
      BY BeginType DEF P!HirInLirs, Calls
    <3> QED
      BY <1>1, <3>2, <3>3 DEF P!HirInLirs
<1>6. CASE entry[e].in_cache
  <2>1. ListHolds(resident, k) /\ P!Unstacked(k)[r].rc > 0
    BY <1>6 DEF P!HirInLirsFault
  <2>2. /\ r \in Entries /\ resident' \in Seq(Entries)
        /\ Len(resident') = Len(resident) - 1 /\ Len(resident) >= 1
    <3>1. resident \in Seq(Entries) /\ ListHolds(resident, k)
      BY <2>1 DEF IInv, ListTypeOK
    <3>2. resident' = ListWithout(resident, k)
      BY <1>6 DEF P!HirInLirs
    <3> QED
      BY <3>1, <3>2, AtType, WithoutType
  <2>3. entry' \in [Entries -> Objects]
    BY <1>4, <1>6, <2>1, <2>2, ReleaseType DEF P!HirInLirs
  <2>4. hirs_count > 0 /\ hirs_count' = hirs_count - 1 /\ hirs_count' \in Counters
    BY <1>6, <2>2, DecType, CountersNat DEF IInv, ListTypeOK, ListWithinCapacity, P!HirInLirs
  <2>5. UNCHANGED <<P!limits, non_resident, lirs_count, demoted, evicted>>
    BY <1>6 DEF P!HirInLirs
  <2>6. LimitsPartition' /\ ListWithinCapacity'
    BY <2>2, <2>4, <2>5, SizeAssumption, CountersNat
    DEF IInv, ListTypeOK, LimitsPartition, ListWithinCapacity, P!limits
  <2> QED
    BY <1>1, <1>3, <1>5, <2>2, <2>3, <2>4, <2>5, <2>6
    DEF IInv, ListTypeOK, CallOK, Promoting, Requesting, P!Loops, P!limits
<1>7. CASE ~entry[e].in_cache
  <2>1. hirs_limit' \in Int /\ lirs_limit' \in Int /\ LimitsPartition'
    BY <1>7, ResizeLimits DEF IInv, ListTypeOK, P!HirInLirs
  <2>2. entry' \in [Entries -> Objects]
    BY <1>1, <1>4, <1>7 DEF P!HirInLirs, Objects
  <2>3. non_resident' \in Counters
    BY <1>7, DecType DEF IInv, ListTypeOK, P!HirInLirs
  <2> QED
    BY <1>1, <1>3, <1>5, <1>7, <2>1, <2>2, <2>3
    DEF IInv, ListTypeOK, CallOK, Promoting, Requesting, ListWithinCapacity, P!HirInLirs,
        P!Loops
<1> QED
  BY <1>6, <1>7

\* dlirs_hit_hir_in_resident_hirs
LEMMA HitHirKeeps ==
    ASSUME IInv, NEW k \in Keys, ListHolds(resident, k),
           P!InsertFault(entry, resident, k) = "none",
           P!InsertFault(entry, index, k) = "none",
           P!HitHirInResidentHirs(k)
    PROVE  IInv'
<1> DEFINE e == ListAt(resident, k)
           copied == [entry EXCEPT ![e] = P!Copied(entry[e])]
           released == P!Overridden(copied, resident, k)
<1>1. e \in Entries /\ KeyOf(e) = k
  BY AtType DEF IInv, ListTypeOK
<1>2. /\ copied \in [Entries -> Objects] /\ copied[e].rc = entry[e].rc + 2
      /\ \A x \in Entries : x # e => copied[x] = entry[x]
      /\ \A x \in Entries : entry[x].rc \in Nat
  <2>1. entry[e] \in Objects /\ entry \in [Entries -> Objects]
    BY <1>1 DEF IInv, ListTypeOK
  <2>2. \A x \in Entries : entry[x].rc \in Nat
    BY <2>1 DEF Objects
  <2> QED
    BY <1>1, <2>1, <2>2, ObjectTypes
<1>3. released \in [Entries -> Objects] /\ \A x \in Entries : released[x].rc >= entry[x].rc
  <2>1. released = P!Release(copied, e)
    BY DEF P!Overridden
  <2> HIDE DEF copied, released
  <2>2. /\ released \in [Entries -> Objects]
        /\ released[e].rc = copied[e].rc - 1
        /\ \A x \in Entries : x # e => released[x] = copied[x]
    BY <1>1, <1>2, <2>1, ReleaseType
  <2> QED
    BY <1>1, <1>2, <2>2
<1>4. P!InsertFault(released, index, k) = "none"
  <2>1. CASE ListHolds(index, k)
    <3>1. ListAt(index, k) \in Entries
      BY <2>1, AtType DEF IInv, ListTypeOK
    <3>2. entry[ListAt(index, k)].rc # 0 /\ entry[ListAt(index, k)].rc \in Nat
      BY <2>1, <3>1 DEF P!InsertFault, IInv, ListTypeOK, Objects
    <3> HIDE DEF released
    <3>3. released[ListAt(index, k)].rc # 0
      BY <1>3, <3>1, <3>2 DEF Objects
    <3> QED
      BY <3>3 DEF P!InsertFault
  <2>2. CASE ~ListHolds(index, k)
    BY <2>2 DEF P!InsertFault, ListInsertHangs
  <2> QED
    BY <2>1, <2>2
<1>5. entry' \in [Entries -> Objects]
  <2>1. entry' = P!Overridden(released, index, k)
    BY DEF P!HitHirInResidentHirs
  <2> HIDE DEF released
  <2> QED
    BY <1>3, <1>4, <2>1, OverriddenType DEF IInv, ListTypeOK
<1>6. /\ stack' \in Seq(Entries) /\ index' \in Seq(Entries)
      /\ resident' \in Seq(Entries) /\ Len(resident') = Len(resident)
  BY <1>1, InsertType DEF P!HitHirInResidentHirs, IInv, ListTypeOK
<1>7. call' \in Calls /\ pc' = "limit"
  <2>1. P!PruneSize(hirs_count) \in Nat
    BY PruneSizeType DEF IInv, ListTypeOK
  <2> QED
    BY <2>1, BeginType, CallUpdate DEF P!HitHirInResidentHirs
<1>8. hirs_limit' \in Int /\ lirs_limit' \in Int /\ LimitsPartition' /\ demoted' \in Counters
  <2>1. CASE entry[e].is_demoted
    BY <2>1, ResizeLimits, DecType DEF P!HitHirInResidentHirs, IInv, ListTypeOK
  <2>2. CASE ~entry[e].is_demoted
    BY <2>2 DEF P!HitHirInResidentHirs, IInv, ListTypeOK, LimitsPartition, P!limits
  <2> QED
    BY <2>1, <2>2
<1> QED
  BY <1>5, <1>6, <1>7, <1>8
  DEF IInv, ListTypeOK, CallOK, Promoting, Requesting, ListWithinCapacity,
      P!HitHirInResidentHirs, P!Loops

\* The table's own reference of a live process: Head and Tail of a table
LEMMA FrontType ==
    ASSUME NEW t \in Seq(Entries), t # << >>
    PROVE  /\ Head(t) \in Entries /\ Tail(t) \in Seq(Entries)
           /\ Len(Tail(t)) = Len(t) - 1 /\ Len(t) >= 1
OBVIOUS

\* dlirs_get, whatever it finds
LEMMA StartGetKeeps ==
    ASSUME IInv, NEW k \in Keys, P!StartGet(k)
    PROVE  IInv'
<1>1. CASE ListHolds(stack, k)
  <2>0. P!GetLirs(k)
    BY <1>1 DEF P!StartGet
  <2>1. CASE ~P!Live(ListAt(stack, k))
    BY <2>0, <2>1, LostKeeps DEF P!GetLirs, P!Unless, P!Lost
  <2>2. CASE P!Live(ListAt(stack, k)) /\ entry[ListAt(stack, k)].is_LIR
    <3> DEFINE f == P!InsertFault(entry, ListWithout(stack, k), k)
    <3>1. P!Unless(P!HitLirFault(k), P!HitLir(k))
      BY <2>0, <2>2 DEF P!GetLirs
    <3>2. f \in P!Lost \cup {"none"}
      BY InsertFaultType
    <3>3. CASE P!HitLirFault(k) = "none"
      <4>1. f = "none"
        BY <3>3 DEF P!HitLirFault, P!FirstFault
      <4> QED
        BY <1>1, <3>1, <3>3, <4>1, HitLirKeeps DEF P!Unless
    <3>4. CASE P!HitLirFault(k) # "none"
      <4>1. P!HitLirFault(k) \in P!Lost
        BY <3>2, <3>4 DEF P!HitLirFault, P!FirstFault, P!Lost
      <4> QED
        BY <3>1, <3>4, <4>1, LostKeeps DEF P!Unless
    <3> QED
      BY <3>3, <3>4
  <2>3. CASE P!Live(ListAt(stack, k)) /\ ~entry[ListAt(stack, k)].is_LIR
    <3>1. P!Unless(P!HirInLirsFault(k), P!HirInLirs(k))
      BY <2>0, <2>3 DEF P!GetLirs
    <3>2. P!HirInLirsFault(k) \in {"none", "abort"}
      BY DEF P!HirInLirsFault
    <3>3. CASE P!HirInLirsFault(k) = "none"
      BY <1>1, <3>1, <3>3, HirInLirsKeeps DEF P!Unless
    <3>4. CASE P!HirInLirsFault(k) = "abort"
      BY <3>1, <3>4, LostKeeps DEF P!Unless, P!Lost
    <3> QED
      BY <3>2, <3>3, <3>4
  <2> QED
    BY <2>1, <2>2, <2>3
<1>2. CASE ~ListHolds(stack, k) /\ ListHolds(resident, k)
  <2>1. P!Unless(P!HitHirFault(k), P!HitHirInResidentHirs(k))
    BY <1>2 DEF P!StartGet
  <2>2. P!HitHirFault(k) \in P!Lost \cup {"none"}
    BY InsertFaultType DEF P!HitHirFault, P!FirstFault, P!Lost
  <2>3. CASE P!HitHirFault(k) = "none"
    <3>1. /\ P!InsertFault(entry, resident, k) = "none"
          /\ P!InsertFault(entry, index, k) = "none"
      BY <2>3 DEF P!HitHirFault, P!FirstFault
    <3> QED
      BY <1>2, <2>1, <2>3, <3>1, HitHirKeeps DEF P!Unless
  <2>4. CASE P!HitHirFault(k) # "none"
    BY <2>1, <2>2, <2>4, LostKeeps DEF P!Unless
  <2> QED
    BY <2>3, <2>4
<1>3. CASE ~ListHolds(stack, k) /\ ~ListHolds(resident, k)
  <2>1. P!GetMiss(k)
    BY <1>3 DEF P!StartGet
  <2>2. call' \in Calls /\ pc' = "ret"
    BY <2>1, BeginType, CallUpdate DEF P!GetMiss
  <2> QED
    BY <2>1, <2>2
    DEF IInv, ListTypeOK, CallOK, Promoting, Requesting, LimitsPartition, ListWithinCapacity,
        P!GetMiss,
       P!data, P!tables, P!limits, P!counters
<1> QED
  BY <1>1, <1>2, <1>3

\* One iteration of dlirs_prune
LEMMA PruneKeeps ==
    ASSUME IInv, P!Prune
    PROVE  IInv'
<1> DEFINE e == Head(stack)
           k == KeyOf(e)
           s == ListAt(stack, k)
           once == P!Release(entry, s)
           h == ListAt(index, k)
<1>1. CASE pc' = call.back /\ UNCHANGED <<P!data, call>>
  BY <1>1
  DEF P!Prune, IInv, ListTypeOK, CallOK, Promoting, Requesting, LimitsPartition,
      ListWithinCapacity, P!Loops, Calls,
     P!data, P!tables, P!limits, P!counters
<1>2. CASE pc' = "abort" /\ UNCHANGED <<P!data, call>>
  BY <1>2, LostKeeps DEF P!Lost
<1>3. CASE stack # << >> /\ P!Live(e) /\ P!PruneFault = "none" /\ P!PruneFront
  <2>1. s \in Entries /\ stack' \in Seq(Entries)
    <3>1. stack \in Seq(Entries) /\ ListHolds(stack, k)
      BY <1>3 DEF IInv, ListTypeOK, ListHolds
    <3> QED
      BY <1>3, <3>1, AtType, WithoutType DEF P!PruneFront
  <2>2. once \in [Entries -> Objects]
    BY <1>3, <2>1, ReleaseType DEF IInv, ListTypeOK, P!Live, P!PruneFault
  <2>3. index' \in Seq(Entries) /\ entry' \in [Entries -> Objects]
    <3>1. CASE ListHolds(index, k)
      <4>1. once[h].rc > 0
        BY <1>3, <3>1 DEF P!PruneFault
      <4>2. h \in Entries
        BY <3>1, AtType DEF IInv, ListTypeOK
      <4>3. entry' = P!Release(once, h) /\ index' = ListWithout(index, k)
        BY <1>3, <3>1 DEF P!PruneFront, P!Forgotten
      <4> HIDE DEF once, h
      <4> QED
        BY <2>2, <3>1, <4>1, <4>2, <4>3, ReleaseType, WithoutType DEF IInv, ListTypeOK
    <3>2. CASE ~ListHolds(index, k)
      BY <1>3, <2>2, <3>2 DEF P!PruneFront, P!Forgotten, IInv, ListTypeOK
    <3> QED
      BY <3>1, <3>2
  <2>4. non_resident' \in Counters
    BY <1>3, DecType DEF P!PruneFront, P!LeftStack, IInv, ListTypeOK
  <2> QED
    BY <1>3, <2>1, <2>3, <2>4
    DEF IInv, ListTypeOK, CallOK, Promoting, Requesting, LimitsPartition, ListWithinCapacity,
       P!PruneFront, P!limits
<1> QED
  BY <1>1, <1>2, <1>3 DEF P!Prune, P!Unless, P!PruneFault

\* dlirs_evict_lir, called while lirs_count is positive
LEMMA EvictLirKeeps ==
    ASSUME IInv, NEW back \in {"eject_lir", "request"}, pc = back, lirs_count > 0,
           P!EvictLir(back)
    PROVE  IInv'
<1> DEFINE e == Head(stack)
           k == KeyOf(e)
           objs == [entry EXCEPT ![e] = P!Demoted(entry[e])]
<1>1. CASE stack = << >>
  BY <1>1
  DEF P!EvictLir, P!vars, P!data, P!tables, P!limits, P!counters, IInv, ListTypeOK, CallOK,
      Promoting, Requesting,
     LimitsPartition, ListWithinCapacity
<1>2. CASE stack # << >> /\ ~P!Live(e)
  BY <1>2, LostKeeps DEF P!EvictLir, P!Unless, P!Lost
<1>3. CASE stack # << >> /\ P!Live(e) /\ P!InsertFault(entry, resident, k) # "none"
  BY <1>3, LostKeeps, InsertFaultType DEF P!EvictLir, P!Unless
<1>4. CASE stack # << >> /\ P!Live(e) /\ P!InsertFault(entry, resident, k) = "none"
  <2>1. P!DemoteFront(back)
    BY <1>4 DEF P!EvictLir, P!Unless
  <2>2. e \in Entries /\ stack' \in Seq(Entries)
    BY <1>4, <2>1, FrontType DEF IInv, ListTypeOK, P!DemoteFront
  <2>3. /\ objs \in [Entries -> Objects]
        /\ \A x \in Entries : objs[x].rc = entry[x].rc
    BY <2>2, ObjectTypes DEF IInv, ListTypeOK
  <2>4. P!InsertFault(objs, resident, k) = "none"
    <3>1. ListHolds(resident, k) => ListAt(resident, k) \in Entries
      BY AtType DEF IInv, ListTypeOK
    <3> HIDE DEF objs, k
    <3> QED
      BY <1>4, <2>3, <3>1 DEF P!InsertFault
  <2>5. entry' \in [Entries -> Objects]
    <3>1. entry' = P!Overridden(objs, resident, k)
      BY <2>1 DEF P!DemoteFront
    <3> HIDE DEF objs, k
    <3> QED
      BY <2>3, <2>4, <3>1, OverriddenType DEF IInv, ListTypeOK
  <2>6. resident' \in Seq(Entries) /\ Len(resident') <= Len(resident) + 1
    <3>1. resident' = ListInsert(resident, e) /\ resident \in Seq(Entries)
      BY <2>1 DEF IInv, ListTypeOK, P!DemoteFront
    <3>2. Len(ListInsert(resident, e)) \in {Len(resident), Len(resident) + 1}
      BY <2>2, <3>1, InsertType
    <3> QED
      BY <2>2, <3>1, <3>2, InsertType
  <2>7. lirs_count' = lirs_count - 1 /\ lirs_count' \in Counters
    BY <2>1, DecType DEF IInv, ListTypeOK, P!DemoteFront
  <2>8. call' \in Calls /\ call'.back = back /\ call'.entry = call.entry /\ call'.key = call.key
    <3>1. call \in Calls /\ call' = [call EXCEPT !.back = back]
      BY <2>1 DEF IInv, ListTypeOK, P!DemoteFront
    <3> QED
      BY <3>1, CallUpdate DEF Calls
  <2>9. /\ pc' = "prune" /\ demoted' \in Counters
        /\ hirs_count' = hirs_count + 1
        /\ hirs_count' \in Counters
        /\ UNCHANGED <<index, hirs_limit, lirs_limit, non_resident, evicted>>
    <3>1. hirs_count <= 4 * CacheSize /\ hirs_count \in Counters /\ demoted \in Counters
      BY CountersNat, SizeAssumption DEF IInv, ListTypeOK, ListWithinCapacity
    <3> QED
      BY <2>1, <3>1, IncType DEF P!DemoteFront, P!limits
  <2>10. ListWithinCapacity' /\ LimitsPartition'
    BY <2>6, <2>7, <2>9, SizeAssumption, CountersNat
    DEF IInv, ListTypeOK, LimitsPartition, ListWithinCapacity
  <2>11. CallOK'
    BY <2>8, <2>9 DEF IInv, CallOK, Promoting, Requesting
  <2> QED
    BY <2>2, <2>5, <2>6, <2>7, <2>8, <2>9, <2>10, <2>11 DEF IInv, ListTypeOK, P!Loops
<1> QED
  BY <1>1, <1>2, <1>3, <1>4

\* dlirs_evict_resident_hir
LEMMA EvictResidentHirKeeps ==
    ASSUME IInv, P!EvictResidentHir
    PROVE  IInv'
<1> DEFINE e == Head(resident)
<1>1. CASE resident = << >>
  BY <1>1
  DEF P!EvictResidentHir, P!tables, P!limits, P!counters, IInv, ListTypeOK, CallOK, Promoting,
      Requesting,
     LimitsPartition, ListWithinCapacity
<1>2. CASE resident # << >> /\ ~P!Live(e)
  BY <1>2, LostKeeps DEF P!EvictResidentHir, P!Unless, P!Lost
<1>3. CASE resident # << >> /\ P!Live(e)
  <2>1. P!TakeFront
    BY <1>3 DEF P!EvictResidentHir, P!Unless
  <2>2. /\ e \in Entries /\ resident' \in Seq(Entries)
        /\ Len(resident') = Len(resident) - 1 /\ Len(resident) >= 1
    BY <1>3, <2>1, FrontType DEF IInv, ListTypeOK, P!TakeFront
  <2>3. entry' \in [Entries -> Objects]
    <3>1. ListHolds(stack, KeyOf(e)) \in BOOLEAN
      BY DEF ListHolds
    <3>2. P!Evicted(entry[e], ListHolds(stack, KeyOf(e))) \in Objects
      BY <2>2, <3>1, ObjectTypes DEF IInv, ListTypeOK
    <3> QED
      BY <2>1, <2>2, <3>2 DEF IInv, ListTypeOK, P!TakeFront
  <2>4. non_resident' \in Counters /\ demoted' \in Counters
    BY <2>1, DecType, IncType DEF IInv, ListTypeOK, P!TakeFront, P!LeftResidentHirs
  <2>5. hirs_count' = hirs_count - 1 /\ hirs_count' \in Counters
    BY <2>1, <2>2, DecType, CountersNat DEF IInv, ListTypeOK, ListWithinCapacity, P!TakeFront
  <2>6. evicted' \in Entries
    BY <2>1, <2>2 DEF P!TakeFront
  <2>7. UNCHANGED <<stack, index, hirs_limit, lirs_limit, lirs_count, call, pc>>
    BY <2>1 DEF P!TakeFront, P!limits
  <2> QED
    BY <2>2, <2>3, <2>4, <2>5, <2>6, <2>7, SizeAssumption, CountersNat
    DEF IInv, ListTypeOK, CallOK, Promoting, Requesting, LimitsPartition, ListWithinCapacity
<1> QED
  BY <1>1, <1>2, <1>3

\* The loops of dlirs_hir_in_lirs
LEMMA EjectKeeps ==
    ASSUME IInv, P!EjectLir \/ P!EjectHir
    PROVE  IInv'
<1>1. CASE P!EjectLir /\ lirs_count >= lirs_limit
  <2>1. lirs_count > 0
    BY <1>1, SizeAssumption, CountersNat DEF IInv, ListTypeOK, LimitsPartition
  <2> QED
    BY <1>1, <2>1, EvictLirKeeps DEF P!EjectLir
<1>2. CASE P!EjectLir /\ ~(lirs_count >= lirs_limit)
  BY <1>2
  DEF P!EjectLir, IInv, ListTypeOK, CallOK, Promoting, Requesting, LimitsPartition,
      ListWithinCapacity, P!data,
     P!tables, P!limits, P!counters, P!Loops
<1>3. CASE P!EjectHir /\ P!NoRoom
  BY <1>3, EvictResidentHirKeeps DEF P!EjectHir
<1>4. CASE P!EjectHir /\ ~P!NoRoom /\ P!InsertFault(entry, stack, call.key) # "none"
  BY <1>4, LostKeeps, InsertFaultType DEF P!EjectHir, P!Unless
<1>5. CASE P!EjectHir /\ ~P!NoRoom /\ P!InsertFault(entry, stack, call.key) = "none"
  <2>1. P!Reinsert /\ pc = "eject_hir"
    BY <1>5 DEF P!EjectHir, P!Unless
  <2>2. call.entry \in Entries
    BY <2>1 DEF IInv, CallOK, Promoting
  <2>3. entry' \in [Entries -> Objects] /\ stack' \in Seq(Entries)
    BY <1>5, <2>1, <2>2, OverriddenType, InsertType DEF P!Reinsert, IInv, ListTypeOK
  <2>4. call' \in Calls /\ pc' = "ret"
    <3>1. P!Answer(call.in_cache) \in {"hit", "null"}
      BY DEF P!Answer
    <3> QED
      BY <2>1, <3>1, CallUpdate DEF P!Reinsert, IInv, ListTypeOK
  <2>5. hirs_count + lirs_count < CacheSize
    BY <1>5, SizeAssumption, NoRoomIs, CountersNat DEF IInv, ListTypeOK, ListWithinCapacity
  <2>6. /\ lirs_count' = lirs_count + 1 /\ lirs_count \in Nat /\ hirs_count \in Nat
        /\ UNCHANGED <<hirs_count, hirs_limit, lirs_limit, resident, index, evicted>>
        /\ UNCHANGED <<demoted, non_resident>> /\ lirs_count' \in Counters
    <3>1. /\ lirs_count \in Counters /\ hirs_count \in Nat /\ lirs_count \in Nat
          /\ lirs_count <= 4 * CacheSize
      BY <2>5, CountersNat, SizeAssumption DEF IInv, ListTypeOK
    <3> QED
      BY <2>1, <3>1, IncType DEF P!Reinsert, P!limits
  <2>7. hirs_count' + lirs_count' <= CacheSize
    BY <2>5, <2>6, SizeAssumption
  <2>8. ListTypeOK'
    BY <2>3, <2>4, <2>6, <2>7 DEF IInv, ListTypeOK
  <2>9. CallOK'
    BY <2>4, <2>6 DEF IInv, CallOK, Promoting, Requesting
  <2>10. LimitsPartition' /\ ListWithinCapacity'
    BY <2>6, <2>7 DEF IInv, LimitsPartition, ListWithinCapacity
  <2> QED
    BY <2>8, <2>9, <2>10 DEF IInv
<1> QED
  BY <1>1, <1>2, <1>3, <1>4, <1>5

\* One iteration of dlirs_limit_stack
LEMMA LimitStackKeeps ==
    ASSUME IInv, P!LimitStack
    PROVE  IInv'
<1> DEFINE e == Head(index)
           s == ListAt(stack, KeyOf(e))
           once == P!Release(entry, s)
<1>1. CASE ~(call.size > 0)
  BY <1>1 DEF P!LimitStack, IInv, ListTypeOK, CallOK, Promoting, Requesting, LimitsPartition,
     ListWithinCapacity, P!data, P!tables, P!limits, P!counters
<1>2. CASE call.size > 0 /\ P!DropFault # "none"
  BY <1>2, LostKeeps DEF P!LimitStack, P!Unless, P!DropFault, P!Lost
<1>3. CASE call.size > 0 /\ P!DropFault = "none"
  <2>1. P!DropOldest /\ pc = "limit"
    BY <1>3 DEF P!LimitStack, P!Unless
  <2>2. /\ index # << >> /\ ListHolds(stack, KeyOf(e))
        /\ entry[s].rc > 0 /\ once[e].rc > 0
    BY <1>3 DEF P!DropFault, P!Live
  <2>3. e \in Entries /\ index' \in Seq(Entries)
    BY <2>1, <2>2, FrontType DEF IInv, ListTypeOK, P!DropOldest
  <2>4. s \in Entries /\ stack' \in Seq(Entries)
    BY <2>1, <2>2, AtType, WithoutType DEF IInv, ListTypeOK, P!DropOldest
  <2>5. once \in [Entries -> Objects]
    BY <2>2, <2>4, ReleaseType DEF IInv, ListTypeOK
  <2>6. entry' \in [Entries -> Objects]
    <3>1. entry' = P!Release(once, e)
      BY <2>1 DEF P!DropOldest
    <3> HIDE DEF once, e
    <3> QED
      BY <2>2, <2>3, <2>5, <3>1, ReleaseType
  <2>7. non_resident' \in Counters
    BY <2>1, DecType DEF P!DropOldest, P!LeftStack, IInv, ListTypeOK
  <2>8. call' \in Calls
    <3>1. call \in Calls /\ call.size - 1 \in Nat /\ call' = [call EXCEPT !.size = call.size - 1]
      BY <1>3, <2>1 DEF IInv, ListTypeOK, P!DropOldest, Calls
    <3> QED
      BY <3>1, CallUpdate
  <2>9. UNCHANGED <<resident, hirs_limit, lirs_limit, hirs_count, lirs_count, demoted,
                    evicted, pc>>
    BY <2>1 DEF P!DropOldest, P!limits
  <2> QED
    BY <2>1, <2>3, <2>4, <2>6, <2>7, <2>8, <2>9
    DEF IInv, ListTypeOK, CallOK, Promoting, Requesting, LimitsPartition, ListWithinCapacity
<1> QED
  BY <1>1, <1>2, <1>3

\* The memory a request takes is an object of the requested key.
LEMMA NewEntryType ==
    ASSUME NEW k \in Keys, P!FreeNames(k) # {}
    PROVE  P!NewEntry(k) \in Entries
<1>1. P!NewEntry(k) \in P!FreeNames(k)
  BY DEF P!NewEntry
<1> QED
  BY <1>1 DEF P!FreeNames, Entries

\* A new entry has the type of an object.
LEMMA CreatedType ==
    ASSUME NEW b \in BOOLEAN, NEW n \in Nat
    PROVE  P!Created(b, n) \in Objects
BY DEF P!Created, Objects

\* dlirs_request up to its loops
LEMMA StartRequestKeeps ==
    ASSUME IInv, NEW k \in Keys, P!StartRequest(k)
    PROVE  IInv'
<1>1. CASE ~(lirs_count < lirs_limit /\ hirs_count = 0)
  <2>1. /\ call' = [P!Begin("request", k) EXCEPT !.result = "0"]
        /\ pc' = "request" /\ UNCHANGED P!data
    BY <1>1 DEF P!StartRequest
  <2>2. call' \in Calls /\ call'.key = k
    <3> DEFINE c == P!Begin("request", k)
    <3>1. c \in Calls /\ c.key = k /\ call' = [c EXCEPT !.result = "0"]
      BY <2>1, BeginType
    <3> HIDE DEF c
    <3> QED
      BY <3>1, CallUpdate DEF Calls
  <2> QED
    BY <2>1, <2>2 DEF IInv, ListTypeOK, CallOK, Promoting, Requesting, LimitsPartition,
       ListWithinCapacity, P!data, P!tables, P!limits, P!counters, P!Loops
<1>2. CASE lirs_count < lirs_limit /\ hirs_count = 0
           /\ P!InsertFault(entry, stack, k) # "none"
  BY <1>2, LostKeeps, InsertFaultType DEF P!StartRequest, P!Unless, P!RequestFault
<1>3. CASE lirs_count < lirs_limit /\ hirs_count = 0
           /\ P!InsertFault(entry, stack, k) = "none"
  <2>1. P!RequestLir(k)
    BY <1>3 DEF P!StartRequest, P!Unless, P!RequestFault
  <2>2. P!NewEntry(k) \in Entries
    BY NewEntryType DEF P!StartRequest
  <2>3. P!Overridden(entry, stack, k) \in [Entries -> Objects]
    BY <1>3, OverriddenType DEF IInv, ListTypeOK
  <2>4. entry' \in [Entries -> Objects]
    BY <2>1, <2>2, <2>3, CreatedType DEF P!RequestLir
  <2>5. stack' \in Seq(Entries)
    BY <2>1, <2>2, InsertType DEF P!RequestLir, IInv, ListTypeOK
  <2>6. call' \in Calls /\ pc' = "ret"
    BY <2>1, BeginType, CallUpdate DEF P!RequestLir
  <2>7. /\ lirs_count' = lirs_count + 1
        /\ evicted' \in Entries \cup {NULL}
        /\ UNCHANGED <<index, resident, hirs_limit, lirs_limit, hirs_count,
                       demoted, non_resident>>
        /\ lirs_count' \in Counters
    <3>1. lirs_count \in Counters /\ lirs_count <= 4 * CacheSize
      BY CountersNat, SizeAssumption DEF IInv, ListTypeOK, ListWithinCapacity
    <3> QED
      BY <2>1, <3>1, IncType DEF P!RequestLir, P!limits
  <2>8. ListWithinCapacity' /\ LimitsPartition'
    BY <1>3, <2>7, SizeAssumption, CountersNat
    DEF IInv, ListTypeOK, LimitsPartition, ListWithinCapacity
  <2> QED
    BY <2>4, <2>5, <2>6, <2>7, <2>8 DEF IInv, ListTypeOK, CallOK, Promoting, Requesting
<1> QED
  BY <1>1, <1>2, <1>3

\* The loops of dlirs_request and the insertions that follow them
LEMMA RequestLoopKeeps ==
    ASSUME IInv, P!RequestLoop
    PROVE  IInv'
<1> DEFINE k == call.key
<1>0. k \in Keys /\ pc = "request"
  BY DEF P!RequestLoop, IInv, CallOK, Requesting
<1>1. CASE P!NoRoom /\ lirs_count > lirs_limit
  <2>1. lirs_count > 0
    BY <1>1, SizeAssumption, CountersNat DEF IInv, ListTypeOK, LimitsPartition
  <2> QED
    BY <1>0, <1>1, <2>1, EvictLirKeeps DEF P!RequestLoop
<1>2. CASE P!NoRoom /\ ~(lirs_count > lirs_limit)
  BY <1>2, EvictResidentHirKeeps DEF P!RequestLoop
<1>3. CASE ~P!NoRoom /\ P!RequestHirFault(k) # "none"
  <2>1. P!RequestHirFault(k) \in P!Lost
    BY <1>3, InsertFaultType DEF P!RequestHirFault, P!FirstFault, P!RequestFault
  <2> QED
    BY <1>3, <2>1, LostKeeps DEF P!RequestLoop, P!Unless
<1>4. CASE ~P!NoRoom /\ P!RequestHirFault(k) = "none"
  <2>1. P!RequestHir(k) /\ P!FreeNames(k) # {}
    BY <1>4 DEF P!RequestLoop, P!Unless
  <2>2. /\ P!InsertFault(entry, stack, k) = "none"
        /\ P!InsertFault(P!AfterLirs(k), index, k) = "none"
        /\ P!InsertFault(P!AfterStack(k), resident, k) = "none"
    BY <1>4 DEF P!RequestHirFault, P!FirstFault, P!RequestFault
  <2>3. P!AfterLirs(k) \in [Entries -> Objects]
    BY <2>2, OverriddenType DEF P!AfterLirs, IInv, ListTypeOK
  <2>4. P!AfterStack(k) \in [Entries -> Objects]
    BY <2>2, <2>3, OverriddenType DEF P!AfterStack, IInv, ListTypeOK
  <2>5. P!Overridden(P!AfterStack(k), resident, k) \in [Entries -> Objects]
    BY <2>2, <2>4, OverriddenType DEF IInv, ListTypeOK
  <2>6. P!NewEntry(k) \in Entries
    BY <1>0, <2>1, NewEntryType
  <2>7. entry' \in [Entries -> Objects]
    BY <2>1, <2>5, <2>6, CreatedType DEF P!RequestHir
  <2>8. stack' \in Seq(Entries) /\ index' \in Seq(Entries)
    BY <2>1, <2>6, InsertType DEF P!RequestHir, IInv, ListTypeOK
  <2>9. resident' \in Seq(Entries) /\ Len(resident') <= Len(resident) + 1
    <3>1. /\ resident' = ListInsert(resident, P!NewEntry(k))
          /\ resident \in Seq(Entries)
      BY <2>1 DEF IInv, ListTypeOK, P!RequestHir
    <3>2. Len(ListInsert(resident, P!NewEntry(k))) \in {Len(resident), Len(resident) + 1}
      BY <2>6, <3>1, InsertType
    <3> QED
      BY <2>6, <3>1, <3>2, InsertType
  <2>10. call' \in Calls /\ pc' = "limit"
    <3>1. P!PruneSize(P!Inc(hirs_count)) \in Nat
      BY IncType, PruneSizeType DEF IInv, ListTypeOK
    <3>2. call \in Calls
      BY DEF IInv, ListTypeOK
    <3>3. [call EXCEPT !.size = P!PruneSize(P!Inc(hirs_count))] \in Calls
      BY <3>1, <3>2, CallUpdate
    <3> QED
      BY <2>1, <3>3 DEF P!RequestHir
  <2>11. /\ hirs_count' = hirs_count + 1 /\ hirs_count + lirs_count < CacheSize
         /\ hirs_count' \in Counters
         /\ UNCHANGED <<hirs_limit, lirs_limit, lirs_count, demoted, non_resident, evicted>>
    <3>1. hirs_count + lirs_count < CacheSize
      BY <1>4, NoRoomIs, CountersNat, SizeAssumption DEF IInv, ListTypeOK, ListWithinCapacity
    <3>2. hirs_count \in Counters /\ hirs_count <= 4 * CacheSize
      BY <3>1, CountersNat, SizeAssumption DEF IInv, ListTypeOK
    <3> QED
      BY <2>1, <3>1, <3>2, IncType DEF P!RequestHir, P!limits
  <2>12. ListWithinCapacity' /\ LimitsPartition'
    BY <2>9, <2>11, SizeAssumption, CountersNat
    DEF IInv, ListTypeOK, LimitsPartition, ListWithinCapacity
  <2> QED
    BY <2>7, <2>8, <2>9, <2>10, <2>11, <2>12
    DEF IInv, ListTypeOK, CallOK, Promoting, Requesting, P!Loops
<1> QED
  BY <1>1, <1>2, <1>3, <1>4

\* The client takes the evicted entry, or finds the key and does not request
LEMMA ClientKeeps ==
    ASSUME IInv, P!Finish \/ P!SkipRequest
    PROVE  IInv'
<1>0. P!NoCall \in Calls
  BY DEF P!NoCall, Calls
<1>1. CASE P!SkipRequest
  BY <1>0, <1>1
  DEF P!SkipRequest, IInv, ListTypeOK, CallOK, Promoting, Requesting, LimitsPartition,
     ListWithinCapacity, P!data, P!tables, P!limits, P!counters
<1>2. CASE P!Finish /\ evicted # NULL /\ ~P!Live(evicted)
  BY <1>2, LostKeeps DEF P!Finish, P!Unless, P!Lost
<1>3. CASE P!Finish /\ ~(evicted # NULL /\ ~P!Live(evicted))
  <2>1. P!Collect /\ pc = "ret"
    BY <1>3 DEF P!Finish, P!Unless
  <2>2. entry' \in [Entries -> Objects]
    BY <1>3, <2>1, ReleaseType DEF P!Collect, P!Live, IInv, ListTypeOK
  <2>3. call' \in Calls /\ pc' \in {"ask", "idle"} /\ evicted' = NULL
    BY <1>0, <2>1 DEF P!Collect, IInv, ListTypeOK
  <2>4. UNCHANGED <<P!tables, P!limits, P!counters>>
    BY <2>1 DEF P!Collect
  <2> QED
    BY <2>2, <2>3, <2>4 DEF IInv, ListTypeOK, CallOK, Promoting, Requesting,
       LimitsPartition, ListWithinCapacity, P!tables, P!limits, P!counters
<1> QED
  BY <1>1, <1>2, <1>3

\* dlirs_destroy
LEMMA DestroyKeeps ==
    ASSUME IInv, P!Destroy
    PROVE  IInv'
<1> DEFINE short == \E e \in Entries : P!References(e) > entry[e].rc
<1>1. CASE short
  BY <1>1, LostKeeps DEF P!Destroy, P!Unless, P!Lost
<1>2. CASE ~short
  <2>1. P!ReleaseAll
    BY <1>2 DEF P!Destroy, P!Unless
  <2>2. \A e \in Entries : P!References(e) \in Nat /\ entry[e].rc - P!References(e) \in Nat
    BY <1>2 DEF P!References, ListRefs, IInv, ListTypeOK, Objects
  <2>3. \A e \in Entries : [entry[e] EXCEPT !.rc = @ - P!References(e)] \in Objects
    BY <2>2 DEF IInv, ListTypeOK, Objects
  <2>4. entry' \in [Entries -> Objects]
    BY <2>1, <2>3 DEF P!ReleaseAll
  <2>5. /\ stack' = << >> /\ index' = << >> /\ resident' = << >>
        /\ pc' = "destroyed"
        /\ UNCHANGED <<hirs_limit, lirs_limit, hirs_count, lirs_count, demoted, non_resident,
                       evicted, call>>
    BY <2>1 DEF P!ReleaseAll, P!limits, P!counters
  <2>6. Len(resident') = 0 /\ hirs_count \in Nat
    BY <2>5, CountersNat DEF IInv, ListTypeOK
  <2>7. ListTypeOK'
    BY <2>4, <2>5 DEF IInv, ListTypeOK
  <2>8. CallOK' /\ LimitsPartition' /\ ListWithinCapacity'
    BY <2>5, <2>6 DEF IInv, CallOK, Promoting, Requesting, LimitsPartition, ListWithinCapacity
  <2> QED
    BY <2>7, <2>8 DEF IInv
<1> QED
  BY <1>1, <1>2

-----------------------------------------------------------------------------

\* The invariant holds when dlirs_create returns.
LEMMA InitIInv == P!Init => IInv
<1> SUFFICES ASSUME P!Init PROVE IInv
  OBVIOUS
<1>1. \A e \in Entries : P!Freed \in Objects
  BY DEF P!Freed, Objects
<1>2. P!NoCall \in Calls
  BY DEF P!NoCall, Calls
<1> QED
  BY <1>1, <1>2, SizeAssumption, RatioAssumption, SizeMaxAssumption
  DEF Counters, P!Init, IInv, ListTypeOK, CallOK, Promoting, Requesting, LimitsPartition,
      ListWithinCapacity

\* Every step keeps it, whatever the client asks for.
LEMMA NextIInv == IInv /\ [P!Next]_(P!vars) => IInv'
<1> SUFFICES ASSUME IInv, [P!Next]_(P!vars) PROVE IInv'
  OBVIOUS
<1>1. CASE \E k \in Keys : P!Get(k)
  BY <1>1, StartGetKeeps DEF P!Get
<1>2. CASE \E k \in Keys : P!Request(k)
  <2>1. PICK k \in Keys : P!Request(k)
    BY <1>2
  <2>2. P!ContainsFault(k) \in {"none", "abort"}
    BY DEF P!ContainsFault
  <2>3. CASE P!StartRequest(k)
    BY <2>3, StartRequestKeeps
  <2>4. CASE ~P!StartRequest(k)
    BY <2>1, <2>2, <2>4, LostKeeps DEF P!Request, P!Unless, P!Lost
  <2> QED
    BY <2>3, <2>4
<1>3. CASE P!Step
  BY <1>3, PruneKeeps, EjectKeeps, LimitStackKeeps, RequestLoopKeeps, ClientKeeps DEF P!Step
<1>4. CASE P!SkipRequest
  BY <1>4, ClientKeeps
<1>5. CASE P!Destroy
  BY <1>5, DestroyKeeps
<1>6. CASE UNCHANGED P!vars
  BY <1>6
  DEF IInv, ListTypeOK, CallOK, Promoting, Requesting, LimitsPartition, ListWithinCapacity,
     P!vars, P!data, P!tables, P!limits, P!counters
<1> QED
  BY <1>1, <1>2, <1>3, <1>4, <1>5, <1>6 DEF P!Next, P!Stopped

-----------------------------------------------------------------------------
(* The out parameter                                                       *)

\* The client's out parameter is filled by the loop that makes room, and then
\* there is room: no loop evicts a second time before the call returns.
OutInv ==
    evicted # NULL =>
        /\ pc \in {"eject_hir", "request", "limit", "ret"} \cup P!Lost
        /\ pc \in {"eject_hir", "request"} => ~P!NoRoom

\* What one step does to the out parameter.
OutStep == evicted # NULL /\ pc # "ret" => evicted' = evicted

\* Steps that leave the out parameter NULL, or a lost process.
LEMMA OutKept ==
    ASSUME OutInv, UNCHANGED evicted,
           evicted = NULL \/ pc' \in {"limit", "ret"} \cup P!Lost
    PROVE  OutInv' /\ OutStep
BY DEF OutInv, OutStep, P!Lost

\* dlirs_evict_resident_hir
LEMMA OutEvictResidentHir ==
    ASSUME IInv, OutInv, P!NoRoom, pc \in {"eject_hir", "request"}, P!EvictResidentHir
    PROVE  OutInv' /\ OutStep
<1>1. evicted = NULL
  BY DEF OutInv
<1>2. CASE resident = << >>
  BY <1>1, <1>2 DEF P!EvictResidentHir, OutInv, OutStep
<1>3. CASE resident # << >> /\ ~P!Live(Head(resident))
  BY <1>1, <1>3, OutKept DEF P!EvictResidentHir, P!Unless, P!data
<1>4. CASE resident # << >> /\ P!Live(Head(resident))
  <2>1. P!TakeFront
    BY <1>4 DEF P!EvictResidentHir, P!Unless
  <2>2. /\ Len(resident) >= 1 /\ hirs_count \in Nat /\ lirs_count \in Nat
        /\ hirs_count \in Counters
    BY <1>4, FrontType, CountersNat DEF IInv, ListTypeOK
  <2>3. hirs_count' = hirs_count - 1 /\ UNCHANGED <<lirs_count, pc>> /\ hirs_count >= 1
    BY <2>1, <2>2, DecType DEF P!TakeFront, IInv, ListTypeOK, ListWithinCapacity
  <2>4. hirs_count' + lirs_count' < CacheSize /\ hirs_count' \in Nat /\ lirs_count' \in Nat
    BY <2>2, <2>3, SizeAssumption DEF IInv, ListWithinCapacity
  <2>5. ~P!NoRoom'
    <3> DEFINE h == hirs_count'
               l == lirs_count'
    <3>1. h \in Nat /\ l \in Nat /\ h + l < CacheSize
      BY <2>4
    <3> HIDE DEF h, l
    <3>2. P!Plus(h, l) = h + l
      BY <3>1, PlusIs, SizeAssumption
    <3>3. ~(P!Plus(h, l) >= CacheSize)
      BY <3>1, <3>2, SizeAssumption
    <3> USE DEF h, l
    <3> QED
      BY <3>3 DEF P!NoRoom
  <2> QED
    BY <1>1, <2>3, <2>5 DEF OutInv, OutStep
<1> QED
  BY <1>2, <1>3, <1>4

\* A get begins with an empty out parameter.
LEMMA OutGet ==
    ASSUME OutInv, NEW k \in Keys, P!Get(k)
    PROVE  OutInv' /\ OutStep
<1>1. evicted = NULL
  BY DEF P!Get, OutInv, P!Lost
<1>2. UNCHANGED evicted
  <2>1. CASE ListHolds(stack, k)
    BY <2>1 DEF P!Get, P!StartGet, P!GetLirs, P!Unless, P!HitLir, P!HirInLirs, P!data
  <2>2. CASE ~ListHolds(stack, k)
    BY <2>2 DEF P!Get, P!StartGet, P!Unless, P!HitHirInResidentHirs, P!GetMiss, P!data
  <2> QED
    BY <2>1, <2>2
<1> QED
  BY <1>1, <1>2, OutKept

\* So does a request; its first branch clears it once more.
LEMMA OutRequest ==
    ASSUME OutInv, NEW k \in Keys, P!Request(k)
    PROVE  OutInv' /\ OutStep
<1>1. evicted = NULL
  BY DEF P!Request, OutInv, P!Lost
<1>2. evicted' = NULL
  BY <1>1 DEF P!Request, P!StartRequest, P!Unless, P!RequestLir, P!data
<1> QED
  BY <1>1, <1>2 DEF OutInv, OutStep

\* dlirs_evict_lir runs before anything is evicted.
LEMMA OutEvictLir ==
    ASSUME OutInv, evicted = NULL, NEW back, P!EvictLir(back)
    PROVE  OutInv' /\ OutStep
<1>1. UNCHANGED evicted
  BY DEF P!EvictLir, P!Unless, P!DemoteFront, P!vars, P!data
<1> QED
  BY <1>1, OutKept

\* The steps of a call that has begun.
LEMMA OutCallStep ==
    ASSUME IInv, OutInv, P!Step
    PROVE  OutInv' /\ OutStep
<1>1. CASE P!Prune
  <2>1. evicted = NULL
    BY <1>1 DEF P!Prune, OutInv, P!Lost
  <2>2. UNCHANGED evicted
    BY <1>1 DEF P!Prune, P!Unless, P!PruneFront, P!data
  <2> QED
    BY <2>1, <2>2, OutKept
<1>2. CASE P!EjectLir
  <2>1. evicted = NULL
    BY <1>2 DEF P!EjectLir, OutInv, P!Lost
  <2>2. CASE lirs_count >= lirs_limit
    BY <1>2, <2>1, <2>2, OutEvictLir DEF P!EjectLir
  <2>3. CASE ~(lirs_count >= lirs_limit)
    BY <1>2, <2>1, <2>3, OutKept DEF P!EjectLir, P!data
  <2> QED
    BY <2>2, <2>3
<1>3. CASE P!EjectHir
  <2>1. CASE P!NoRoom
    BY <1>3, <2>1, OutEvictResidentHir DEF P!EjectHir
  <2>2. CASE ~P!NoRoom
    <3>1. UNCHANGED evicted /\ pc' \in {"ret"} \cup P!Lost
      BY <1>3, <2>2, InsertFaultType DEF P!EjectHir, P!Unless, P!Reinsert, P!data
    <3> QED
      BY <3>1, OutKept
  <2> QED
    BY <2>1, <2>2
<1>4. CASE P!LimitStack
  <2>1. pc = "limit" /\ UNCHANGED evicted /\ pc' \in {"limit", "ret"} \cup P!Lost
    BY <1>4 DEF P!LimitStack, P!Unless, P!DropOldest, P!DropFault, P!Lost, P!data
  <2> QED
    BY <2>1, OutKept
<1>5. CASE P!RequestLoop
  <2>1. CASE P!NoRoom /\ lirs_count > lirs_limit
    <3>1. evicted = NULL
      BY <1>5, <2>1 DEF P!RequestLoop, OutInv
    <3> QED
      BY <1>5, <2>1, <3>1, OutEvictLir DEF P!RequestLoop
  <2>2. CASE P!NoRoom /\ ~(lirs_count > lirs_limit)
    BY <1>5, <2>2, OutEvictResidentHir DEF P!RequestLoop
  <2>3. CASE ~P!NoRoom
    <3>1. P!RequestHirFault(call.key) \in P!Lost \cup {"none"}
      BY InsertFaultType DEF P!RequestHirFault, P!FirstFault, P!RequestFault
    <3>2. UNCHANGED evicted /\ pc' \in {"limit"} \cup P!Lost
      BY <1>5, <2>3, <3>1 DEF P!RequestLoop, P!Unless, P!RequestHir, P!data
    <3> QED
      BY <3>2, OutKept
  <2> QED
    BY <2>1, <2>2, <2>3
<1>6. CASE P!Finish
  <2>1. CASE evicted # NULL /\ ~P!Live(evicted)
    BY <1>6, <2>1, OutKept DEF P!Finish, P!Unless, P!Lost, P!data
  <2>2. CASE ~(evicted # NULL /\ ~P!Live(evicted))
    BY <1>6, <2>2 DEF P!Finish, P!Unless, P!Collect, OutInv, OutStep
  <2> QED
    BY <2>1, <2>2
<1> QED
  BY <1>1, <1>2, <1>3, <1>4, <1>5, <1>6 DEF P!Step

\* Every step.
LEMMA OutNext ==
    ASSUME IInv, OutInv, [P!Next]_(P!vars)
    PROVE  OutInv' /\ OutStep
<1>1. CASE P!SkipRequest
  <2>1. evicted = NULL /\ UNCHANGED evicted
    BY <1>1 DEF P!SkipRequest, OutInv, P!Lost, P!data
  <2> QED
    BY <2>1, OutKept
<1>2. CASE P!Destroy
  <2>1. evicted = NULL /\ UNCHANGED evicted
    BY <1>2 DEF P!Destroy, P!Unless, P!ReleaseAll, OutInv, P!Lost, P!data
  <2> QED
    BY <2>1, OutKept
<1>3. CASE UNCHANGED P!vars
  BY <1>3 DEF OutInv, OutStep, P!NoRoom, P!vars, P!data, P!counters
<1> QED
  BY <1>1, <1>2, <1>3, OutGet, OutRequest, OutCallStep DEF P!Next, P!Stopped

-----------------------------------------------------------------------------
(* Tables as sets and orders                                               *)

\* What a table holds of a key is the one element with that key.
LEMMA HoldsIs ==
    ASSUME NEW t \in Seq(Entries), KeysOnce(t), NEW k
    PROVE  /\ ListHolds(t, k) <=> \E e \in ToSet(t) : KeyOf(e) = k
           /\ ListHolds(t, k) => ListAt(t, k) \in ToSet(t) /\ KeyOf(ListAt(t, k)) = k
           /\ \A e \in ToSet(t) : KeyOf(e) = k => ListHolds(t, k) /\ e = ListAt(t, k)
<1>1. ListHolds(t, k) <=> \E e \in ToSet(t) : KeyOf(e) = k
  BY DEF ListHolds, ToSet
<1>2. ListHolds(t, k) => ListAt(t, k) \in ToSet(t) /\ KeyOf(ListAt(t, k)) = k
  BY AtType DEF ListAt, ToSet
<1>3. ASSUME NEW e \in ToSet(t), KeyOf(e) = k
      PROVE  ListHolds(t, k) /\ e = ListAt(t, k)
  <2>1. PICK i \in DOMAIN t : t[i] = e
    BY DEF ToSet
  <2>2. ListHolds(t, k)
    BY <1>3, <2>1 DEF ListHolds
  <2>3. ListPos(t, k) \in DOMAIN t /\ KeyOf(t[ListPos(t, k)]) = k
    BY <2>2, AtType DEF ListAt
  <2>4. ListPos(t, k) = i
    BY <1>3, <2>1, <2>3 DEF KeysOnce
  <2> QED
    BY <2>1, <2>2, <2>4 DEF ListAt
<1> QED
  BY <1>1, <1>2, <1>3

\* Element by element, the table without the one at position p.
LEMMA WithoutAt ==
    ASSUME NEW t \in Seq(Entries), NEW p \in 1 .. Len(t)
    PROVE  /\ RemoveAt(t, p) \in Seq(Entries)
           /\ Len(RemoveAt(t, p)) = Len(t) - 1
           /\ \A i \in 1 .. Len(t) - 1 :
                RemoveAt(t, p)[i] = IF i < p THEN t[i] ELSE t[i + 1]
<1> DEFINE a == SubSeq(t, 1, p - 1)
           b == SubSeq(t, p + 1, Len(t))
<1>1. a \in Seq(Entries) /\ Len(a) = p - 1 /\ \A i \in 1 .. p - 1 : a[i] = t[i]
  OBVIOUS
<1>2. b \in Seq(Entries) /\ Len(b) = Len(t) - p
      /\ \A i \in 1 .. Len(t) - p : b[i] = t[p + i]
  OBVIOUS
<1>3. RemoveAt(t, p) = a \o b
  BY DEF RemoveAt
<1> HIDE DEF a, b
<1>4. /\ a \o b \in Seq(Entries) /\ Len(a \o b) = Len(a) + Len(b)
      /\ \A i \in 1 .. Len(a) + Len(b) :
           (a \o b)[i] = IF i <= Len(a) THEN a[i] ELSE b[i - Len(a)]
  BY <1>1, <1>2, ConcatProperties, Zenon
<1>5. /\ a \o b \in Seq(Entries) /\ Len(a \o b) = Len(t) - 1
      /\ \A i \in 1 .. Len(t) - 1 :
           (a \o b)[i] = IF i <= p - 1 THEN a[i] ELSE b[i - (p - 1)]
  BY <1>1, <1>2, <1>4
<1> DEFINE c == a \o b
<1> HIDE DEF c
<1>6. \A i \in 1 .. Len(t) - 1 : c[i] = IF i < p THEN t[i] ELSE t[i + 1]
  <2> SUFFICES ASSUME NEW i \in 1 .. Len(t) - 1
               PROVE  c[i] = IF i < p THEN t[i] ELSE t[i + 1]
    OBVIOUS
  <2>1. c[i] = IF i <= p - 1 THEN a[i] ELSE b[i - (p - 1)]
    BY <1>5 DEF c
  <2>2. CASE i < p
    <3>1. i <= p - 1 /\ i \in 1 .. p - 1
      BY <2>2
    <3> QED
      BY <1>1, <2>1, <2>2, <3>1
  <2>3. CASE ~(i < p)
    <3>1. ~(i <= p - 1) /\ i - (p - 1) \in 1 .. Len(t) - p /\ p + (i - (p - 1)) = i + 1
      BY <2>3
    <3> QED
      BY <1>2, <2>1, <2>3, <3>1
  <2> QED
    BY <2>2, <2>3
<1> QED
  BY <1>3, <1>5, <1>6 DEF c

\* dqht_remove takes one element out and leaves the order of the others.
LEMMA WithoutIs ==
    ASSUME NEW t \in Seq(Entries), KeysOnce(t), NEW k, ListHolds(t, k)
    PROVE  /\ KeysOnce(ListWithout(t, k))
           /\ ToSet(ListWithout(t, k)) = ToSet(t) \ {ListAt(t, k)}
           /\ ~ListHolds(ListWithout(t, k), k)
           /\ \A a, b : Before(t, a, b) /\ a # ListAt(t, k) /\ b # ListAt(t, k)
                          => Before(ListWithout(t, k), a, b)
           /\ \A a, b : Before(ListWithout(t, k), a, b) => Before(t, a, b)
           /\ Head(t) # ListAt(t, k) => ListWithout(t, k) # << >> /\ Head(ListWithout(t, k)) = Head(t)
<1> DEFINE p == ListPos(t, k)
           w == ListWithout(t, k)
           from(i) == IF i < p THEN i ELSE i + 1
           to(i) == IF i < p THEN i ELSE i - 1
<1>1. p \in 1 .. Len(t) /\ ListAt(t, k) = t[p] /\ KeyOf(t[p]) = k /\ Len(t) \in Nat
  BY AtType DEF ListAt
<1>2. /\ w \in Seq(Entries) /\ Len(w) = Len(t) - 1
      /\ \A i \in 1 .. Len(t) - 1 : w[i] = IF i < p THEN t[i] ELSE t[i + 1]
  BY <1>1, WithoutAt DEF ListWithout
<1>3. DOMAIN w = 1 .. Len(t) - 1 /\ DOMAIN t = 1 .. Len(t)
  BY <1>2
<1> HIDE DEF p, w
<1>4. \A i \in DOMAIN w : from(i) \in DOMAIN t /\ from(i) # p /\ w[i] = t[from(i)]
  BY <1>1, <1>2, <1>3
<1>5. \A i \in DOMAIN t : i # p => to(i) \in DOMAIN w /\ w[to(i)] = t[i]
  BY <1>1, <1>2, <1>3
<1>6. \A i, j \in DOMAIN w : from(i) = from(j) => i = j
  BY <1>1, <1>3
<1>7. \A i, j \in DOMAIN w : i < j => from(i) < from(j)
  BY <1>1, <1>3
<1>8. \A i, j \in DOMAIN t : i < j /\ i # p /\ j # p => to(i) < to(j)
  BY <1>1, <1>3
<1>9. \A i \in DOMAIN t : i # p => t[i] # t[p]
  BY <1>1, <1>3 DEF KeysOnce
<1>10. p # 1 => 1 \in DOMAIN w /\ w[1] = t[1]
  BY <1>1, <1>2, <1>3
<1> HIDE DEF from, to
<1>11. KeysOnce(w)
  BY <1>4, <1>6 DEF KeysOnce
<1>12. ToSet(w) = ToSet(t) \ {ListAt(t, k)}
  BY <1>1, <1>4, <1>5, <1>9 DEF ToSet
<1>13. ~ListHolds(w, k)
  <2> SUFFICES ASSUME NEW i \in DOMAIN w, KeyOf(w[i]) = k PROVE FALSE
    BY DEF ListHolds
  <2>1. from(i) \in DOMAIN t /\ from(i) # p /\ KeyOf(t[from(i)]) = KeyOf(t[p])
    BY <1>1, <1>4
  <2> QED
    BY <1>1, <1>3, <2>1 DEF KeysOnce
<1>14. ASSUME NEW a, NEW b, Before(t, a, b), a # ListAt(t, k), b # ListAt(t, k)
       PROVE  Before(w, a, b)
  <2>1. PICK i, j \in DOMAIN t : i < j /\ t[i] = a /\ t[j] = b
    BY <1>14 DEF Before
  <2>2. i # p /\ j # p
    BY <1>1, <1>14, <2>1
  <2> QED
    BY <1>5, <1>8, <2>1, <2>2 DEF Before
<1>15. ASSUME NEW a, NEW b, Before(w, a, b)
       PROVE  Before(t, a, b)
  BY <1>4, <1>7, <1>15 DEF Before
<1>16. Head(t) # ListAt(t, k) => w # << >> /\ Head(w) = Head(t)
  <2> SUFFICES ASSUME Head(t) # ListAt(t, k) PROVE w # << >> /\ Head(w) = Head(t)
    OBVIOUS
  <2>1. Head(t) = t[1]
    BY <1>1
  <2>2. 1 \in DOMAIN w /\ w[1] = t[1]
    BY <1>1, <1>10, <2>1
  <2> QED
    BY <1>2, <1>3, <2>1, <2>2
<1> QED
  BY <1>11, <1>12, <1>13, <1>14, <1>15, <1>16 DEF w

\* dqht_pop_front is dqht_remove of the front.
LEMMA TailIs ==
    ASSUME NEW t \in Seq(Entries), KeysOnce(t), t # << >>
    PROVE  LET k == KeyOf(Head(t)) IN
           /\ Head(t) \in Entries /\ Head(t) \in ToSet(t)
           /\ ListHolds(t, k) /\ ListAt(t, k) = Head(t) /\ Tail(t) = ListWithout(t, k)
<1> DEFINE k == KeyOf(Head(t))
<1>1. Len(t) \in Nat /\ Len(t) >= 1 /\ Head(t) = t[1] /\ DOMAIN t = 1 .. Len(t)
  OBVIOUS
<1>2. Head(t) \in ToSet(t) /\ Head(t) \in Entries
  BY <1>1 DEF ToSet
<1>3. ListHolds(t, k) /\ ListAt(t, k) = Head(t)
  BY <1>2, HoldsIs
<1>4. ListPos(t, k) = 1
  BY <1>1, <1>3, AtType DEF KeysOnce, ListAt
<1> DEFINE w == ListWithout(t, k)
<1>5. /\ w \in Seq(Entries) /\ Len(w) = Len(t) - 1
      /\ \A i \in 1 .. Len(t) - 1 : w[i] = IF i < 1 THEN t[i] ELSE t[i + 1]
  <2>1. w = RemoveAt(t, 1) /\ 1 \in 1 .. Len(t)
    BY <1>1, <1>4 DEF ListWithout
  <2> QED
    BY <2>1, WithoutAt
<1> HIDE DEF w
<1>6. Tail(t) \in Seq(Entries) /\ Len(Tail(t)) = Len(t) - 1
      /\ \A i \in 1 .. Len(t) - 1 : Tail(t)[i] = t[i + 1]
  BY <1>1
<1>7. Tail(t) = w
  BY <1>1, <1>5, <1>6
<1> QED
  BY <1>2, <1>3, <1>7 DEF w

\* dqht_insert of a new key puts the element behind all others.
LEMMA AppendIs ==
    ASSUME NEW t \in Seq(Entries), KeysOnce(t), NEW e \in Entries, ~ListHolds(t, KeyOf(e))
    PROVE  /\ Append(t, e) \in Seq(Entries) /\ Len(Append(t, e)) = Len(t) + 1
           /\ KeysOnce(Append(t, e))
           /\ ToSet(Append(t, e)) = ToSet(t) \cup {e}
           /\ \A a, b : Before(t, a, b) => Before(Append(t, e), a, b)
           /\ \A a \in ToSet(t) : Before(Append(t, e), a, e)
           /\ \A a, b : Before(Append(t, e), a, b)
                          => Before(t, a, b) \/ (a \in ToSet(t) /\ b = e)
           /\ Append(t, e) # << >>
           /\ Head(Append(t, e)) = IF t = << >> THEN e ELSE Head(t)
<1> DEFINE u == Append(t, e)
           n == Len(t)
<1>1. n \in Nat /\ DOMAIN t = 1 .. n
  OBVIOUS
<1>2. /\ u \in Seq(Entries) /\ Len(u) = n + 1 /\ DOMAIN u = 1 .. n + 1
      /\ u[n + 1] = e /\ \A i \in 1 .. n : u[i] = t[i]
  OBVIOUS
<1>3. \A i \in 1 .. n : KeyOf(t[i]) # KeyOf(e)
  BY <1>1 DEF ListHolds
<1>4. u # << >> /\ Head(u) = IF t = << >> THEN e ELSE Head(t)
  BY AppendProperties, HeadTailAppend
<1> HIDE DEF u, n
<1>5. KeysOnce(u)
  <2> SUFFICES ASSUME NEW i \in 1 .. n + 1, NEW j \in 1 .. n + 1, KeyOf(u[i]) = KeyOf(u[j])
               PROVE  i = j
    BY <1>2 DEF KeysOnce
  <2>1. CASE i \in 1 .. n /\ j \in 1 .. n
    BY <1>1, <1>2, <2>1 DEF KeysOnce
  <2>2. CASE i = n + 1 /\ j \in 1 .. n
    BY <1>2, <1>3, <2>2
  <2>3. CASE j = n + 1 /\ i \in 1 .. n
    BY <1>2, <1>3, <2>3
  <2> QED
    BY <1>1, <2>1, <2>2, <2>3
<1>6. 1 .. n + 1 = (1 .. n) \cup {n + 1}
  BY <1>1
<1>7. ToSet(u) = ToSet(t) \cup {e}
  <2>1. \A i \in 1 .. n + 1 : u[i] \in ToSet(t) \cup {e}
    BY <1>1, <1>2, <1>6 DEF ToSet
  <2>2. \A i \in 1 .. n : i \in 1 .. n + 1 /\ u[i] = t[i]
    BY <1>1, <1>2
  <2>3. n + 1 \in 1 .. n + 1
    BY <1>1
  <2> QED
    BY <1>1, <1>2, <2>1, <2>2, <2>3, Zenon DEF ToSet
<1>8. \A i \in 1 .. n : i < n + 1 /\ i \in 1 .. n + 1
  BY <1>1
<1>9. \A a, b : Before(t, a, b) => Before(u, a, b)
  BY <1>1, <1>2, <1>8 DEF Before
<1>10. ASSUME NEW a \in ToSet(t) PROVE Before(u, a, e)
  <2>1. PICK i \in 1 .. n : t[i] = a
    BY <1>1 DEF ToSet
  <2> QED
    BY <1>1, <1>2, <1>8, <2>1 DEF Before
<1>11. ASSUME NEW a, NEW b, Before(u, a, b)
       PROVE  Before(t, a, b) \/ (a \in ToSet(t) /\ b = e)
  <2>1. PICK i, j \in 1 .. n + 1 : i < j /\ u[i] = a /\ u[j] = b
    BY <1>2, <1>11 DEF Before
  <2>2. i \in 1 .. n /\ a = t[i] /\ a \in ToSet(t)
    BY <1>1, <1>2, <2>1 DEF ToSet
  <2>3. CASE j = n + 1
    BY <1>2, <2>1, <2>2, <2>3
  <2>4. CASE j \in 1 .. n
    BY <1>1, <1>2, <2>1, <2>2, <2>4 DEF Before
  <2> QED
    BY <1>6, <2>3, <2>4
<1> QED
  BY <1>2, <1>4, <1>5, <1>7, <1>9, <1>10, <1>11 DEF u, n

\* A table is as long as the set of its elements is large.
LEMMA CardIs ==
    ASSUME NEW t \in Seq(Entries), KeysOnce(t)
    PROVE  IsFiniteSet(ToSet(t)) /\ Cardinality(ToSet(t)) = Len(t)
<1>1. Len(t) \in Nat /\ DOMAIN t = 1 .. Len(t) /\ t \in [1 .. Len(t) -> ToSet(t)]
  BY DEF ToSet
<1>2. t \in Bijection(1 .. Len(t), ToSet(t))
  BY <1>1 DEF Bijection, Injection, Surjection, IsInjective, KeysOnce, ToSet
<1>3. ExistsBijection(1 .. Len(t), ToSet(t))
  BY <1>2 DEF ExistsBijection
<1>4. IsFiniteSet(1 .. Len(t)) /\ Cardinality(1 .. Len(t)) = Len(t)
  BY <1>1, FS_Interval
<1> QED
  BY <1>3, <1>4, FS_Bijection

-----------------------------------------------------------------------------
(* Entries by their flags                                                  *)

Marked == [is_LIR : BOOLEAN, is_demoted : BOOLEAN, in_cache : BOOLEAN, rc : Int]

LirIn(objs) == {e \in Entries : objs[e].is_LIR}
CachedIn(objs) == {e \in Entries : objs[e].in_cache}
DemotedIn(objs) == {e \in Entries : objs[e].is_demoted}

\* Counters can become negative here; no flag depends on them.
LEMMA ObjectsMarked == ASSUME NEW objs \in [Entries -> Objects] PROVE objs \in [Entries -> Marked]
BY DEF Objects, Marked

\* An object that gets new contents.
LEMMA FlagsOf ==
    ASSUME NEW objs \in [Entries -> Marked], NEW e \in Entries, NEW o \in Marked
    PROVE  /\ [objs EXCEPT ![e] = o] \in [Entries -> Marked]
           /\ LirIn([objs EXCEPT ![e] = o])
                = IF o.is_LIR THEN LirIn(objs) \cup {e} ELSE LirIn(objs) \ {e}
           /\ CachedIn([objs EXCEPT ![e] = o])
                = IF o.in_cache THEN CachedIn(objs) \cup {e} ELSE CachedIn(objs) \ {e}
           /\ DemotedIn([objs EXCEPT ![e] = o])
                = IF o.is_demoted THEN DemotedIn(objs) \cup {e} ELSE DemotedIn(objs) \ {e}
<1> DEFINE new == [objs EXCEPT ![e] = o]
<1>1. new \in [Entries -> Marked] /\ new[e] = o /\ \A x \in Entries : x # e => new[x] = objs[x]
  OBVIOUS
<1> HIDE DEF new
<1>2. LirIn(new) = IF o.is_LIR THEN LirIn(objs) \cup {e} ELSE LirIn(objs) \ {e}
  BY <1>1, Zenon DEF LirIn
<1>3. CachedIn(new) = IF o.in_cache THEN CachedIn(objs) \cup {e} ELSE CachedIn(objs) \ {e}
  BY <1>1, Zenon DEF CachedIn
<1>4. DemotedIn(new) = IF o.is_demoted THEN DemotedIn(objs) \cup {e} ELSE DemotedIn(objs) \ {e}
  BY <1>1, Zenon DEF DemotedIn
<1> QED
  BY <1>1, <1>2, <1>3, <1>4 DEF new

\* Contents that keep the flags.
LEMMA SameFlags ==
    ASSUME NEW objs \in [Entries -> Marked], NEW e \in Entries, NEW o \in Marked,
           o.is_LIR = objs[e].is_LIR, o.in_cache = objs[e].in_cache,
           o.is_demoted = objs[e].is_demoted
    PROVE  /\ [objs EXCEPT ![e] = o] \in [Entries -> Marked]
           /\ LirIn([objs EXCEPT ![e] = o]) = LirIn(objs)
           /\ CachedIn([objs EXCEPT ![e] = o]) = CachedIn(objs)
           /\ DemotedIn([objs EXCEPT ![e] = o]) = DemotedIn(objs)
<1> DEFINE new == [objs EXCEPT ![e] = o]
<1>1. new \in [Entries -> Marked] /\ new[e] = o /\ \A x \in Entries : x # e => new[x] = objs[x]
  OBVIOUS
<1> HIDE DEF new
<1>2. \A x \in Entries : /\ new[x].is_LIR = objs[x].is_LIR
                          /\ new[x].in_cache = objs[x].in_cache
                          /\ new[x].is_demoted = objs[x].is_demoted
  BY <1>1, Zenon
<1>3. LirIn(new) = LirIn(objs)
  BY <1>2, Zenon DEF LirIn
<1>4. CachedIn(new) = CachedIn(objs)
  BY <1>2, Zenon DEF CachedIn
<1>5. DemotedIn(new) = DemotedIn(objs)
  BY <1>2, Zenon DEF DemotedIn
<1> QED
  BY <1>1, <1>3, <1>4, <1>5 DEF new

\* Releasing an object leaves its flags.
LEMMA ReleaseFlags ==
    ASSUME NEW objs \in [Entries -> Marked], NEW e \in Entries
    PROVE  /\ P!Release(objs, e) \in [Entries -> Marked]
           /\ LirIn(P!Release(objs, e)) = LirIn(objs)
           /\ CachedIn(P!Release(objs, e)) = CachedIn(objs)
           /\ DemotedIn(P!Release(objs, e)) = DemotedIn(objs)
<1> DEFINE o == [objs[e] EXCEPT !.rc = @ - 1]
<1>1. objs[e] \in Marked
  OBVIOUS
<1>2. /\ o \in Marked /\ o.is_LIR = objs[e].is_LIR /\ o.in_cache = objs[e].in_cache
      /\ o.is_demoted = objs[e].is_demoted
  BY <1>1 DEF Marked
<1>3. P!Release(objs, e) = [objs EXCEPT ![e] = o]
  BY DEF P!Release
<1> HIDE DEF o
<1>4. /\ [objs EXCEPT ![e] = o] \in [Entries -> Marked]
      /\ LirIn([objs EXCEPT ![e] = o]) = LirIn(objs)
      /\ CachedIn([objs EXCEPT ![e] = o]) = CachedIn(objs)
      /\ DemotedIn([objs EXCEPT ![e] = o]) = DemotedIn(objs)
  BY <1>2, SameFlags
<1> QED
  BY <1>3, <1>4, Zenon

-----------------------------------------------------------------------------
(* The shape of the three tables: s the entries of the stack, n those of   *)
(* non_resident_hirs, r those of resident_hirs; L, C and D the entries     *)
(* that are LIR, in the cache and demoted.                                 *)

Shape(s, n, r, L, C, D) ==
    /\ s \subseteq Entries /\ r \subseteq Entries
    /\ n = s \ L
    /\ s \cap L \subseteq C
    /\ s \cap D = {}
    /\ \A e \in s \ L : e \in r <=> e \in C
    /\ r \cap L = {}
    /\ r \subseteq C
    /\ \A e, f \in s \cup r : KeyOf(e) = KeyOf(f) => e = f

\* The same with the counters: h of resident_hirs, l of the LIR entries, q of
\* the remembered ones, d of the demoted ones.
Sound(s, n, r, L, C, D, h, l, q, d) ==
    /\ Shape(s, n, r, L, C, D)
    /\ IsFiniteSet(s) /\ IsFiniteSet(r)
    /\ h = Cardinality(r)
    /\ l = Cardinality(s \cap L)
    /\ q = Cardinality(s \ C)
    /\ d = Cardinality(r \cap D)

Fresh(e, s, r) == \A f \in s \cup r : KeyOf(f) # KeyOf(e)

\* Counting after one element came or went.
LEMMA CardPlus ==
    ASSUME NEW A, NEW B, NEW e, IsFiniteSet(A), e \notin A, B = A \cup {e}
    PROVE  IsFiniteSet(B) /\ Cardinality(B) = Cardinality(A) + 1 /\ Cardinality(A) \in Nat
BY FS_AddElement, FS_CardinalityType

LEMMA CardMinus ==
    ASSUME NEW A, NEW B, NEW e, IsFiniteSet(A), e \in A, B = A \ {e}
    PROVE  /\ IsFiniteSet(B) /\ Cardinality(B) = Cardinality(A) - 1
           /\ Cardinality(A) \in Nat /\ Cardinality(A) > 0
<1>1. Cardinality(A) # 0
  BY FS_EmptySet
<1> QED
  BY <1>1, FS_RemoveElement, FS_CardinalityType

\* The sets the counters count are finite.
LEMMA Finite ==
    ASSUME NEW s, NEW r, NEW L, NEW C, NEW D, IsFiniteSet(s), IsFiniteSet(r)
    PROVE  /\ IsFiniteSet(s \cap L) /\ IsFiniteSet(s \ C) /\ IsFiniteSet(r \cap D)
           /\ Cardinality(s \cap L) \in Nat /\ Cardinality(s \ C) \in Nat
           /\ Cardinality(r \cap D) \in Nat /\ Cardinality(r) \in Nat
<1>1. s \cap L \in SUBSET s /\ s \ C \in SUBSET s /\ r \cap D \in SUBSET r
  OBVIOUS
<1>2. IsFiniteSet(s \cap L) /\ IsFiniteSet(s \ C) /\ IsFiniteSet(r \cap D)
  BY <1>1, FS_Subset
<1> QED
  BY <1>2, FS_CardinalityType

\* The stack is no larger than what the counters say of it.
LEMMA StackSize ==
    ASSUME NEW s, NEW n, NEW r, NEW L, NEW C, NEW D, NEW h, NEW l, NEW q, NEW d,
           Sound(s, n, r, L, C, D, h, l, q, d)
    PROVE  Cardinality(s) <= l + q + h /\ q <= Cardinality(n)
<1> DEFINE A == s \cap L
           B == s \ C
<1>0. /\ Shape(s, n, r, L, C, D) /\ IsFiniteSet(s) /\ IsFiniteSet(r)
      /\ l = Cardinality(A) /\ q = Cardinality(B) /\ h = Cardinality(r)
  BY DEF Sound
<1>1. IsFiniteSet(A) /\ IsFiniteSet(B) /\ IsFiniteSet(r) /\ IsFiniteSet(s)
  BY <1>0, Finite
<1>2. s \in SUBSET ((A \cup B) \cup r)
  BY <1>0 DEF Shape
<1>3. n \in SUBSET s /\ B \in SUBSET n
  BY <1>0 DEF Shape
<1> HIDE DEF A, B
<1>4. /\ IsFiniteSet(A \cup B)
      /\ Cardinality(A \cup B) = Cardinality(A) + Cardinality(B) - Cardinality(A \cap B)
      /\ IsFiniteSet(A \cap B)
  <2>1. A \cap B \in SUBSET A
    OBVIOUS
  <2> QED
    BY <1>1, <2>1, FS_Union, FS_Subset
<1>5. /\ IsFiniteSet((A \cup B) \cup r)
      /\ Cardinality((A \cup B) \cup r)
           = Cardinality(A \cup B) + Cardinality(r) - Cardinality((A \cup B) \cap r)
      /\ IsFiniteSet((A \cup B) \cap r)
  <2>1. (A \cup B) \cap r \in SUBSET r
    OBVIOUS
  <2> QED
    BY <1>4, <2>1, FS_Union, FS_Subset
<1>6. Cardinality(s) <= Cardinality((A \cup B) \cup r)
  BY <1>1, <1>2, <1>5, FS_Subset
<1>7. IsFiniteSet(n) /\ Cardinality(B) <= Cardinality(n)
  BY <1>1, <1>3, FS_Subset
<1>8. /\ Cardinality(A) \in Nat /\ Cardinality(B) \in Nat /\ Cardinality(A \cup B) \in Nat
      /\ Cardinality(A \cap B) \in Nat /\ Cardinality((A \cup B) \cap r) \in Nat
      /\ Cardinality(r) \in Nat /\ Cardinality(s) \in Nat
      /\ Cardinality((A \cup B) \cup r) \in Nat
  BY <1>1, <1>4, <1>5, FS_CardinalityType
<1>9. Cardinality(s) <= Cardinality(A) + Cardinality(B) + Cardinality(r)
  BY <1>4, <1>5, <1>6, <1>8
<1> QED
  BY <1>0, <1>7, <1>9

\* An entry of the stack that is not LIR leaves it: dlirs_prune and
\* dlirs_limit_stack.
LEMMA SoundPrune ==
    ASSUME NEW s, NEW n, NEW r, NEW L, NEW C, NEW D, NEW h, NEW l, NEW q, NEW d,
           Sound(s, n, r, L, C, D, h, l, q, d), NEW e, e \in s, e \notin L
    PROVE  /\ Sound(s \ {e}, n \ {e}, r, L, C, D, h, l, IF e \in C THEN q ELSE q - 1, d)
           /\ e \notin C => q > 0
<1>1. /\ Shape(s, n, r, L, C, D) /\ IsFiniteSet(s) /\ IsFiniteSet(r) /\ IsFiniteSet(s \ C)
      /\ h = Cardinality(r) /\ l = Cardinality(s \cap L)
      /\ q = Cardinality(s \ C) /\ d = Cardinality(r \cap D)
  BY Finite DEF Sound
<1>2. Shape(s \ {e}, n \ {e}, r, L, C, D)
  BY <1>1 DEF Shape
<1>3. IsFiniteSet(s \ {e}) /\ (s \ {e}) \cap L = s \cap L
  BY <1>1, FS_RemoveElement
<1>4. CASE e \in C
  <2>1. (s \ {e}) \ C = s \ C
    BY <1>4
  <2> QED
    BY <1>1, <1>2, <1>3, <1>4, <2>1 DEF Sound
<1>5. CASE e \notin C
  <2>1. (s \ {e}) \ C = (s \ C) \ {e} /\ e \in s \ C
    BY <1>5
  <2>2. Cardinality((s \ {e}) \ C) = q - 1 /\ q > 0
    BY <1>1, <2>1, CardMinus
  <2> QED
    BY <1>1, <1>2, <1>3, <1>5, <2>2 DEF Sound
<1> QED
  BY <1>4, <1>5

\* One that becomes LIR leaves all tables on its way to the tail of the stack:
\* dlirs_hir_in_lirs with a resident entry ...
LEMMA SoundPromote ==
    ASSUME NEW s, NEW n, NEW r, NEW L, NEW C, NEW D, NEW h, NEW l, NEW q, NEW d,
           Sound(s, n, r, L, C, D, h, l, q, d), NEW e, e \in s, e \notin L, e \in C
    PROVE  /\ Sound(s \ {e}, n \ {e}, r \ {e}, L \cup {e}, C, D, h - 1, l, q, d)
           /\ h > 0
<1>1. /\ Shape(s, n, r, L, C, D) /\ IsFiniteSet(s) /\ IsFiniteSet(r)
      /\ h = Cardinality(r) /\ l = Cardinality(s \cap L)
      /\ q = Cardinality(s \ C) /\ d = Cardinality(r \cap D)
  BY Finite DEF Sound
<1>2. e \in Entries /\ e \in r /\ e \notin D
  BY <1>1 DEF Shape
<1>3. Shape(s \ {e}, n \ {e}, r \ {e}, L \cup {e}, C, D)
  BY <1>1, <1>2 DEF Shape
<1>4. IsFiniteSet(s \ {e})
  BY <1>1, FS_RemoveElement
<1>5. /\ (s \ {e}) \cap (L \cup {e}) = s \cap L /\ (r \ {e}) \cap D = r \cap D
      /\ (s \ {e}) \ C = s \ C
  BY <1>2
<1>6. IsFiniteSet(r \ {e}) /\ Cardinality(r \ {e}) = h - 1 /\ h > 0
  BY <1>1, <1>2, CardMinus
<1> QED
  BY <1>1, <1>3, <1>4, <1>5, <1>6 DEF Sound

\* ... and with one that only the stack remembers.
LEMMA SoundRecall ==
    ASSUME NEW s, NEW n, NEW r, NEW L, NEW C, NEW D, NEW h, NEW l, NEW q, NEW d,
           Sound(s, n, r, L, C, D, h, l, q, d), NEW e, e \in s, e \notin L, e \notin C
    PROVE  /\ Sound(s \ {e}, n \ {e}, r, L \cup {e}, C \cup {e}, D, h, l, q - 1, d)
           /\ q > 0
<1>1. /\ Shape(s, n, r, L, C, D) /\ IsFiniteSet(s) /\ IsFiniteSet(r) /\ IsFiniteSet(s \ C)
      /\ h = Cardinality(r) /\ l = Cardinality(s \cap L)
      /\ q = Cardinality(s \ C) /\ d = Cardinality(r \cap D)
  BY Finite DEF Sound
<1>2. e \in Entries /\ e \notin r /\ e \notin D
  BY <1>1 DEF Shape
<1>3. Shape(s \ {e}, n \ {e}, r, L \cup {e}, C \cup {e}, D)
  BY <1>1, <1>2 DEF Shape
<1>4. IsFiniteSet(s \ {e})
  BY <1>1, FS_RemoveElement
<1>5. (s \ {e}) \cap (L \cup {e}) = s \cap L
  OBVIOUS
<1>6. (s \ {e}) \ (C \cup {e}) = (s \ C) \ {e} /\ e \in s \ C
  OBVIOUS
<1>7. Cardinality((s \ {e}) \ (C \cup {e})) = q - 1 /\ q > 0
  BY <1>1, <1>6, CardMinus
<1> QED
  BY <1>1, <1>3, <1>4, <1>5, <1>7 DEF Sound

\* A resident entry that the stack does not know joins it:
\* dlirs_hit_hir_in_resident_hirs.
LEMMA SoundJoin ==
    ASSUME NEW s, NEW n, NEW r, NEW L, NEW C, NEW D, NEW h, NEW l, NEW q, NEW d,
           Sound(s, n, r, L, C, D, h, l, q, d), NEW e, e \in r, e \notin s
    PROVE  /\ Sound(s \cup {e}, n \cup {e}, r, L, C, D \ {e}, h, l, q,
                    IF e \in D THEN d - 1 ELSE d)
           /\ e \in D => d > 0
<1>1. /\ Shape(s, n, r, L, C, D) /\ IsFiniteSet(s) /\ IsFiniteSet(r) /\ IsFiniteSet(r \cap D)
      /\ h = Cardinality(r) /\ l = Cardinality(s \cap L)
      /\ q = Cardinality(s \ C) /\ d = Cardinality(r \cap D)
  BY Finite DEF Sound
<1>2. e \in Entries /\ e \in C /\ e \notin L
  BY <1>1 DEF Shape
<1>3. Shape(s \cup {e}, n \cup {e}, r, L, C, D \ {e})
  BY <1>1, <1>2 DEF Shape
<1>4. IsFiniteSet(s \cup {e})
  BY <1>1, FS_AddElement
<1>5. (s \cup {e}) \cap L = s \cap L /\ (s \cup {e}) \ C = s \ C
  BY <1>2
<1>6. CASE e \notin D
  <2>1. r \cap (D \ {e}) = r \cap D
    BY <1>6
  <2> QED
    BY <1>1, <1>3, <1>4, <1>5, <1>6, <2>1 DEF Sound
<1>7. CASE e \in D
  <2>1. r \cap (D \ {e}) = (r \cap D) \ {e} /\ e \in r \cap D
    BY <1>7
  <2>2. Cardinality(r \cap (D \ {e})) = d - 1 /\ d > 0
    BY <1>1, <2>1, CardMinus
  <2> QED
    BY <1>1, <1>3, <1>4, <1>5, <1>7, <2>2 DEF Sound
<1> QED
  BY <1>6, <1>7

\* A LIR entry of the stack becomes a demoted resident one: dlirs_evict_lir.
LEMMA SoundDemote ==
    ASSUME NEW s, NEW n, NEW r, NEW L, NEW C, NEW D, NEW h, NEW l, NEW q, NEW d,
           Sound(s, n, r, L, C, D, h, l, q, d), NEW e, e \in s, e \in L
    PROVE  /\ Sound(s \ {e}, n, r \cup {e}, L \ {e}, C, D \cup {e}, h + 1, l - 1, q, d + 1)
           /\ l > 0
<1>1. /\ Shape(s, n, r, L, C, D) /\ IsFiniteSet(s) /\ IsFiniteSet(r)
      /\ IsFiniteSet(s \cap L) /\ IsFiniteSet(r \cap D)
      /\ h = Cardinality(r) /\ l = Cardinality(s \cap L)
      /\ q = Cardinality(s \ C) /\ d = Cardinality(r \cap D)
  BY Finite DEF Sound
<1>2. e \in Entries /\ e \in C /\ e \notin r /\ e \notin D
  BY <1>1 DEF Shape
<1>3. Shape(s \ {e}, n, r \cup {e}, L \ {e}, C, D \cup {e})
  BY <1>1, <1>2 DEF Shape
<1>4. IsFiniteSet(s \ {e})
  BY <1>1, FS_RemoveElement
<1>5. /\ (s \ {e}) \cap (L \ {e}) = (s \cap L) \ {e} /\ e \in s \cap L
      /\ (s \ {e}) \ C = s \ C
      /\ (r \cup {e}) \cap (D \cup {e}) = (r \cap D) \cup {e} /\ e \notin r \cap D
  BY <1>2
<1>6. Cardinality((s \ {e}) \cap (L \ {e})) = l - 1 /\ l > 0
  BY <1>1, <1>5, CardMinus
<1>7. IsFiniteSet(r \cup {e}) /\ Cardinality(r \cup {e}) = h + 1
  BY <1>1, <1>2, CardPlus
<1>8. Cardinality((r \cup {e}) \cap (D \cup {e})) = d + 1
  BY <1>1, <1>5, CardPlus
<1> QED
  BY <1>1, <1>3, <1>4, <1>5, <1>6, <1>7, <1>8 DEF Sound

\* A resident entry leaves resident_hirs: dlirs_evict_resident_hir, when the
\* stack does not know it ...
LEMMA SoundForget ==
    ASSUME NEW s, NEW n, NEW r, NEW L, NEW C, NEW D, NEW h, NEW l, NEW q, NEW d,
           Sound(s, n, r, L, C, D, h, l, q, d), NEW e, e \in r, e \notin s
    PROVE  /\ Sound(s, n, r \ {e}, L, C, D \ {e}, h - 1, l, q, IF e \in D THEN d - 1 ELSE d)
           /\ h > 0 /\ (e \in D => d > 0)
<1>1. /\ Shape(s, n, r, L, C, D) /\ IsFiniteSet(s) /\ IsFiniteSet(r) /\ IsFiniteSet(r \cap D)
      /\ h = Cardinality(r) /\ l = Cardinality(s \cap L)
      /\ q = Cardinality(s \ C) /\ d = Cardinality(r \cap D)
  BY Finite DEF Sound
<1>2. Shape(s, n, r \ {e}, L, C, D \ {e})
  BY <1>1 DEF Shape
<1>3. IsFiniteSet(r \ {e}) /\ Cardinality(r \ {e}) = h - 1 /\ h > 0
  BY <1>1, CardMinus
<1>4. CASE e \notin D
  <2>1. (r \ {e}) \cap (D \ {e}) = r \cap D
    BY <1>4
  <2> QED
    BY <1>1, <1>2, <1>3, <1>4, <2>1 DEF Sound
<1>5. CASE e \in D
  <2>1. (r \ {e}) \cap (D \ {e}) = (r \cap D) \ {e} /\ e \in r \cap D
    BY <1>5
  <2>2. Cardinality((r \ {e}) \cap (D \ {e})) = d - 1 /\ d > 0
    BY <1>1, <2>1, CardMinus
  <2> QED
    BY <1>1, <1>2, <1>3, <1>5, <2>2 DEF Sound
<1> QED
  BY <1>4, <1>5

\* ... and when the stack remembers it.
LEMMA SoundRemember ==
    ASSUME NEW s, NEW n, NEW r, NEW L, NEW C, NEW D, NEW h, NEW l, NEW q, NEW d,
           Sound(s, n, r, L, C, D, h, l, q, d), NEW e, e \in r, e \in s
    PROVE  /\ Sound(s, n, r \ {e}, L, C \ {e}, D, h - 1, l, q + 1, d)
           /\ h > 0 /\ e \notin D
<1>1. /\ Shape(s, n, r, L, C, D) /\ IsFiniteSet(s) /\ IsFiniteSet(r) /\ IsFiniteSet(s \ C)
      /\ h = Cardinality(r) /\ l = Cardinality(s \cap L)
      /\ q = Cardinality(s \ C) /\ d = Cardinality(r \cap D)
  BY Finite DEF Sound
<1>2. e \in C /\ e \notin L /\ e \notin D
  BY <1>1 DEF Shape
<1>3. Shape(s, n, r \ {e}, L, C \ {e}, D)
  BY <1>1, <1>2 DEF Shape
<1>4. IsFiniteSet(r \ {e}) /\ Cardinality(r \ {e}) = h - 1 /\ h > 0
  BY <1>1, CardMinus
<1>5. /\ (r \ {e}) \cap D = r \cap D
      /\ s \ (C \ {e}) = (s \ C) \cup {e} /\ e \notin s \ C
  BY <1>2
<1>6. Cardinality(s \ (C \ {e})) = q + 1
  BY <1>1, <1>5, CardPlus
<1> QED
  BY <1>1, <1>2, <1>3, <1>4, <1>5, <1>6 DEF Sound

\* A LIR entry joins the stack: the end of dlirs_hir_in_lirs, and a request
\* that finds room for one.
LEMMA SoundAddLir ==
    ASSUME NEW s, NEW n, NEW r, NEW L, NEW C, NEW D, NEW h, NEW l, NEW q, NEW d,
           Sound(s, n, r, L, C, D, h, l, q, d), NEW e, e \in Entries, Fresh(e, s, r)
    PROVE  Sound(s \cup {e}, n, r, L \cup {e}, C \cup {e}, D \ {e}, h, l + 1, q, d)
<1>1. /\ Shape(s, n, r, L, C, D) /\ IsFiniteSet(s) /\ IsFiniteSet(r) /\ IsFiniteSet(s \cap L)
      /\ h = Cardinality(r) /\ l = Cardinality(s \cap L)
      /\ q = Cardinality(s \ C) /\ d = Cardinality(r \cap D)
  BY Finite DEF Sound
<1>2. e \notin s /\ e \notin r
  BY DEF Fresh
<1>3. Shape(s \cup {e}, n, r, L \cup {e}, C \cup {e}, D \ {e})
  BY <1>1, <1>2 DEF Shape, Fresh
<1>4. IsFiniteSet(s \cup {e})
  BY <1>1, FS_AddElement
<1>5. /\ (s \cup {e}) \cap (L \cup {e}) = (s \cap L) \cup {e} /\ e \notin s \cap L
      /\ (s \cup {e}) \ (C \cup {e}) = s \ C
      /\ r \cap (D \ {e}) = r \cap D
  BY <1>2
<1>6. Cardinality((s \cup {e}) \cap (L \cup {e})) = l + 1
  BY <1>1, <1>5, CardPlus
<1> QED
  BY <1>1, <1>3, <1>4, <1>5, <1>6 DEF Sound

\* A new resident HIR entry joins all three tables: the end of dlirs_request.
LEMMA SoundAddHir ==
    ASSUME NEW s, NEW n, NEW r, NEW L, NEW C, NEW D, NEW h, NEW l, NEW q, NEW d,
           Sound(s, n, r, L, C, D, h, l, q, d), NEW e, e \in Entries, Fresh(e, s, r)
    PROVE  Sound(s \cup {e}, n \cup {e}, r \cup {e}, L \ {e}, C \cup {e}, D \ {e},
                 h + 1, l, q, d)
<1>1. /\ Shape(s, n, r, L, C, D) /\ IsFiniteSet(s) /\ IsFiniteSet(r)
      /\ h = Cardinality(r) /\ l = Cardinality(s \cap L)
      /\ q = Cardinality(s \ C) /\ d = Cardinality(r \cap D)
  BY Finite DEF Sound
<1>2. e \notin s /\ e \notin r
  BY DEF Fresh
<1>3. Shape(s \cup {e}, n \cup {e}, r \cup {e}, L \ {e}, C \cup {e}, D \ {e})
  BY <1>1, <1>2 DEF Shape, Fresh
<1>4. IsFiniteSet(s \cup {e})
  BY <1>1, FS_AddElement
<1>5. /\ (s \cup {e}) \cap (L \ {e}) = s \cap L
      /\ (s \cup {e}) \ (C \cup {e}) = s \ C
      /\ (r \cup {e}) \cap (D \ {e}) = r \cap D
  BY <1>2
<1>6. IsFiniteSet(r \cup {e}) /\ Cardinality(r \cup {e}) = h + 1
  BY <1>1, <1>2, CardPlus
<1> QED
  BY <1>1, <1>3, <1>4, <1>5, <1>6 DEF Sound

-----------------------------------------------------------------------------
(* The order of non_resident_hirs is that of the stack                     *)

Ordered(n, s) == \A a, b : Before(n, a, b) => Before(s, a, b)

LEMMA BeforeIn ==
    ASSUME NEW t, NEW a, NEW b, Before(t, a, b)
    PROVE  a \in ToSet(t) /\ b \in ToSet(t)
BY DEF Before, ToSet

\* An entry leaves both tables.
LEMMA OrderedDrop ==
    ASSUME NEW n \in Seq(Entries), NEW s \in Seq(Entries), KeysOnce(n), KeysOnce(s),
           Ordered(n, s), NEW e \in ToSet(n), e \in ToSet(s)
    PROVE  Ordered(ListWithout(n, KeyOf(e)), ListWithout(s, KeyOf(e)))
<1> DEFINE k == KeyOf(e)
<1>1. /\ ListHolds(n, k) /\ ListAt(n, k) = e
      /\ ListHolds(s, k) /\ ListAt(s, k) = e
  BY HoldsIs
<1>2. ToSet(ListWithout(n, k)) = ToSet(n) \ {e} /\ \A a, b : Before(ListWithout(n, k), a, b) => Before(n, a, b)
  BY <1>1, WithoutIs
<1>3. \A a, b : Before(s, a, b) /\ a # e /\ b # e => Before(ListWithout(s, k), a, b)
  BY <1>1, WithoutIs
<1> QED
  BY <1>2, <1>3, BeforeIn, Zenon DEF Ordered

\* An entry that is LIR leaves the stack.
LEMMA OrderedDropLir ==
    ASSUME NEW n \in Seq(Entries), NEW s \in Seq(Entries), KeysOnce(s),
           Ordered(n, s), NEW e \in ToSet(s), e \notin ToSet(n)
    PROVE  Ordered(n, ListWithout(s, KeyOf(e)))
<1> DEFINE k == KeyOf(e)
<1>1. ListHolds(s, k) /\ ListAt(s, k) = e
  BY HoldsIs
<1>2. \A a, b : Before(s, a, b) /\ a # e /\ b # e => Before(ListWithout(s, k), a, b)
  BY <1>1, WithoutIs
<1> QED
  BY <1>2, BeforeIn, Zenon DEF Ordered

\* An entry joins both tables.
LEMMA OrderedAdd ==
    ASSUME NEW n \in Seq(Entries), NEW s \in Seq(Entries), KeysOnce(n), KeysOnce(s),
           ToSet(n) \subseteq ToSet(s),
           Ordered(n, s), NEW e \in Entries, ~ListHolds(n, KeyOf(e)), ~ListHolds(s, KeyOf(e))
    PROVE  Ordered(Append(n, e), Append(s, e))
<1>1. \A a, b : Before(Append(n, e), a, b) => Before(n, a, b) \/ (a \in ToSet(n) /\ b = e)
  BY AppendIs
<1>2. /\ \A a, b : Before(s, a, b) => Before(Append(s, e), a, b)
      /\ \A a \in ToSet(s) : Before(Append(s, e), a, e)
  BY AppendIs
<1>3. \A a \in ToSet(n) : a \in ToSet(s)
  OBVIOUS
<1>4. ASSUME NEW a, NEW b, Before(Append(n, e), a, b) PROVE Before(Append(s, e), a, b)
  <2>1. CASE Before(n, a, b)
    BY <1>2, <2>1 DEF Ordered
  <2>2. CASE a \in ToSet(n) /\ b = e
    BY <1>2, <1>3, <2>2
  <2> QED
    BY <1>1, <1>4, <2>1, <2>2
<1> QED
  BY <1>4 DEF Ordered

\* One that is LIR joins the stack.
LEMMA OrderedAddLir ==
    ASSUME NEW n, NEW s \in Seq(Entries), KeysOnce(s),
           Ordered(n, s), NEW e \in Entries, ~ListHolds(s, KeyOf(e))
    PROVE  Ordered(n, Append(s, e))
<1>1. \A a, b : Before(s, a, b) => Before(Append(s, e), a, b)
  BY AppendIs
<1> QED
  BY <1>1, Zenon DEF Ordered

-----------------------------------------------------------------------------
(* The inductive invariant of the client that asks again                   *)

Tables ==
    /\ KeysOnce(stack) /\ KeysOnce(index) /\ KeysOnce(resident)
    /\ Sound(ToSet(stack), ToSet(index), ToSet(resident),
             LirIn(entry), CachedIn(entry), DemotedIn(entry),
             hirs_count, lirs_count, non_resident, demoted)
    /\ Ordered(index, stack)

\* dlirs_prune is running, or the front of the stack is LIR.
Bottom == pc # "prune" /\ stack # << >> => Head(stack) \in LirIn(entry)

\* A HIR entry is resident, and one is remembered after it was evicted, only
\* when the cache has been full; Underway is the entry of the call that has
\* left the tables or is not there yet.
Underway == IF Promoting \/ Requesting THEN 1 ELSE 0
Filled ==
    /\ ~Promoting /\ lirs_count = 0 => hirs_count = 0
    /\ hirs_count + lirs_count + Underway < CacheSize => non_resident = 0
    /\ Requesting => lirs_count >= 1

\* The stack is within its bound, or dlirs_limit_stack is about to make it so.
Room ==
    /\ pc = "limit" => /\ call.size <= Len(index)
                       /\ Len(stack) <= 2 * CacheSize + call.size
    /\ pc # "limit" => Len(stack) + (IF Promoting THEN 1 ELSE 0) <= 2 * CacheSize

\* The entry of a call that is making room is in no table.
Absent(k) ==
    ~ListHolds(stack, k) /\ ~ListHolds(index, k) /\ ~ListHolds(resident, k)
Locals ==
    /\ Promoting => /\ KeyOf(call.entry) = call.key
                    /\ call.entry \in LirIn(entry) /\ call.entry \in CachedIn(entry)
                    /\ call.entry \notin DemotedIn(entry)
                    /\ call.op = "get" /\ call.in_cache = call.contained
    /\ Requesting => call.op = "request"
    /\ Promoting \/ Requesting => Absent(call.key)

\* What a get answers, and what its caller may rely on when it asks again.
Answers ==
    /\ call.op = "get" /\ (pc = "limit" \/ (pc = "prune" /\ call.back = "ret"))
         => call.result = "hit" /\ call.contained
    /\ call.op = "get" /\ pc = "ret" => (call.result = "hit" <=> call.contained)
    /\ call.result = "null" => call.op = "get"
    /\ (call.op = "get" /\ pc = "ret" /\ call.result = "null") \/ pc = "ask"
         => \A e \in ToSet(stack) : KeyOf(e) = call.key => e \in CachedIn(entry)

ExactInv == Tables /\ Bottom /\ Filled /\ Room /\ Locals /\ Answers

\* What the invariant says of types and finiteness.
LEMMA ExactTypes ==
    ASSUME IInv, ExactInv
    PROVE  /\ stack \in Seq(Entries) /\ index \in Seq(Entries)
           /\ resident \in Seq(Entries)
           /\ entry \in [Entries -> Objects] /\ entry \in [Entries -> Marked]
           /\ IsFiniteSet(ToSet(stack)) /\ IsFiniteSet(ToSet(resident))
           /\ Len(stack) = Cardinality(ToSet(stack))
           /\ Len(index) = Cardinality(ToSet(index))
           /\ Len(resident) = Cardinality(ToSet(resident))
           /\ Len(stack) \in Nat /\ Len(index) \in Nat /\ Len(resident) \in Nat
           /\ hirs_count \in Nat /\ lirs_count \in Nat /\ non_resident \in Nat /\ demoted \in Nat
           /\ CacheSize \in Nat /\ CacheSize >= 2 /\ hirs_count + lirs_count <= CacheSize
           /\ hirs_limit \in Int /\ lirs_limit \in Int /\ hirs_limit >= 1 /\ lirs_limit >= 1
           /\ call \in Calls
           /\ KeysOnce(stack) /\ KeysOnce(index) /\ KeysOnce(resident)
           /\ ToSet(index) = ToSet(stack) \ LirIn(entry)
           /\ ToSet(stack) \subseteq Entries /\ ToSet(resident) \subseteq Entries
<1>1. /\ stack \in Seq(Entries) /\ index \in Seq(Entries)
      /\ resident \in Seq(Entries) /\ entry \in [Entries -> Objects] /\ call \in Calls
      /\ hirs_count \in Nat /\ lirs_count \in Nat /\ non_resident \in Nat /\ demoted \in Nat
      /\ hirs_limit \in Int /\ lirs_limit \in Int
  BY CountersNat DEF IInv, ListTypeOK
<1>2. hirs_count + lirs_count <= CacheSize
  BY DEF IInv, ListWithinCapacity
<1>3. hirs_limit >= 1 /\ lirs_limit >= 1
  BY <1>1, SizeAssumption DEF IInv, LimitsPartition
<1>4. /\ KeysOnce(stack) /\ KeysOnce(index) /\ KeysOnce(resident)
      /\ ToSet(index) = ToSet(stack) \ LirIn(entry)
      /\ ToSet(stack) \subseteq Entries /\ ToSet(resident) \subseteq Entries
  BY DEF ExactInv, Tables, Sound, Shape
<1>5. /\ IsFiniteSet(ToSet(stack)) /\ Cardinality(ToSet(stack)) = Len(stack)
      /\ Cardinality(ToSet(index)) = Len(index)
      /\ IsFiniteSet(ToSet(resident)) /\ Cardinality(ToSet(resident)) = Len(resident)
  BY <1>1, <1>4, CardIs
<1>6. Len(stack) \in Nat /\ Len(index) \in Nat /\ Len(resident) \in Nat
  BY <1>1
<1>7. entry \in [Entries -> Marked]
  BY <1>1, ObjectsMarked
<1> QED
  BY <1>1, <1>2, <1>3, <1>4, <1>5, <1>6, <1>7, SizeAssumption

-----------------------------------------------------------------------------
(* The counters of an exact cache are far from where a size_t wraps around *)

LEMMA ExactSizes ==
    ASSUME IInv, ExactInv
    PROVE  /\ hirs_count \in Counters /\ lirs_count \in Counters
           /\ non_resident \in Counters /\ demoted \in Counters
           /\ P!Inc(hirs_count) = hirs_count + 1 /\ P!Inc(lirs_count) = lirs_count + 1
           /\ P!Inc(demoted) = demoted + 1
           /\ pc # "limit" => non_resident <= 2 * CacheSize /\ P!Inc(non_resident) = non_resident + 1
           /\ P!NoRoom <=> hirs_count + lirs_count >= CacheSize
<1>1. /\ hirs_count \in Counters /\ lirs_count \in Counters
      /\ non_resident \in Counters /\ demoted \in Counters
  BY DEF IInv, ListTypeOK
<1>2. /\ hirs_count \in Nat /\ lirs_count \in Nat /\ non_resident \in Nat /\ demoted \in Nat
      /\ CacheSize \in Nat /\ hirs_count + lirs_count <= CacheSize /\ Len(stack) \in Nat
  BY ExactTypes
<1>3. demoted <= hirs_count
  <2>1. /\ hirs_count = Cardinality(ToSet(resident))
        /\ demoted = Cardinality(ToSet(resident) \cap DemotedIn(entry))
    BY DEF ExactInv, Tables, Sound
  <2> QED
    BY <2>1, FS_Subset, ExactTypes
<1>4. non_resident <= Len(stack)
  <2>1. non_resident = Cardinality(ToSet(stack) \ CachedIn(entry))
    BY DEF ExactInv, Tables, Sound
  <2> QED
    BY <2>1, FS_Subset, ExactTypes
<1>5. pc # "limit" => non_resident <= 2 * CacheSize
  <2>1. pc # "limit" => Len(stack) <= 2 * CacheSize
    BY <1>2 DEF ExactInv, Room
  <2> QED
    BY <1>2, <1>4, <2>1
<1>6. P!NoRoom <=> hirs_count + lirs_count >= CacheSize
  BY <1>2, NoRoomIs DEF IInv
<1>7. /\ hirs_count <= 4 * CacheSize /\ lirs_count <= 4 * CacheSize /\ demoted <= 4 * CacheSize
      /\ pc # "limit" => non_resident <= 4 * CacheSize
  BY <1>2, <1>3, <1>5
<1> QED
  BY <1>1, <1>5, <1>6, <1>7, IncType

-----------------------------------------------------------------------------
(* The keys whose values the cache holds                                   *)

Kept(s, r, C) == (s \cap C) \cup r
KeysOf(A) == {KeyOf(e) : e \in A}
Stored == KeysOf(Kept(ToSet(stack), ToSet(resident), CachedIn(entry)))

\* One entry less, of a key that no other entry has.
LEMMA KeysLess ==
    ASSUME NEW A, NEW B, NEW e, B = A \ {e}, \A f \in A : KeyOf(f) = KeyOf(e) => f = e
    PROVE  KeysOf(B) = KeysOf(A) \ {KeyOf(e)}
BY Zenon DEF KeysOf

LEMMA KeysMore ==
    ASSUME NEW A, NEW B, NEW e, B = A \cup {e}
    PROVE  KeysOf(B) = KeysOf(A) \cup {KeyOf(e)}
BY Zenon DEF KeysOf

-----------------------------------------------------------------------------
(* Steps of the client that asks again                                     *)

\* dlirs_prune is done: its caller goes on.
LEMMA ResumeExact ==
    ASSUME IInv, ExactInv, pc = "prune", pc' = call.back, UNCHANGED <<P!data, call>>,
           stack # << >> => Head(stack) \in LirIn(entry)
    PROVE  ExactInv'
<1>1. call.back \in {"ret", "eject_lir", "request"}
  BY ExactTypes DEF Calls
<1>2. UNCHANGED <<stack, index, resident, hirs_limit, lirs_limit, hirs_count,
                  lirs_count, demoted, non_resident, entry, evicted, call>>
  BY DEF P!data, P!tables, P!limits, P!counters
<1>3. (Promoting' <=> Promoting) /\ (Requesting' <=> Requesting)
  BY <1>1, <1>2 DEF Promoting, Requesting
<1>4. Tables'
  BY <1>2 DEF ExactInv, Tables
<1>5. Bottom'
  BY <1>2 DEF Bottom
<1>6. Filled' /\ Room'
  BY <1>1, <1>2, <1>3 DEF ExactInv, Filled, Room, Underway
<1>7. Locals'
  BY <1>2, <1>3 DEF ExactInv, Locals, Absent
<1>8. Answers'
  BY <1>1, <1>2 DEF ExactInv, Answers
<1> QED
  BY <1>4, <1>5, <1>6, <1>7, <1>8 DEF ExactInv

\* An entry leaves the stack and non_resident_hirs.
LEMMA DropExact ==
    ASSUME IInv, ExactInv, NEW e \in ToSet(stack), e \notin LirIn(entry),
           stack' = ListWithout(stack, KeyOf(e)),
           index' = ListWithout(index, KeyOf(e)),
           non_resident' = P!LeftStack(e),
           UNCHANGED <<resident, hirs_count, lirs_count, demoted>>,
           LirIn(entry') = LirIn(entry), CachedIn(entry') = CachedIn(entry),
           DemotedIn(entry') = DemotedIn(entry)
    PROVE  /\ Tables'
           /\ non_resident' <= non_resident /\ non_resident' \in Nat
           /\ Len(stack') = Len(stack) - 1
           /\ Len(index') = Len(index) - 1
           /\ ToSet(stack') = ToSet(stack) \ {e}
           /\ Head(stack) # e => stack' # << >> /\ Head(stack') = Head(stack)
           /\ \A k : Absent(k) => Absent(k)'
           /\ Stored' = Stored
<1> DEFINE s == ToSet(stack)
           n == ToSet(index)
           r == ToSet(resident)
           L == LirIn(entry)
           C == CachedIn(entry)
           D == DemotedIn(entry)
           k == KeyOf(e)
           q == IF e \in C THEN non_resident ELSE non_resident - 1
<1>1. Sound(s, n, r, L, C, D, hirs_count, lirs_count, non_resident, demoted)
  BY DEF ExactInv, Tables
<1>2. e \in s /\ e \notin L
  OBVIOUS
<1>3. /\ Sound(s \ {e}, n \ {e}, r, L, C, D, hirs_count, lirs_count, q, demoted)
      /\ e \notin C => non_resident > 0
  <2> HIDE DEF s, n, r, L, C, D
  <2> QED
    BY <1>1, <1>2, SoundPrune
<1>4. /\ KeysOnce(stack) /\ KeysOnce(index)
      /\ stack \in Seq(Entries) /\ index \in Seq(Entries)
      /\ e \in n /\ e \in Entries
  BY <1>2, ExactTypes
<1>5. /\ ListHolds(stack, k) /\ ListAt(stack, k) = e
      /\ ListHolds(index, k) /\ ListAt(index, k) = e
  BY <1>2, <1>4, HoldsIs
<1>6. /\ KeysOnce(stack') /\ ToSet(stack') = s \ {e} /\ Len(stack') = Len(stack) - 1
      /\ Head(stack) # e => stack' # << >> /\ Head(stack') = Head(stack)
      /\ stack' \in Seq(Entries)
  BY <1>4, <1>5, WithoutIs, WithoutType
<1>7. /\ KeysOnce(index') /\ ToSet(index') = n \ {e}
      /\ Len(index') = Len(index) - 1
      /\ index' \in Seq(Entries)
  BY <1>4, <1>5, WithoutIs, WithoutType
<1>8. Ordered(index', stack')
  <2>1. Ordered(index, stack)
    BY DEF ExactInv, Tables
  <2>2. Ordered(ListWithout(index, k), ListWithout(stack, k))
    BY <1>2, <1>4, <2>1, OrderedDrop
  <2> QED
    BY <2>2
<1>9. entry[e].in_cache <=> e \in C
  BY <1>4 DEF CachedIn
<1>10. non_resident' = q /\ non_resident' <= non_resident /\ non_resident' \in Nat
  <2>1. non_resident \in Nat
    BY ExactTypes
  <2>2. CASE e \in C
    BY <1>9, <2>1, <2>2 DEF P!LeftStack
  <2>3. CASE e \notin C
    <3>1. non_resident' = P!Dec(non_resident) /\ non_resident > 0
      BY <1>3, <1>9, <2>3 DEF P!LeftStack
    <3> QED
      BY <2>1, <2>3, <3>1, DecType, ExactSizes
  <2> QED
    BY <2>2, <2>3
<1>11. Tables'
  <2>1. ToSet(resident') = r /\ KeysOnce(resident') /\ LirIn(entry') = L
        /\ CachedIn(entry') = C /\ DemotedIn(entry') = D
        /\ hirs_count' = hirs_count /\ lirs_count' = lirs_count /\ demoted' = demoted
    BY ExactTypes
  <2> HIDE DEF s, n, r, L, C, D, q
  <2> QED
    BY <1>3, <1>6, <1>7, <1>8, <1>10, <2>1 DEF Tables
<1>12. ASSUME NEW key, Absent(key) PROVE Absent(key)'
  BY <1>4, <1>6, <1>7, <1>12, HoldsIs DEF Absent
<1>13. Stored' = Stored
  <2>1. e \in C => e \in r
    BY <1>1, <1>2 DEF Sound, Shape
  <2>2. ToSet(stack') = s \ {e} /\ ToSet(resident') = r /\ CachedIn(entry') = C
    BY <1>6
  <2> HIDE DEF s, r, C
  <2>3. Kept(s \ {e}, r, C) = Kept(s, r, C)
    BY <2>1 DEF Kept
  <2> QED
    BY <2>2, <2>3 DEF Stored, s, r, C
<1> QED
  BY <1>6, <1>7, <1>10, <1>11, <1>12, <1>13

\* A process that is lost, or that has destroyed the cache, is not running.
LEMMA LostStops == ASSUME pc' \in P!Lost PROVE ~ListRunning'
BY DEF ListRunning

\* One iteration of dlirs_prune.
LEMMA PruneFrontExact ==
    ASSUME IInv, ExactInv, pc = "prune", stack # << >>, Head(stack) \notin LirIn(entry), P!PruneFront
    PROVE  ExactInv' /\ Stored' = Stored
<1> DEFINE e == Head(stack)
           k == KeyOf(e)
           once == P!Release(entry, e)
<1>1. /\ stack \in Seq(Entries) /\ KeysOnce(stack)
      /\ index \in Seq(Entries) /\ KeysOnce(index)
      /\ entry \in [Entries -> Marked]
  BY ExactTypes DEF ExactInv, Tables
<1>2. e \in Entries /\ e \in ToSet(stack) /\ ListAt(stack, k) = e
  BY <1>1, TailIs
<1>3. ListHolds(index, k) /\ ListAt(index, k) = e
  <2>1. e \in ToSet(index)
    BY <1>2 DEF ExactInv, Tables, Sound, Shape
  <2> QED
    BY <1>1, <2>1, HoldsIs
<1>4. /\ stack' = ListWithout(stack, k)
      /\ index' = ListWithout(index, k)
      /\ entry' = P!Release(once, e)
      /\ non_resident' = P!LeftStack(e)
      /\ UNCHANGED <<resident, P!limits, hirs_count, lirs_count, demoted, evicted, call, pc>>
  BY <1>2, <1>3 DEF P!PruneFront, P!Forgotten
<1>5. /\ once \in [Entries -> Marked] /\ LirIn(once) = LirIn(entry)
      /\ CachedIn(once) = CachedIn(entry) /\ DemotedIn(once) = DemotedIn(entry)
  BY <1>1, <1>2, ReleaseFlags
<1> HIDE DEF once, k
<1>6. /\ LirIn(entry') = LirIn(entry) /\ CachedIn(entry') = CachedIn(entry)
      /\ DemotedIn(entry') = DemotedIn(entry)
  BY <1>2, <1>4, <1>5, ReleaseFlags
<1> HIDE DEF e
<1>7. /\ Tables'
      /\ non_resident' <= non_resident /\ non_resident' \in Nat
      /\ Len(stack') = Len(stack) - 1
      /\ ToSet(stack') = ToSet(stack) \ {e}
      /\ \A key : Absent(key) => Absent(key)'
      /\ Stored' = Stored
  BY <1>2, <1>4, <1>6, DropExact DEF e, k
<1>8. pc' = "prune" /\ call' = call
  BY <1>4
<1>9. (Promoting' <=> Promoting) /\ (Requesting' <=> Requesting)
  BY <1>4 DEF Promoting, Requesting
<1>10. Bottom'
  BY <1>8 DEF Bottom
<1>11. Filled'
  <2>1. hirs_count' = hirs_count /\ lirs_count' = lirs_count
    BY <1>4
  <2>2. Underway' = Underway
    BY <1>9 DEF Underway
  <2>3. non_resident = 0 => non_resident' = 0
    BY <1>7
  <2> QED
    BY <1>9, <2>1, <2>2, <2>3 DEF ExactInv, Filled
<1>12. Room'
  <2>1. Len(stack) \in Nat /\ CacheSize \in Nat
    BY ExactTypes
  <2>2. Len(stack) + (IF Promoting THEN 1 ELSE 0) <= 2 * CacheSize
    BY DEF ExactInv, Room
  <2>3. Len(stack') + (IF Promoting' THEN 1 ELSE 0) <= 2 * CacheSize
    BY <1>7, <1>9, <2>1, <2>2
  <2> QED
    BY <1>8, <2>3 DEF Room
<1>13. Locals'
  BY <1>6, <1>7, <1>8, <1>9 DEF ExactInv, Locals
<1>14. Answers'
  BY <1>8 DEF ExactInv, Answers
<1> QED
  BY <1>7, <1>10, <1>11, <1>12, <1>13, <1>14 DEF ExactInv

LEMMA PruneExact ==
    ASSUME IInv, ExactInv, P!Prune
    PROVE  ListRunning' => ExactInv'
<1>1. pc = "prune"
  BY DEF P!Prune
<1>2. stack # << >> => /\ Head(stack) \in Entries
                       /\ Head(stack) \in LirIn(entry) <=> entry[Head(stack)].is_LIR
  BY FrontType DEF IInv, ListTypeOK, LirIn
<1>3. CASE stack = << >>
  BY <1>1, <1>3, ResumeExact DEF P!Prune
<1>4. CASE stack # << >> /\ ~P!Live(Head(stack))
  BY <1>4 DEF P!Prune, P!Unless, ListRunning, P!Lost
<1>5. CASE stack # << >> /\ P!Live(Head(stack)) /\ entry[Head(stack)].is_LIR
  BY <1>1, <1>2, <1>5, ResumeExact DEF P!Prune
<1>6. CASE stack # << >> /\ P!Live(Head(stack)) /\ ~entry[Head(stack)].is_LIR
  <2>1. P!Unless(P!PruneFault, P!PruneFront) /\ P!PruneFault \in {"none", "abort"}
    BY <1>6 DEF P!Prune, P!PruneFault
  <2>2. P!PruneFront \/ pc' \in P!Lost
    BY <2>1 DEF P!Unless, P!Lost
  <2> QED
    BY <1>1, <1>2, <1>6, <2>2, PruneFrontExact, LostStops
<1> QED
  BY <1>3, <1>4, <1>5, <1>6

\* One iteration of dlirs_limit_stack.
LEMMA DropOldestExact ==
    ASSUME IInv, ExactInv, pc = "limit", call.size > 0, P!DropOldest
    PROVE  ExactInv' /\ Stored' = Stored
<1> DEFINE e == Head(index)
           k == KeyOf(e)
           once == P!Release(entry, ListAt(stack, k))
<1>1. /\ stack \in Seq(Entries) /\ KeysOnce(stack)
      /\ index \in Seq(Entries) /\ KeysOnce(index)
      /\ entry \in [Entries -> Marked] /\ call \in Calls
  BY ExactTypes DEF ExactInv, Tables
<1>2. call.size \in Nat /\ call.size <= Len(index) /\ index # << >>
  <2>1. call.size \in Nat /\ call.size <= Len(index) /\ Len(index) \in Nat
    BY <1>1 DEF ExactInv, Room, Calls
  <2> QED
    BY <2>1
<1>3. e \in Entries /\ e \in ToSet(index) /\ Tail(index) = ListWithout(index, k)
  BY <1>1, <1>2, TailIs
<1>4. e \in ToSet(stack) /\ e \notin LirIn(entry)
  BY <1>3 DEF ExactInv, Tables, Sound, Shape
<1>5. ListAt(stack, k) = e
  BY <1>1, <1>4, HoldsIs
<1>6. /\ stack' = ListWithout(stack, k)
      /\ index' = ListWithout(index, k)
      /\ entry' = P!Release(once, e)
      /\ non_resident' = P!LeftStack(e)
      /\ call' = [call EXCEPT !.size = @ - 1]
      /\ UNCHANGED <<resident, P!limits, hirs_count, lirs_count, demoted, evicted, pc>>
  BY <1>3 DEF P!DropOldest
<1>7. /\ once \in [Entries -> Marked] /\ LirIn(once) = LirIn(entry)
      /\ CachedIn(once) = CachedIn(entry) /\ DemotedIn(once) = DemotedIn(entry)
  BY <1>1, <1>3, <1>5, ReleaseFlags
<1> HIDE DEF once, k
<1>8. /\ LirIn(entry') = LirIn(entry) /\ CachedIn(entry') = CachedIn(entry)
      /\ DemotedIn(entry') = DemotedIn(entry)
  BY <1>3, <1>6, <1>7, ReleaseFlags
<1> HIDE DEF e
<1>9. /\ Tables'
      /\ non_resident' <= non_resident /\ non_resident' \in Nat
      /\ Len(stack') = Len(stack) - 1
      /\ Len(index') = Len(index) - 1
      /\ ToSet(stack') = ToSet(stack) \ {e}
      /\ Head(stack) # e => stack' # << >> /\ Head(stack') = Head(stack)
      /\ \A key : Absent(key) => Absent(key)'
      /\ Stored' = Stored
  BY <1>4, <1>6, <1>8, DropExact DEF k
<1>10. /\ pc' = "limit" /\ call'.size = call.size - 1 /\ call'.op = call.op
       /\ call'.result = call.result /\ call'.contained = call.contained
  BY <1>1, <1>6 DEF Calls
<1>11. ~Promoting /\ ~Promoting' /\ ~Requesting /\ ~Requesting'
  BY <1>10 DEF Promoting, Requesting
<1>12. Bottom'
  <2>1. stack # << >>
    BY <1>4 DEF ToSet
  <2>2. Head(stack) \in LirIn(entry)
    BY <2>1 DEF ExactInv, Bottom
  <2>3. Head(stack') = Head(stack)
    BY <1>4, <1>9, <2>2
  <2> QED
    BY <1>8, <2>2, <2>3 DEF Bottom
<1>13. Filled'
  <2>1. hirs_count' = hirs_count /\ lirs_count' = lirs_count /\ Underway' = Underway
    BY <1>6, <1>11 DEF Underway
  <2> QED
    BY <1>9, <1>11, <2>1, ExactTypes DEF ExactInv, Filled
<1>14. Room'
  <2>1. /\ call.size <= Len(index) /\ Len(stack) <= 2 * CacheSize + call.size
        /\ Len(stack) \in Nat /\ Len(index) \in Nat /\ CacheSize \in Nat
    BY ExactTypes DEF ExactInv, Room
  <2>2. call'.size <= Len(index') /\ Len(stack') <= 2 * CacheSize + call'.size
    BY <1>2, <1>9, <1>10, <2>1
  <2> QED
    BY <1>10, <2>2 DEF Room
<1>15. Locals'
  BY <1>11 DEF Locals
<1>16. Answers'
  BY <1>10 DEF ExactInv, Answers
<1> QED
  BY <1>9, <1>12, <1>13, <1>14, <1>15, <1>16 DEF ExactInv

LEMMA LimitStackExact ==
    ASSUME IInv, ExactInv, P!LimitStack
    PROVE  /\ ListRunning' => ExactInv'
           /\ pc' # "fatal"
<1>1. pc = "limit" /\ call \in Calls
  BY ExactTypes DEF P!LimitStack
<1>2. call.size \in Nat
  BY <1>1 DEF Calls
<1>3. CASE call.size > 0
  <2>1. P!DropFault \in {"none", "abort"}
    <3>1. Len(index) >= call.size /\ Len(index) \in Nat
      BY <1>1, <1>3, ExactTypes DEF ExactInv, Room
    <3>2. index # << >>
      BY <1>2, <1>3, <3>1
    <3>3. /\ stack \in Seq(Entries) /\ KeysOnce(stack)
          /\ index \in Seq(Entries) /\ KeysOnce(index)
      BY ExactTypes DEF ExactInv, Tables
    <3>4. Head(index) \in ToSet(index)
      BY <3>2, <3>3, TailIs
    <3>5. Head(index) \in ToSet(stack)
      BY <3>4 DEF ExactInv, Tables, Sound, Shape
    <3>6. ListHolds(stack, KeyOf(Head(index)))
      BY <3>3, <3>5, HoldsIs
    <3> QED
      BY <3>2, <3>6 DEF P!DropFault
  <2>2. P!DropOldest \/ pc' = "abort"
    BY <1>3, <2>1 DEF P!LimitStack, P!Unless
  <2>3. CASE P!DropOldest
    <3>1. pc' = pc
      BY <2>3 DEF P!DropOldest
    <3> QED
      BY <1>1, <1>3, <2>3, <3>1, DropOldestExact
  <2> QED
    BY <2>2, <2>3, LostStops DEF P!Lost
<1>4. CASE ~(call.size > 0)
  <2>1. /\ pc' = "ret" /\ UNCHANGED <<P!data, call>>
    BY <1>4 DEF P!LimitStack
  <2>2. UNCHANGED <<stack, index, resident, hirs_count,
                    lirs_count, demoted, non_resident, entry, call>>
    BY <2>1 DEF P!data, P!tables, P!limits, P!counters
  <2>3. ~Promoting /\ ~Promoting' /\ ~Requesting /\ ~Requesting'
    BY <1>1, <2>1 DEF Promoting, Requesting
  <2>4. Tables' /\ Bottom' /\ Locals'
    BY <1>1, <2>2, <2>3 DEF ExactInv, Tables, Bottom, Locals
  <2>5. Filled'
    BY <2>2, <2>3 DEF ExactInv, Filled, Underway
  <2>6. Room'
    <3>1. Len(stack) <= 2 * CacheSize + call.size
      BY <1>1 DEF ExactInv, Room
    <3>2. Len(stack) \in Nat /\ CacheSize \in Nat
      BY ExactTypes
    <3>3. call.size = 0
      BY <1>2, <1>4
    <3>4. Len(stack) + 0 <= 2 * CacheSize
      BY <3>1, <3>2, <3>3
    <3> QED
      BY <2>1, <2>2, <2>3, <3>4 DEF Room
  <2>7. Answers'
    BY <1>1, <2>1, <2>2 DEF ExactInv, Answers
  <2> QED
    BY <2>1, <2>4, <2>5, <2>6, <2>7 DEF ExactInv
<1> QED
  BY <1>3, <1>4

\* The key of a table's element is not absent.
LEMMA AbsentIs ==
    ASSUME IInv, ExactInv, NEW k
    PROVE  Absent(k) <=> \A e \in ToSet(stack) \cup ToSet(resident) : KeyOf(e) # k
<1>1. /\ stack \in Seq(Entries) /\ KeysOnce(stack)
      /\ index \in Seq(Entries) /\ KeysOnce(index)
      /\ resident \in Seq(Entries) /\ KeysOnce(resident)
  BY ExactTypes
<1>2. \A e \in ToSet(index) : e \in ToSet(stack)
  BY ExactTypes
<1>3. /\ ListHolds(stack, k) <=> \E e \in ToSet(stack) : KeyOf(e) = k
      /\ ListHolds(index, k) <=> \E e \in ToSet(index) : KeyOf(e) = k
      /\ ListHolds(resident, k) <=> \E e \in ToSet(resident) : KeyOf(e) = k
  BY <1>1, HoldsIs
<1> QED
  BY <1>2, <1>3 DEF Absent

\* dlirs_evict_lir on a stack that is not empty.
LEMMA DemoteExact ==
    ASSUME IInv, ExactInv, pc \in {"eject_lir", "request"}, stack # << >>, P!DemoteFront(pc),
           pc = "request" => lirs_count > lirs_limit
    PROVE  ExactInv' /\ Stored' = Stored
<1> DEFINE e == Head(stack)
           k == KeyOf(e)
           s == ToSet(stack)
           n == ToSet(index)
           r == ToSet(resident)
           L == LirIn(entry)
           C == CachedIn(entry)
           D == DemotedIn(entry)
           o == P!Demoted(entry[e])
<1>1. /\ stack \in Seq(Entries) /\ KeysOnce(stack)
      /\ resident \in Seq(Entries) /\ KeysOnce(resident)
      /\ entry \in [Entries -> Marked] /\ call \in Calls /\ n = s \ L
      /\ index \in Seq(Entries)
  BY ExactTypes
<1>2. /\ e \in Entries /\ e \in s /\ ListHolds(stack, k) /\ ListAt(stack, k) = e
      /\ Tail(stack) = ListWithout(stack, k)
  BY <1>1, TailIs
<1>3. e \in L
  BY DEF ExactInv, Bottom
<1>4. /\ Sound(s \ {e}, n, r \cup {e}, L \ {e}, C, D \cup {e},
               hirs_count + 1, lirs_count - 1, non_resident, demoted + 1)
      /\ lirs_count > 0
      /\ e \in C /\ \A f \in r : KeyOf(f) # k
  <2>1. Sound(s, n, r, L, C, D, hirs_count, lirs_count, non_resident, demoted)
    BY DEF ExactInv, Tables
  <2>2. e \in C /\ \A f \in r : KeyOf(f) # k
    BY <1>2, <1>3, <2>1 DEF Sound, Shape
  <2> HIDE DEF s, n, r, L, C, D, e
  <2> QED
    BY <1>2, <1>3, <2>1, <2>2, SoundDemote
<1>5. ~ListHolds(resident, k)
  BY <1>1, <1>4, HoldsIs
<1>6. /\ stack' = ListWithout(stack, k)
      /\ resident' = Append(resident, e)
      /\ entry' = [entry EXCEPT ![e] = o]
      /\ lirs_count' = P!Dec(lirs_count) /\ demoted' = demoted + 1 /\ hirs_count' = hirs_count + 1
      /\ call' = [call EXCEPT !.back = pc] /\ pc' = "prune"
      /\ UNCHANGED <<index, P!limits, non_resident, evicted>>
  BY <1>2, <1>5, ExactSizes DEF P!DemoteFront, ListInsert, P!Overridden
<1>7. entry[e] \in Marked
  BY <1>1, <1>2
<1>8. o \in Marked /\ ~o.is_LIR /\ o.is_demoted /\ o.in_cache = entry[e].in_cache
  BY <1>7 DEF P!Demoted, Marked
<1>9. o.in_cache
  BY <1>4, <1>8 DEF CachedIn
<1>10. LirIn(entry') = L \ {e} /\ CachedIn(entry') = C /\ DemotedIn(entry') = D \cup {e}
  <2> HIDE DEF o
  <2>1. /\ LirIn(entry') = IF o.is_LIR THEN L \cup {e} ELSE L \ {e}
        /\ CachedIn(entry') = IF o.in_cache THEN C \cup {e} ELSE C \ {e}
        /\ DemotedIn(entry') = IF o.is_demoted THEN D \cup {e} ELSE D \ {e}
    BY <1>1, <1>2, <1>6, <1>8, FlagsOf
  <2>2. C \cup {e} = C
    BY <1>4
  <2> QED
    BY <1>8, <1>9, <2>1, <2>2
<1>11. /\ KeysOnce(stack') /\ ToSet(stack') = s \ {e} /\ Len(stack') = Len(stack) - 1
      /\ stack' \in Seq(Entries)
  BY <1>1, <1>2, <1>6, WithoutIs, WithoutType
<1>12. /\ resident' \in Seq(Entries) /\ KeysOnce(resident')
       /\ ToSet(resident') = r \cup {e}
  BY <1>1, <1>2, <1>5, <1>6, AppendIs
<1>13. Ordered(index', stack')
  <2>1. Ordered(index, stack)
    BY DEF ExactInv, Tables
  <2>2. e \notin ToSet(index)
    BY <1>1, <1>3
  <2>3. Ordered(index, ListWithout(stack, k))
    BY <1>1, <1>2, <2>1, <2>2, OrderedDropLir
  <2> QED
    BY <1>6, <2>3
<1>14. /\ lirs_count' = lirs_count - 1 /\ lirs_count \in Nat /\ lirs_count > 0
       /\ hirs_count' = hirs_count + 1 /\ demoted' = demoted + 1
       /\ non_resident' = non_resident
  BY <1>4, <1>6, DecType, ExactTypes, ExactSizes
<1>15. Tables'
  <2>1. ToSet(index') = n /\ KeysOnce(index')
    BY <1>6, ExactTypes
  <2> HIDE DEF s, n, r, L, C, D, e
  <2> QED
    BY <1>4, <1>10, <1>11, <1>12, <1>13, <1>14, <2>1 DEF Tables
<1>17. /\ call'.back = pc /\ call'.op = call.op /\ call'.key = call.key
       /\ call'.entry = call.entry /\ call'.in_cache = call.in_cache
       /\ call'.contained = call.contained /\ call'.result = call.result
  BY <1>1, <1>6 DEF Calls
<1>18. (Promoting' <=> Promoting) /\ (Requesting' <=> Requesting) /\ (Promoting \/ Requesting)
       /\ (Requesting <=> pc = "request")
  BY <1>6, <1>17 DEF Promoting, Requesting
<1>19. Bottom'
  BY <1>6 DEF Bottom
<1>20. Filled'
  <2>1. Underway' = Underway /\ Underway = 1
    BY <1>18 DEF Underway
  <2>2. Requesting' => lirs_count' >= 1
    BY <1>14, <1>18, ExactTypes DEF IInv, ListTypeOK
  <2>3. hirs_count' + lirs_count' + Underway' < CacheSize => non_resident' = 0
    <3>1. /\ hirs_count + lirs_count + Underway < CacheSize => non_resident = 0
          /\ hirs_count \in Nat /\ lirs_count \in Nat
      BY ExactTypes DEF ExactInv, Filled
    <3>2. hirs_count' + lirs_count' + Underway' = hirs_count + lirs_count + Underway
      BY <1>14, <2>1, <3>1
    <3> QED
      BY <1>14, <3>1, <3>2
  <2>4. ~Promoting' => Requesting'
    BY <1>18
  <2> QED
    BY <1>14, <2>2, <2>3, <2>4, ExactTypes DEF Filled
<1>21. Room'
  <2>1. /\ Len(stack) + (IF Promoting THEN 1 ELSE 0) <= 2 * CacheSize
        /\ Len(stack) \in Nat /\ CacheSize \in Nat
    BY ExactTypes DEF ExactInv, Room
  <2>2. Len(stack') + (IF Promoting' THEN 1 ELSE 0) <= 2 * CacheSize
    BY <1>11, <1>18, <2>1
  <2> QED
    BY <1>6, <2>2 DEF Room
<1>22. Locals'
  <2>1. Absent(call.key)
    BY <1>18 DEF ExactInv, Locals
  <2>2. \A f \in s \cup r : KeyOf(f) # call.key
    BY <2>1, AbsentIs
  <2>3. KeyOf(e) # call.key
    BY <1>2, <2>2
  <2>4. ~ListHolds(resident', call.key)
    BY <1>12, <2>2, <2>3, HoldsIs
  <2>5. ~ListHolds(stack', call.key)
    BY <1>11, <2>2, HoldsIs
  <2>6. Absent(call.key)'
    BY <1>6, <1>17, <2>1, <2>4, <2>5 DEF Absent
  <2>7. Promoting => /\ KeyOf(call.entry) = call.key /\ call.entry \in L /\ call.entry \in C
                     /\ call.entry \notin D /\ call.op = "get" /\ call.in_cache = call.contained
    BY DEF ExactInv, Locals
  <2>8. Requesting => call.op = "request"
    BY DEF ExactInv, Locals
  <2>9. Promoting => call.entry # e
    BY <2>3, <2>7
  <2> HIDE DEF s, n, r, L, C, D, e
  <2> QED
    BY <1>10, <1>17, <1>18, <2>6, <2>7, <2>8, <2>9 DEF Locals
<1>23. Answers'
  BY <1>6, <1>17 DEF ExactInv, Answers
<1>24. Stored' = Stored
  <2>1. ToSet(stack') = s \ {e} /\ ToSet(resident') = r \cup {e} /\ CachedIn(entry') = C
    BY <1>10, <1>11, <1>12
  <2>2. e \in C /\ e \in s
    BY <1>2, <1>4
  <2> HIDE DEF s, r, C, e
  <2>3. Kept(s \ {e}, r \cup {e}, C) = Kept(s, r, C)
    BY <2>2 DEF Kept
  <2> QED
    BY <2>1, <2>3 DEF Stored, s, r, C
<1> QED
  BY <1>15, <1>19, <1>20, <1>21, <1>22, <1>23, <1>24 DEF ExactInv

\* dlirs_evict_lir
LEMMA EvictLirExact ==
    ASSUME IInv, ExactInv, pc \in {"eject_lir", "request"}, P!EvictLir(pc),
           pc = "request" => lirs_count > lirs_limit
    PROVE  ListRunning' => ExactInv'
<1>1. CASE stack = << >>
  <2>1. UNCHANGED P!vars
    BY <1>1 DEF P!EvictLir
  <2> QED
    BY <2>1
    DEF P!vars, P!data, P!tables, P!limits, P!counters, ExactInv, Tables, Bottom, Filled,
        Underway,
       Room, Locals, Absent, Answers, Promoting, Requesting
<1>2. CASE stack # << >> /\ ~P!Live(Head(stack))
  BY <1>2, LostStops DEF P!EvictLir, P!Unless, P!Lost
<1>3. CASE stack # << >> /\ P!Live(Head(stack))
  <2>1. P!DemoteFront(pc) \/ pc' \in P!Lost
    BY <1>3, InsertFaultType DEF P!EvictLir, P!Unless
  <2> QED
    BY <1>3, <2>1, DemoteExact, LostStops
<1> QED
  BY <1>1, <1>2, <1>3

\* dlirs_evict_resident_hir on a table that is not empty.
LEMMA TakeFrontExact ==
    ASSUME IInv, ExactInv, pc \in {"eject_hir", "request"}, P!NoRoom, resident # << >>, P!TakeFront
    PROVE  ExactInv' /\ Stored' = Stored \ {KeyOf(Head(resident))}
<1> DEFINE e == Head(resident)
           k == KeyOf(e)
           s == ToSet(stack)
           n == ToSet(index)
           r == ToSet(resident)
           L == LirIn(entry)
           C == CachedIn(entry)
           D == DemotedIn(entry)
           stacked == ListHolds(stack, k)
           o == P!Evicted(entry[e], stacked)
<1>1. /\ stack \in Seq(Entries) /\ KeysOnce(stack)
      /\ resident \in Seq(Entries) /\ KeysOnce(resident)
      /\ entry \in [Entries -> Marked]
  BY ExactTypes
<1>2. /\ e \in Entries /\ e \in r /\ ListHolds(resident, k) /\ ListAt(resident, k) = e
      /\ Tail(resident) = ListWithout(resident, k)
  BY <1>1, TailIs
<1>3. Sound(s, n, r, L, C, D, hirs_count, lirs_count, non_resident, demoted)
  BY DEF ExactInv, Tables
<1>4. e \in C /\ e \notin L
  BY <1>2, <1>3 DEF Sound, Shape
<1>5. stacked <=> e \in s
  <2>1. \A f \in s : KeyOf(f) = k => f = e
    BY <1>2, <1>3 DEF Sound, Shape
  <2> QED
    BY <1>1, <2>1, HoldsIs
<1>6. /\ resident' = ListWithout(resident, k)
      /\ entry' = [entry EXCEPT ![e] = o]
      /\ non_resident' = IF stacked THEN non_resident + 1 ELSE non_resident
      /\ demoted' = P!LeftResidentHirs(e)
      /\ hirs_count' = P!Dec(hirs_count)
      /\ UNCHANGED <<stack, index, P!limits, lirs_count, call, pc>>
  BY <1>2, ExactSizes DEF P!TakeFront
<1>7. entry[e] \in Marked /\ (entry[e].is_demoted <=> e \in D)
      /\ (entry[e].is_LIR <=> e \in L) /\ (entry[e].in_cache <=> e \in C)
  BY <1>1, <1>2 DEF DemotedIn, LirIn, CachedIn
<1>8. stacked \in BOOLEAN
  BY DEF ListHolds
<1>9. o \in Marked /\ ~o.is_demoted /\ (o.is_LIR <=> e \in L) /\ (o.in_cache <=> ~stacked)
  <2> HIDE DEF stacked
  <2> QED
    BY <1>4, <1>7, <1>8 DEF P!Evicted, Marked
<1>10. /\ LirIn(entry') = L /\ DemotedIn(entry') = D \ {e}
       /\ CachedIn(entry') = IF stacked THEN C \ {e} ELSE C
  <2> HIDE DEF o, stacked
  <2>1. /\ LirIn(entry') = IF o.is_LIR THEN L \cup {e} ELSE L \ {e}
        /\ CachedIn(entry') = IF o.in_cache THEN C \cup {e} ELSE C \ {e}
        /\ DemotedIn(entry') = IF o.is_demoted THEN D \cup {e} ELSE D \ {e}
    BY <1>1, <1>2, <1>6, <1>9, FlagsOf
  <2>2. C \cup {e} = C /\ L \ {e} = L
    BY <1>4
  <2> QED
    BY <1>4, <1>9, <2>1, <2>2
<1>11. /\ KeysOnce(resident') /\ ToSet(resident') = r \ {e}
       /\ resident' \in Seq(Entries)
  BY <1>1, <1>2, <1>6, WithoutIs, WithoutType
<1> DEFINE left == IF e \in D THEN demoted - 1 ELSE demoted
<1>12. demoted' = left /\ hirs_count' = hirs_count - 1 /\ hirs_count > 0
  <2>1. hirs_count > 0 /\ (e \in D => demoted > 0)
    <3>1. CASE e \in s
      <4>0. e \in r
        BY <1>2
      <4> HIDE DEF s, n, r, L, C, D, e
      <4>1. /\ Sound(s, n, r \ {e}, L, C \ {e}, D, hirs_count - 1, lirs_count, non_resident + 1, demoted)
            /\ hirs_count > 0 /\ e \notin D
        BY <1>3, <3>1, <4>0, SoundRemember
      <4> QED
        BY <4>1
    <3>2. CASE e \notin s
      <4>0. e \in r
        BY <1>2
      <4> HIDE DEF s, n, r, L, C, D, e
      <4>1. /\ Sound(s, n, r \ {e}, L, C, D \ {e}, hirs_count - 1, lirs_count, non_resident, left)
            /\ hirs_count > 0 /\ (e \in D => demoted > 0)
        BY <1>3, <3>2, <4>0, SoundForget
      <4> QED
        BY <4>1
    <3> QED
      BY <3>1, <3>2
  <2>2. hirs_count' = hirs_count - 1
    BY <1>6, <2>1, DecType, ExactSizes
  <2>3. CASE e \in D
    BY <1>6, <1>7, <2>1, <2>2, <2>3, DecType, ExactSizes DEF P!LeftResidentHirs
  <2>4. CASE e \notin D
    <3>1. ~entry[e].is_demoted
      BY <1>7, <2>4
    <3>2. demoted' = demoted
      BY <1>6, <3>1 DEF P!LeftResidentHirs
    <3> QED
      BY <2>1, <2>2, <2>4, <3>2
  <2> QED
    BY <2>1, <2>2, <2>3, <2>4
<1>13. Sound(s, n, r \ {e}, L, CachedIn(entry'), D \ {e},
             hirs_count - 1, lirs_count, non_resident', left)
  <2>1. CASE e \in s
    <3>1. /\ Sound(s, n, r \ {e}, L, C \ {e}, D, hirs_count - 1, lirs_count, non_resident + 1, demoted)
          /\ e \notin D
      <4> HIDE DEF s, n, r, L, C, D, e
      <4> QED
        BY <1>2, <1>3, <2>1, SoundRemember
    <3>2. D \ {e} = D /\ left = demoted
      BY <3>1
    <3>3. CachedIn(entry') = C \ {e} /\ non_resident' = non_resident + 1
      BY <1>5, <1>6, <1>10, <2>1
    <3> HIDE DEF s, n, r, L, C, D, e, left
    <3> QED
      BY <3>1, <3>2, <3>3
  <2>2. CASE e \notin s
    <3>1. Sound(s, n, r \ {e}, L, C, D \ {e}, hirs_count - 1, lirs_count, non_resident, left)
      <4> HIDE DEF s, n, r, L, C, D, e
      <4> QED
        BY <1>2, <1>3, <2>2, SoundForget
    <3>2. CachedIn(entry') = C /\ non_resident' = non_resident
      BY <1>5, <1>6, <1>10, <2>2
    <3> HIDE DEF s, n, r, L, C, D, e, left
    <3> QED
      BY <3>1, <3>2
  <2> QED
    BY <2>1, <2>2
<1>14. Tables'
  <2>1. /\ ToSet(stack') = s /\ ToSet(index') = n
        /\ KeysOnce(stack') /\ KeysOnce(index')
        /\ Ordered(index', stack')
    BY <1>6 DEF ExactInv, Tables
  <2>2. lirs_count' = lirs_count
    BY <1>6
  <2> HIDE DEF s, n, r, L, C, D, e, left
  <2> QED
    BY <1>10, <1>11, <1>12, <1>13, <2>1, <2>2 DEF Tables
<1>15. (Promoting' <=> Promoting) /\ (Requesting' <=> Requesting) /\ (Promoting \/ Requesting)
  BY <1>6 DEF Promoting, Requesting
<1>16. Bottom'
  BY <1>6, <1>10 DEF ExactInv, Bottom
<1>17. Filled'
  <2>1. Underway' = 1
    BY <1>15 DEF Underway
  <2>2. hirs_count + lirs_count >= CacheSize /\ lirs_count' = lirs_count
    BY <1>6, ExactSizes
  <2>3. ~(hirs_count' + lirs_count' + Underway' < CacheSize)
    <3>1. hirs_count \in Nat /\ lirs_count \in Nat /\ CacheSize \in Nat
      BY ExactTypes
    <3>2. hirs_count' = hirs_count - 1
      BY <1>12
    <3> QED
      BY <2>1, <2>2, <3>1, <3>2
  <2>4. ~Promoting' => lirs_count' >= 1
    BY <1>15, <2>2 DEF ExactInv, Filled
  <2>5. Requesting' => lirs_count' >= 1
    BY <1>15, <2>2 DEF ExactInv, Filled
  <2> QED
    BY <2>3, <2>4, <2>5 DEF Filled
<1>18. Room'
  <2>1. pc' # "limit" /\ stack' = stack
    BY <1>6
  <2>2. Len(stack) + (IF Promoting THEN 1 ELSE 0) <= 2 * CacheSize
    BY DEF ExactInv, Room
  <2> QED
    BY <1>15, <2>1, <2>2 DEF Room
<1>19. Locals'
  <2>1. Absent(call.key)
    BY <1>15 DEF ExactInv, Locals
  <2>2. \A f \in s \cup r : KeyOf(f) # call.key
    BY <2>1, AbsentIs
  <2>3. ~ListHolds(resident', call.key)
    BY <1>11, <2>2, HoldsIs
  <2>4. Absent(call.key)'
    BY <1>6, <2>1, <2>3 DEF Absent
  <2>5. Promoting => /\ KeyOf(call.entry) = call.key /\ call.entry \in L /\ call.entry \in C
                     /\ call.entry \notin D /\ call.op = "get" /\ call.in_cache = call.contained
    BY DEF ExactInv, Locals
  <2>6. Requesting => call.op = "request"
    BY DEF ExactInv, Locals
  <2>7. Promoting => call.entry # e
    BY <1>2, <2>2, <2>5
  <2>8. call' = call
    BY <1>6
  <2> HIDE DEF s, n, r, L, C, D, e, stacked
  <2> QED
    BY <1>10, <1>15, <2>4, <2>5, <2>6, <2>7, <2>8 DEF Locals
<1>20. Answers'
  BY <1>6 DEF ExactInv, Answers
<1>21. Stored' = Stored \ {k}
  <2>1. ToSet(stack') = s /\ ToSet(resident') = r \ {e}
        /\ CachedIn(entry') = IF stacked THEN C \ {e} ELSE C
    BY <1>6, <1>10, <1>11
  <2>2. e \in r /\ \A f \in s \cup r : KeyOf(f) = KeyOf(e) => f = e
    BY <1>2, <1>3 DEF Sound, Shape
  <2> DEFINE A == Kept(s, r, C)
             B == Kept(s, r \ {e}, CachedIn(entry'))
  <2>3. B = A \ {e} /\ e \in A /\ A \subseteq s \cup r
    <3> HIDE DEF s, r, C, e, stacked
    <3>1. CASE stacked
      BY <2>1, <2>2, <3>1 DEF Kept
    <3>2. CASE ~stacked
      BY <1>5, <2>1, <2>2, <3>2 DEF Kept
    <3> QED
      BY <3>1, <3>2
  <2>4. Stored = KeysOf(A) /\ Stored' = KeysOf(B)
    BY <2>1 DEF Stored
  <2>5. \A f \in A : KeyOf(f) = KeyOf(e) => f = e
    BY <2>2, <2>3
  <2> HIDE DEF A, B, e
  <2>6. KeysOf(B) = KeysOf(A) \ {KeyOf(e)}
    BY <2>3, <2>5, KeysLess
  <2> QED
    BY <2>4, <2>6
<1> QED
  BY <1>14, <1>16, <1>17, <1>18, <1>19, <1>20, <1>21 DEF ExactInv

\* dlirs_evict_resident_hir
LEMMA EvictHirExact ==
    ASSUME IInv, ExactInv, pc \in {"eject_hir", "request"}, P!NoRoom, P!EvictResidentHir
    PROVE  ListRunning' => ExactInv'
<1>1. CASE resident = << >>
  <2>1. UNCHANGED <<P!tables, P!limits, P!counters, entry, call, pc>>
    BY <1>1 DEF P!EvictResidentHir
  <2> QED
    BY <2>1 DEF P!tables, P!limits, P!counters, ExactInv, Tables, Bottom, Filled, Underway,
       Room, Locals, Absent, Answers, Promoting, Requesting
<1>2. CASE resident # << >>
  <2>1. P!TakeFront \/ pc' \in P!Lost
    BY <1>2 DEF P!EvictResidentHir, P!Unless, P!Lost
  <2> QED
    BY <1>2, <2>1, TakeFrontExact, LostStops
<1> QED
  BY <1>1, <1>2

\* The end of dlirs_hir_in_lirs.
LEMMA ReinsertExact ==
    ASSUME IInv, ExactInv, pc = "eject_hir", P!Reinsert
    PROVE  ExactInv' /\ Stored' = Stored \cup {call.key}
<1> DEFINE e == call.entry
           k == call.key
           s == ToSet(stack)
           n == ToSet(index)
           r == ToSet(resident)
           L == LirIn(entry)
           C == CachedIn(entry)
           D == DemotedIn(entry)
<1>1. Promoting
  BY DEF Promoting
<1>2. /\ stack \in Seq(Entries) /\ KeysOnce(stack) /\ call \in Calls
  BY ExactTypes
<1>3. /\ e \in Entries /\ KeyOf(e) = k /\ e \in L /\ e \in C /\ e \notin D
      /\ call.op = "get" /\ call.in_cache = call.contained /\ Absent(k)
  BY <1>1 DEF ExactInv, Locals, IInv, CallOK
<1>4. \A f \in s \cup r : KeyOf(f) # k
  BY <1>3, AbsentIs
<1>5. ~ListHolds(stack, k)
  BY <1>3 DEF Absent
<1>6. /\ stack' = Append(stack, e) /\ entry' = entry /\ lirs_count' = lirs_count + 1
      /\ call' = [call EXCEPT !.result = P!Answer(call.in_cache)] /\ pc' = "ret"
      /\ UNCHANGED <<index, resident, P!limits, hirs_count, demoted, non_resident>>
  BY <1>3, <1>5, ExactSizes DEF P!Reinsert, ListInsert, P!Overridden
<1>7. Sound(s \cup {e}, n, r, L, C, D, hirs_count, lirs_count + 1, non_resident, demoted)
  <2>1. Sound(s, n, r, L, C, D, hirs_count, lirs_count, non_resident, demoted)
    BY DEF ExactInv, Tables
  <2>2. Fresh(e, s, r)
    BY <1>3, <1>4 DEF Fresh
  <2>3. L \cup {e} = L /\ C \cup {e} = C /\ D \ {e} = D
    BY <1>3
  <2> HIDE DEF s, n, r, L, C, D, e
  <2>4. Sound(s \cup {e}, n, r, L \cup {e}, C \cup {e}, D \ {e},
              hirs_count, lirs_count + 1, non_resident, demoted)
    BY <1>3, <2>1, <2>2, SoundAddLir
  <2> QED
    BY <2>3, <2>4
<1>8. /\ KeysOnce(stack') /\ ToSet(stack') = s \cup {e} /\ Len(stack') = Len(stack) + 1
      /\ Head(stack') = IF stack = << >> THEN e ELSE Head(stack)
  BY <1>2, <1>3, <1>5, <1>6, AppendIs
<1>9. Ordered(index', stack')
  <2>1. Ordered(index, stack)
    BY DEF ExactInv, Tables
  <2>2. Ordered(index, Append(stack, e))
    BY <1>2, <1>3, <1>5, <2>1, OrderedAddLir
  <2> QED
    BY <1>6, <2>2
<1>10. Tables'
  <2>1. /\ ToSet(index') = n /\ ToSet(resident') = r
        /\ KeysOnce(index') /\ KeysOnce(resident')
        /\ LirIn(entry') = L /\ CachedIn(entry') = C /\ DemotedIn(entry') = D
        /\ hirs_count' = hirs_count /\ lirs_count' = lirs_count + 1
        /\ non_resident' = non_resident /\ demoted' = demoted
    BY <1>6, ExactTypes
  <2> HIDE DEF s, n, r, L, C, D, e
  <2> QED
    BY <1>7, <1>8, <1>9, <2>1 DEF Tables
<1>11. ~Promoting' /\ ~Requesting'
  BY <1>6 DEF Promoting, Requesting
<1>12. Bottom'
  <2>1. stack # << >> => Head(stack) \in L
    BY DEF ExactInv, Bottom
  <2> QED
    BY <1>3, <1>6, <1>8, <2>1 DEF Bottom
<1>13. Filled'
  <2>1. /\ hirs_count + lirs_count + 1 < CacheSize => non_resident = 0
        /\ lirs_count \in Nat /\ hirs_count \in Nat
    BY <1>1, ExactTypes DEF ExactInv, Filled, Underway
  <2>2. /\ hirs_count' + lirs_count' + 0 = hirs_count + lirs_count + 1
        /\ lirs_count' # 0 /\ non_resident' = non_resident
    BY <1>6, <2>1
  <2>3. Underway' = 0
    BY <1>11 DEF Underway
  <2> QED
    BY <1>11, <2>1, <2>2, <2>3 DEF Filled
<1>14. Room'
  <2>1. Len(stack) + 1 <= 2 * CacheSize /\ Len(stack) \in Nat /\ CacheSize \in Nat
    BY <1>1, ExactTypes DEF ExactInv, Room
  <2>2. Len(stack') + 0 <= 2 * CacheSize
    BY <1>8, <2>1
  <2> QED
    BY <1>6, <1>11, <2>2 DEF Room
<1>15. Locals'
  BY <1>11 DEF Locals
<1>16. Answers'
  <2>1. /\ call'.op = "get" /\ call'.contained = call.in_cache /\ call'.key = k
        /\ call'.result = P!Answer(call.in_cache) /\ call.in_cache \in BOOLEAN
    BY <1>2, <1>3, <1>6 DEF Calls
  <2>2. call'.result = "hit" <=> call'.contained
    BY <2>1 DEF P!Answer
  <2>3. \A f \in ToSet(stack') : KeyOf(f) = k => f \in CachedIn(entry')
    BY <1>3, <1>4, <1>6, <1>8
  <2> QED
    BY <1>6, <2>1, <2>2, <2>3 DEF Answers
<1>17. Stored' = Stored \cup {k}
  <2> DEFINE A == Kept(s, r, C)
             B == Kept(s \cup {e}, r, C)
  <2>1. B = A \cup {e}
    BY <1>3 DEF Kept
  <2>2. Stored = KeysOf(A) /\ Stored' = KeysOf(B)
    BY <1>6, <1>8 DEF Stored
  <2> HIDE DEF A, B, e
  <2>3. KeysOf(B) = KeysOf(A) \cup {KeyOf(e)}
    BY <2>1, KeysMore
  <2> QED
    BY <1>3, <2>2, <2>3
<1> QED
  BY <1>10, <1>12, <1>13, <1>14, <1>15, <1>16, <1>17 DEF ExactInv

\* dlirs_hir_in_lirs after the first step.
LEMMA EjectExact ==
    ASSUME IInv, ExactInv, P!EjectLir \/ P!EjectHir
    PROVE  ListRunning' => ExactInv'
<1>1. CASE P!EjectLir
  <2>1. CASE lirs_count >= lirs_limit
    BY <1>1, <2>1, EvictLirExact DEF P!EjectLir
  <2>2. CASE ~(lirs_count >= lirs_limit)
    <3>1. pc = "eject_lir" /\ pc' = "eject_hir" /\ UNCHANGED <<P!data, call>>
      BY <1>1, <2>2 DEF P!EjectLir
    <3> QED
      BY <3>1
      DEF P!data, P!tables, P!limits, P!counters, ExactInv, Tables, Bottom, Filled, Underway,
         Room, Locals, Absent, Answers, Promoting, Requesting
  <2> QED
    BY <2>1, <2>2
<1>2. CASE P!EjectHir
  <2>1. CASE P!NoRoom
    BY <1>2, <2>1, EvictHirExact DEF P!EjectHir
  <2>2. CASE ~P!NoRoom
    <3>1. pc = "eject_hir" /\ (P!Reinsert \/ pc' \in P!Lost)
      BY <1>2, <2>2, InsertFaultType DEF P!EjectHir, P!Unless
    <3> QED
      BY <3>1, ReinsertExact, LostStops
  <2> QED
    BY <2>1, <2>2
<1> QED
  BY <1>1, <1>2

\* A call that moves nothing on its way has no entry underway.
LEMMA IdleIs ==
    ASSUME pc \in {"idle", "ask", "ret"}
    PROVE  ~Promoting /\ ~Requesting /\ Underway = 0
BY DEF Promoting, Requesting, Underway

\* dlirs_hit_lir
LEMMA HitLirExact ==
    ASSUME IInv, ExactInv, pc = "idle", NEW k \in Keys, ListHolds(stack, k),
           entry[ListAt(stack, k)].is_LIR, P!HitLir(k)
    PROVE  ExactInv' /\ Stored' = Stored
<1> DEFINE e == ListAt(stack, k)
           s == ToSet(stack)
           w == ListWithout(stack, k)
<1>1. /\ stack \in Seq(Entries) /\ KeysOnce(stack) /\ s \subseteq Entries
      /\ ToSet(index) = s \ LirIn(entry)
  BY ExactTypes
<1>2. e \in s /\ e \in Entries /\ KeyOf(e) = k /\ e \in LirIn(entry)
  BY <1>1, HoldsIs, AtType DEF LirIn
<1>3. e \in CachedIn(entry) /\ e \notin ToSet(index)
  BY <1>1, <1>2 DEF ExactInv, Tables, Sound, Shape
<1>4. P!CacheContains(k) = TRUE
  BY <1>3 DEF P!CacheContains, CachedIn
<1>5. /\ w \in Seq(Entries) /\ Len(w) = Len(stack) - 1
      /\ KeysOnce(w) /\ ToSet(w) = s \ {e} /\ ~ListHolds(w, KeyOf(e))
      /\ Head(stack) # e => w # << >> /\ Head(w) = Head(stack)
  BY <1>1, <1>2, WithoutIs, WithoutType
<1>6. /\ stack' = Append(w, e)
      /\ call' = [P!Begin("get", k) EXCEPT !.result = "hit"]
      /\ pc' = IF P!WasFront(k) THEN "prune" ELSE "ret"
      /\ UNCHANGED <<index, resident, P!limits, P!counters, entry, evicted>>
  BY <1>2, <1>5 DEF P!HitLir, ListInsert, P!Overridden
<1> HIDE DEF w
<1>7. /\ KeysOnce(stack') /\ ToSet(stack') = (s \ {e}) \cup {e} /\ Len(stack') = Len(w) + 1
      /\ Head(stack') = IF w = << >> THEN e ELSE Head(w)
  BY <1>2, <1>5, <1>6, AppendIs
<1>8. ToSet(stack') = s /\ Len(stack') = Len(stack)
  <2>1. Len(w) + 1 = Len(stack)
    BY <1>5, ExactTypes
  <2> QED
    BY <1>2, <1>7, <2>1
<1>9. Ordered(index', stack')
  <2>1. Ordered(index, stack)
    BY DEF ExactInv, Tables
  <2>2. Ordered(index, w)
    BY <1>1, <1>2, <1>3, <2>1, ExactTypes, OrderedDropLir DEF w
  <2>3. Ordered(index, Append(w, e))
    BY <1>2, <1>5, <2>2, OrderedAddLir
  <2> QED
    BY <1>6, <2>3
<1>10. Tables'
  BY <1>6, <1>7, <1>8, <1>9 DEF P!counters, ExactInv, Tables
<1>11. /\ call'.op = "get" /\ call'.key = k /\ call'.back = "ret" /\ call'.result = "hit"
       /\ call'.contained
  BY <1>4, <1>6 DEF P!Begin, P!NoCall
<1>12. ~Promoting' /\ ~Requesting' /\ Underway' = 0 /\ ~Promoting /\ ~Requesting /\ Underway = 0
  BY <1>6, <1>11, IdleIs DEF Promoting, Requesting, Underway
<1>13. Bottom'
  <2>1. CASE P!WasFront(k)
    BY <1>6, <2>1 DEF Bottom
  <2>2. CASE ~P!WasFront(k)
    <3>1. Head(stack) # e
      BY <1>2, <2>2 DEF P!WasFront
    <3>2. stack # << >>
      BY <1>2 DEF ToSet
    <3>3. Head(stack) \in LirIn(entry)
      BY <3>2 DEF ExactInv, Bottom
    <3>4. Head(stack') = Head(stack)
      BY <1>5, <1>7, <3>1
    <3> QED
      BY <1>6, <3>3, <3>4 DEF Bottom
  <2> QED
    BY <2>1, <2>2
<1>14. Filled'
  BY <1>6, <1>12 DEF P!counters, ExactInv, Filled
<1>15. Room'
  BY <1>6, <1>8, <1>12 DEF ExactInv, Room
<1>16. Locals'
  BY <1>12 DEF Locals
<1>17. Answers'
  BY <1>6, <1>11 DEF Answers
<1>18. Stored' = Stored
  BY <1>6, <1>8 DEF Stored
<1> QED
  BY <1>10, <1>13, <1>14, <1>15, <1>16, <1>17, <1>18 DEF ExactInv

\* The flags of the objects once non_resident_hirs has let go of k's entry.
LEMMA UnstackedFlags ==
    ASSUME entry \in [Entries -> Marked], NEW k, NEW e \in Entries,
           ListAt(stack, k) = e, ListAt(index, k) = e
    PROVE  /\ P!Unstacked(k) \in [Entries -> Marked]
           /\ LirIn(P!Unstacked(k)) = LirIn(entry) \cup {e}
           /\ CachedIn(P!Unstacked(k)) = CachedIn(entry)
           /\ DemotedIn(P!Unstacked(k)) = DemotedIn(entry)
<1> DEFINE o == [entry[e] EXCEPT !.is_LIR = TRUE]
           objs == [entry EXCEPT ![e] = o]
<1>1. entry[e] \in Marked
  OBVIOUS
<1>2. /\ o \in Marked /\ o.is_LIR = TRUE /\ o.in_cache = entry[e].in_cache
      /\ o.is_demoted = entry[e].is_demoted
  BY <1>1 DEF Marked
<1>3. P!Unstacked(k) = P!Release(objs, e)
  BY DEF P!Unstacked
<1> HIDE DEF o
<1>4. /\ objs \in [Entries -> Marked] /\ LirIn(objs) = LirIn(entry) \cup {e}
      /\ CachedIn(objs) = IF o.in_cache THEN CachedIn(entry) \cup {e} ELSE CachedIn(entry) \ {e}
      /\ DemotedIn(objs) = IF o.is_demoted THEN DemotedIn(entry) \cup {e} ELSE DemotedIn(entry) \ {e}
  BY <1>2, FlagsOf
<1> HIDE DEF objs
<1>5. (o.in_cache <=> e \in CachedIn(entry)) /\ (o.is_demoted <=> e \in DemotedIn(entry))
  BY <1>2 DEF CachedIn, DemotedIn
<1>6. CachedIn(objs) = CachedIn(entry) /\ DemotedIn(objs) = DemotedIn(entry)
  <2>1. CachedIn(objs) = CachedIn(entry)
    BY <1>4, <1>5
  <2>2. DemotedIn(objs) = DemotedIn(entry)
    BY <1>4, <1>5
  <2> QED
    BY <2>1, <2>2
<1>7. /\ P!Release(objs, e) \in [Entries -> Marked] /\ LirIn(P!Release(objs, e)) = LirIn(objs)
      /\ CachedIn(P!Release(objs, e)) = CachedIn(objs)
      /\ DemotedIn(P!Release(objs, e)) = DemotedIn(objs)
  BY <1>4, ReleaseFlags
<1> QED
  BY <1>3, <1>4, <1>6, <1>7

\* dlirs_hir_in_lirs up to its loops: the sets and counters.
LEMMA UnstackedSound ==
    ASSUME IInv, ExactInv, NEW k \in Keys, ListHolds(stack, k), ~entry[ListAt(stack, k)].is_LIR,
           P!HirInLirsFault(k) = "none", P!HirInLirs(k)
    PROVE  LET e == ListAt(stack, k) IN
           /\ Sound(ToSet(stack) \ {e}, ToSet(index) \ {e}, ToSet(resident'),
                    LirIn(entry'), CachedIn(entry'), DemotedIn(entry'),
                    hirs_count', lirs_count, non_resident', demoted)
           /\ KeysOnce(resident') /\ e \notin ToSet(resident')
           /\ resident' \in Seq(Entries)
           /\ ToSet(resident') \subseteq ToSet(resident)
           /\ LirIn(entry') = LirIn(entry) \cup {e} /\ e \in CachedIn(entry')
           /\ DemotedIn(entry') = DemotedIn(entry) /\ e \notin DemotedIn(entry)
           /\ entry[e].in_cache = P!CacheContains(k)
           /\ Kept(ToSet(stack) \ {e}, ToSet(resident'), CachedIn(entry'))
                = Kept(ToSet(stack), ToSet(resident), CachedIn(entry)) \ {e}
           /\ P!CacheContains(k) => hirs_count' = hirs_count - 1
           /\ \/ hirs_count' = hirs_count - 1 /\ non_resident' = non_resident
              \/ hirs_count' = hirs_count /\ non_resident > 0
<1> DEFINE e == ListAt(stack, k)
           s == ToSet(stack)
           n == ToSet(index)
           r == ToSet(resident)
           L == LirIn(entry)
           C == CachedIn(entry)
           D == DemotedIn(entry)
<1>1. /\ stack \in Seq(Entries) /\ KeysOnce(stack)
      /\ index \in Seq(Entries) /\ KeysOnce(index)
      /\ resident \in Seq(Entries) /\ KeysOnce(resident)
      /\ entry \in [Entries -> Marked] /\ entry \in [Entries -> Objects]
  BY ExactTypes
<1>2. e \in s /\ e \in Entries /\ KeyOf(e) = k /\ e \notin L
  BY <1>1, HoldsIs, AtType DEF LirIn
<1>3. Sound(s, n, r, L, C, D, hirs_count, lirs_count, non_resident, demoted)
  BY DEF ExactInv, Tables
<1>4. e \in n /\ e \notin D /\ (e \in r <=> e \in C) /\ \A f \in r : KeyOf(f) = k => f = e
  BY <1>2, <1>3 DEF Sound, Shape
<1>5. ListHolds(index, k) /\ ListAt(index, k) = e
  BY <1>1, <1>2, <1>4, HoldsIs
<1>6. /\ P!Unstacked(k) \in [Entries -> Marked]
      /\ LirIn(P!Unstacked(k)) = L \cup {e} /\ CachedIn(P!Unstacked(k)) = C
      /\ DemotedIn(P!Unstacked(k)) = D
  BY <1>1, <1>2, <1>5, UnstackedFlags
<1>7. (entry[e].in_cache <=> e \in C) /\ entry[e].in_cache \in BOOLEAN
  BY <1>1, <1>2 DEF CachedIn, Marked
<1>8. CASE e \in C
  <2>1. e \in r /\ ListHolds(resident, k) /\ ListAt(resident, k) = e
    BY <1>1, <1>2, <1>4, <1>8, HoldsIs
  <2>2. /\ entry' = P!Release(P!Unstacked(k), e) /\ resident' = ListWithout(resident, k)
        /\ hirs_count' = P!Dec(hirs_count) /\ non_resident' = non_resident
    BY <1>7, <1>8, <2>1 DEF P!HirInLirs
  <2>3. LirIn(entry') = L \cup {e} /\ CachedIn(entry') = C /\ DemotedIn(entry') = D
    BY <1>2, <1>6, <2>2, ReleaseFlags
  <2>4. /\ ToSet(resident') = r \ {e} /\ KeysOnce(resident')
        /\ resident' \in Seq(Entries)
    BY <1>1, <2>1, <2>2, WithoutIs, WithoutType
  <2>5. /\ Sound(s \ {e}, n \ {e}, r \ {e}, L \cup {e}, C, D, hirs_count - 1, lirs_count,
                 non_resident, demoted)
        /\ hirs_count > 0
    <3> HIDE DEF s, n, r, L, C, D, e
    <3> QED
      BY <1>2, <1>3, <1>8, SoundPromote
  <2>6. hirs_count' = hirs_count - 1
    BY <2>2, <2>5, DecType, ExactSizes
  <2>7. P!CacheContains(k) = TRUE /\ entry[e].in_cache = TRUE
    BY <1>7, <1>8 DEF P!CacheContains
  <2>8. Sound(s \ {e}, n \ {e}, ToSet(resident'), LirIn(entry'), CachedIn(entry'),
              DemotedIn(entry'), hirs_count', lirs_count, non_resident', demoted)
    <3> HIDE DEF s, n, r, L, C, D, e
    <3> QED
      BY <2>2, <2>3, <2>4, <2>5, <2>6
  <2>9. Kept(s \ {e}, ToSet(resident'), CachedIn(entry')) = Kept(s, r, C) \ {e}
    BY <2>3, <2>4 DEF Kept
  <2> QED
    BY <1>4, <1>8, <2>2, <2>3, <2>4, <2>6, <2>7, <2>8, <2>9
<1>9. CASE e \notin C
  <2> DEFINE o == [P!Unstacked(k)[e] EXCEPT !.in_cache = TRUE]
  <2>1. /\ entry' = [P!Unstacked(k) EXCEPT ![e] = o] /\ resident' = resident
        /\ hirs_count' = hirs_count /\ non_resident' = P!Dec(non_resident)
    BY <1>7, <1>9 DEF P!HirInLirs
  <2>2. P!Unstacked(k)[e] \in Marked
    BY <1>2, <1>6
  <2>3. /\ o \in Marked /\ o.in_cache = TRUE
        /\ o.is_LIR = P!Unstacked(k)[e].is_LIR /\ o.is_demoted = P!Unstacked(k)[e].is_demoted
    BY <2>2 DEF Marked
  <2>4. e \in LirIn(P!Unstacked(k)) /\ e \notin DemotedIn(P!Unstacked(k))
    BY <1>4, <1>6
  <2>5. o.is_LIR /\ ~o.is_demoted /\ o.in_cache
    BY <1>2, <2>3, <2>4 DEF LirIn, DemotedIn
  <2> HIDE DEF o
  <2>6. /\ LirIn(entry') = LirIn(P!Unstacked(k)) \cup {e}
        /\ CachedIn(entry') = CachedIn(P!Unstacked(k)) \cup {e}
        /\ DemotedIn(entry') = DemotedIn(P!Unstacked(k)) \ {e}
    BY <1>2, <1>6, <2>1, <2>3, <2>5, FlagsOf
  <2>7. LirIn(entry') = L \cup {e} /\ CachedIn(entry') = C \cup {e} /\ DemotedIn(entry') = D
    <3> HIDE DEF L, C, D, e
    <3> QED
      BY <1>4, <1>6, <2>6
  <2>8. /\ Sound(s \ {e}, n \ {e}, r, L \cup {e}, C \cup {e}, D, hirs_count, lirs_count,
                 non_resident - 1, demoted)
        /\ non_resident > 0
    <3> HIDE DEF s, n, r, L, C, D, e
    <3> QED
      BY <1>2, <1>3, <1>9, SoundRecall
  <2>9. non_resident' = non_resident - 1
    BY <2>1, <2>8, DecType, ExactSizes
  <2>10. ~ListHolds(resident, k)
    BY <1>1, <1>4, <1>9, HoldsIs
  <2>11. P!CacheContains(k) = FALSE /\ entry[e].in_cache = FALSE
    BY <1>7, <1>9, <2>10 DEF P!CacheContains
  <2>12. Sound(s \ {e}, n \ {e}, ToSet(resident'), LirIn(entry'), CachedIn(entry'),
              DemotedIn(entry'), hirs_count', lirs_count, non_resident', demoted)
    <3> HIDE DEF s, n, r, L, C, D, e, o
    <3>1. ToSet(resident') = r
      BY <2>1 DEF r
    <3> QED
      BY <2>1, <2>7, <2>8, <2>9, <3>1
  <2>13. Kept(s \ {e}, ToSet(resident'), CachedIn(entry')) = Kept(s, r, C) \ {e}
    <3>1. ToSet(resident') = r /\ e \notin r
      BY <1>4, <1>9, <2>1
    <3> HIDE DEF s, r, C, e
    <3> QED
      BY <1>9, <2>7, <3>1 DEF Kept
  <2> QED
    BY <1>1, <1>4, <1>9, <2>1, <2>7, <2>8, <2>11, <2>12, <2>13
<1> QED
  BY <1>8, <1>9

\* dlirs_hir_in_lirs up to its loops.
LEMMA HirInLirsExact ==
    ASSUME IInv, ExactInv, pc = "idle", NEW k \in Keys, ListHolds(stack, k),
           ~entry[ListAt(stack, k)].is_LIR, P!HirInLirsFault(k) = "none", P!HirInLirs(k)
    PROVE  ExactInv' /\ Stored' = Stored \ {k} /\ (P!CacheContains(k) => hirs_count' + lirs_count' < CacheSize)
<1> DEFINE e == ListAt(stack, k)
           s == ToSet(stack)
           n == ToSet(index)
           r == ToSet(resident)
<1>1. /\ stack \in Seq(Entries) /\ KeysOnce(stack)
      /\ index \in Seq(Entries) /\ KeysOnce(index)
      /\ resident \in Seq(Entries) /\ KeysOnce(resident)
      /\ s \subseteq Entries /\ n = s \ LirIn(entry)
  BY ExactTypes
<1>2. e \in s /\ e \in Entries /\ KeyOf(e) = k /\ e \notin LirIn(entry) /\ e \in n
  BY <1>1, HoldsIs, AtType DEF LirIn
<1>3. ListHolds(index, k) /\ ListAt(index, k) = e
  BY <1>1, <1>2, HoldsIs
<1>4. /\ Sound(s \ {e}, n \ {e}, ToSet(resident'), LirIn(entry'), CachedIn(entry'),
               DemotedIn(entry'), hirs_count', lirs_count, non_resident', demoted)
      /\ KeysOnce(resident') /\ e \notin ToSet(resident')
      /\ resident' \in Seq(Entries)
      /\ ToSet(resident') \subseteq r
      /\ LirIn(entry') = LirIn(entry) \cup {e} /\ e \in CachedIn(entry')
      /\ DemotedIn(entry') = DemotedIn(entry) /\ e \notin DemotedIn(entry)
      /\ entry[e].in_cache = P!CacheContains(k)
      /\ Kept(s \ {e}, ToSet(resident'), CachedIn(entry')) = Kept(s, r, CachedIn(entry)) \ {e}
      /\ P!CacheContains(k) => hirs_count' = hirs_count - 1
      /\ \/ hirs_count' = hirs_count - 1 /\ non_resident' = non_resident
         \/ hirs_count' = hirs_count /\ non_resident > 0
  BY UnstackedSound
<1>5. /\ stack' = ListWithout(stack, k) /\ index' = ListWithout(index, k)
      /\ call' = [P!Begin("get", k) EXCEPT !.entry = e, !.in_cache = entry[e].in_cache]
      /\ pc' = "eject_lir" /\ lirs_count' = lirs_count /\ demoted' = demoted
  BY DEF P!HirInLirs
<1>6. /\ stack' \in Seq(Entries) /\ Len(stack') = Len(stack) - 1
      /\ KeysOnce(stack') /\ ToSet(stack') = s \ {e} /\ ~ListHolds(stack', k)
      /\ Head(stack) # e => stack' # << >> /\ Head(stack') = Head(stack)
      /\ KeysOnce(index') /\ ToSet(index') = n \ {e}
      /\ ~ListHolds(index', k)
  BY <1>1, <1>2, <1>3, <1>5, WithoutIs, WithoutType
<1>7. Ordered(index', stack')
  <2>1. Ordered(index, stack)
    BY DEF ExactInv, Tables
  <2> QED
    BY <1>1, <1>2, <1>5, <2>1, OrderedDrop
<1>8. Tables'
  <2> HIDE DEF s, n, r, e
  <2> QED
    BY <1>4, <1>5, <1>6, <1>7 DEF Tables
<1>9. Promoting' /\ ~Requesting' /\ Underway' = 1 /\ ~Promoting /\ ~Requesting /\ Underway = 0
  BY <1>5, IdleIs DEF Promoting, Requesting, Underway
<1>10. Bottom'
  <2>1. stack # << >>
    BY <1>2 DEF ToSet
  <2>2. Head(stack) \in LirIn(entry)
    BY <2>1 DEF ExactInv, Bottom
  <2>3. Head(stack) # e
    BY <1>2, <2>2
  <2>4. Head(stack') = Head(stack)
    BY <1>6, <2>3
  <2> QED
    BY <1>4, <2>2, <2>4 DEF Bottom
<1>11. Filled'
  <2>1. /\ hirs_count + lirs_count + 0 < CacheSize => non_resident = 0
        /\ hirs_count \in Nat /\ lirs_count \in Nat /\ non_resident \in Nat /\ CacheSize \in Nat
    BY <1>9, ExactTypes DEF ExactInv, Filled
  <2>2. hirs_count' + lirs_count + 1 < CacheSize => non_resident' = 0
    BY <1>4, <2>1
  <2> QED
    BY <1>5, <1>9, <2>2 DEF Filled
<1>12. Room'
  <2>1. Len(stack) + 0 <= 2 * CacheSize /\ Len(stack) \in Nat /\ CacheSize \in Nat
    BY <1>9, ExactTypes DEF ExactInv, Room
  <2>2. Len(stack') + 1 <= 2 * CacheSize
    BY <1>6, <2>1
  <2> QED
    BY <1>5, <1>9, <2>2 DEF Room
<1>13. Locals'
  <2>1. /\ call'.op = "get" /\ call'.key = k /\ call'.entry = e
        /\ call'.in_cache = entry[e].in_cache /\ call'.contained = P!CacheContains(k)
    BY <1>5 DEF P!Begin, P!NoCall
  <2>2. \A f \in ToSet(resident') : KeyOf(f) # k
    <3>1. \A f \in s \cup r : KeyOf(f) = k => f = e
      BY <1>2 DEF ExactInv, Tables, Sound, Shape
    <3> QED
      BY <1>4, <3>1
  <2>3. ~ListHolds(resident', k)
    BY <1>4, <2>2, HoldsIs
  <2>4. e \in LirIn(entry') /\ e \notin DemotedIn(entry')
    BY <1>4
  <2>5. ~ListHolds(stack', call'.key) /\ ~ListHolds(index', call'.key)
        /\ ~ListHolds(resident', call'.key)
    BY <1>6, <2>1, <2>3
  <2> HIDE DEF e
  <2> QED
    BY <1>2, <1>4, <1>9, <2>1, <2>4, <2>5 DEF Locals, Absent
<1>14. Answers'
  <2>1. call'.op = "get"
    BY <1>5 DEF P!Begin, P!NoCall
  <2> QED
    BY <1>5, <2>1 DEF Answers
<1>15. Stored' = Stored \ {k}
  <2> DEFINE A == Kept(s, r, CachedIn(entry))
             B == Kept(s \ {e}, ToSet(resident'), CachedIn(entry'))
  <2>1. B = A \ {e}
    BY <1>4
  <2>2. \A f \in A : KeyOf(f) = KeyOf(e) => f = e
    <3>1. \A f \in s \cup r : KeyOf(f) = KeyOf(e) => f = e
      BY <1>2 DEF ExactInv, Tables, Sound, Shape
    <3> QED
      BY <3>1 DEF Kept
  <2>3. Stored = KeysOf(A) /\ Stored' = KeysOf(B)
    BY <1>6 DEF Stored
  <2> HIDE DEF A, B, e
  <2>4. KeysOf(B) = KeysOf(A) \ {KeyOf(e)}
    BY <2>1, <2>2, KeysLess
  <2> QED
    BY <1>2, <2>3, <2>4
<1>16. P!CacheContains(k) => hirs_count' + lirs_count' < CacheSize
  <2>1. /\ hirs_count \in Nat /\ lirs_count \in Nat /\ CacheSize \in Nat
        /\ hirs_count + lirs_count <= CacheSize
    BY ExactTypes
  <2>2. P!CacheContains(k) => hirs_count' = hirs_count - 1
    BY <1>4
  <2> QED
    BY <1>5, <2>1, <2>2
<1> QED
  BY <1>8, <1>10, <1>11, <1>12, <1>13, <1>14, <1>15, <1>16 DEF ExactInv

\* What dlirs_limit_stack is told to drop is there, and is enough.
LEMMA PruneSizeRoom ==
    ASSUME IInv, NEW h \in Nat, NEW m \in Nat, NEW w \in Nat,
           m <= lirs_count + non_resident + h, non_resident <= w, h + lirs_count <= CacheSize,
           non_resident <= 2 * CacheSize
    PROVE  /\ P!PruneSize(h) <= w
           /\ m <= 2 * CacheSize + P!PruneSize(h)
<1>1. lirs_count \in Nat /\ non_resident \in Nat /\ CacheSize \in Nat
  BY SizeAssumption, CountersNat DEF IInv, ListTypeOK
<1>2. \A n \in Nat : n <= 2 * CacheSize => P!AsInt(n) = n
  BY SizeMaxAssumption, SizeAssumption DEF P!AsInt
<1>3. P!AsInt(h) = h /\ P!AsInt(lirs_count) = lirs_count /\ P!AsInt(non_resident) = non_resident
  BY <1>1, <1>2
<1> QED
  BY <1>1, <1>3 DEF P!PruneSize

LEMMA CopiedFlags ==
    ASSUME NEW x \in Marked
    PROVE  /\ P!Copied(x) \in Marked /\ P!Copied(x).is_demoted = FALSE
           /\ P!Copied(x).is_LIR = x.is_LIR /\ P!Copied(x).in_cache = x.in_cache
<1>1. \A i \in Int : LET c == [x EXCEPT !.is_demoted = FALSE, !.rc = i] IN
                     /\ c \in Marked /\ c.is_demoted = FALSE
                     /\ c.is_LIR = x.is_LIR /\ c.in_cache = x.in_cache
  BY DEF Marked
<1>2. x.rc + 2 \in Int
  BY DEF Marked
<1> QED
  BY <1>1, <1>2 DEF P!Copied

\* The entry that dlirs_hit_hir_in_resident_hirs finds.
LEMMA HitHirFlags ==
    ASSUME IInv, ExactInv, NEW k \in Keys, ~ListHolds(stack, k), ListHolds(resident, k),
           P!InsertFault(entry, resident, k) = "none", P!HitHirInResidentHirs(k)
    PROVE  LET e == ListAt(resident, k) IN
           /\ e \in ToSet(resident) /\ e \in Entries /\ KeyOf(e) = k
           /\ e \notin ToSet(stack) /\ e \in CachedIn(entry) /\ e \notin LirIn(entry)
           /\ ~ListHolds(index, k)
           /\ stack' = Append(stack, e) /\ index' = Append(index, e)
           /\ resident' = resident
           /\ LirIn(entry') = LirIn(entry) /\ CachedIn(entry') = CachedIn(entry)
           /\ DemotedIn(entry') = DemotedIn(entry) \ {e}
           /\ e \notin DemotedIn(entry) => demoted' = demoted
           /\ e \in DemotedIn(entry) => demoted' = P!Dec(demoted)
<1> DEFINE e == ListAt(resident, k)
           o == P!Copied(entry[e])
           copied == [entry EXCEPT ![e] = o]
           L == LirIn(entry)
           C == CachedIn(entry)
           D == DemotedIn(entry)
<1>1. /\ stack \in Seq(Entries) /\ KeysOnce(stack)
      /\ index \in Seq(Entries) /\ KeysOnce(index)
      /\ resident \in Seq(Entries) /\ KeysOnce(resident)
      /\ entry \in [Entries -> Marked]
      /\ ToSet(index) = ToSet(stack) \ L
  BY ExactTypes
<1>2. e \in ToSet(resident) /\ e \in Entries /\ KeyOf(e) = k
  BY <1>1, HoldsIs, AtType
<1>3. e \notin ToSet(stack)
  BY <1>1, <1>2, HoldsIs
<1>4. e \in C /\ e \notin L
  BY <1>2 DEF ExactInv, Tables, Sound, Shape
<1>5. ~ListHolds(index, k)
  BY <1>1, HoldsIs
<1>6. resident' = resident
  <2>1. ListPos(resident, k) = Len(resident)
    BY DEF P!InsertFault, ListInsertHangs
  <2>2. resident[Len(resident)] = e
    BY <2>1 DEF ListAt
  <2>3. resident' = [resident EXCEPT ![Len(resident)] = e]
    BY <1>2 DEF P!HitHirInResidentHirs, ListInsert
  <2> HIDE DEF e
  <2> QED
    BY <1>1, <2>2, <2>3
<1>7. stack' = Append(stack, e) /\ index' = Append(index, e)
  BY <1>2, <1>5 DEF P!HitHirInResidentHirs, ListInsert
<1>8. entry' = P!Release(copied, e)
  BY <1>5 DEF P!HitHirInResidentHirs, P!Overridden
<1>9. entry[e] \in Marked
  BY <1>1, <1>2
<1>10. o \in Marked /\ ~o.is_demoted /\ (o.is_LIR <=> e \in L) /\ (o.in_cache <=> e \in C)
  <2>1. /\ o \in Marked /\ o.is_demoted = FALSE /\ o.is_LIR = entry[e].is_LIR
        /\ o.in_cache = entry[e].in_cache
    BY <1>9, CopiedFlags
  <2> HIDE DEF o, e
  <2> QED
    BY <1>2, <2>1 DEF LirIn, CachedIn
<1> HIDE DEF o
<1>11. /\ copied \in [Entries -> Marked] /\ LirIn(copied) = L /\ CachedIn(copied) = C
       /\ DemotedIn(copied) = D \ {e}
  <2>1. /\ copied \in [Entries -> Marked]
        /\ LirIn(copied) = IF o.is_LIR THEN L \cup {e} ELSE L \ {e}
        /\ CachedIn(copied) = IF o.in_cache THEN C \cup {e} ELSE C \ {e}
        /\ DemotedIn(copied) = IF o.is_demoted THEN D \cup {e} ELSE D \ {e}
    BY <1>1, <1>2, <1>10, FlagsOf
  <2>2. L \ {e} = L /\ C \cup {e} = C
    BY <1>4
  <2> QED
    BY <1>4, <1>10, <2>1, <2>2
<1> HIDE DEF copied
<1>12. LirIn(entry') = L /\ CachedIn(entry') = C /\ DemotedIn(entry') = D \ {e}
  BY <1>2, <1>8, <1>11, ReleaseFlags
<1>13. entry[e].is_demoted <=> e \in D
  BY <1>2 DEF DemotedIn
<1>14. e \notin D => demoted' = demoted
  BY <1>13 DEF P!HitHirInResidentHirs
<1>15. e \in D => demoted' = P!Dec(demoted)
  BY <1>13 DEF P!HitHirInResidentHirs
<1> QED
  BY <1>2, <1>3, <1>4, <1>5, <1>6, <1>7, <1>12, <1>14, <1>15

\* dlirs_hit_hir_in_resident_hirs
LEMMA HitHirExact ==
    ASSUME IInv, ExactInv, pc = "idle", NEW k \in Keys, ~ListHolds(stack, k), ListHolds(resident, k),
           P!InsertFault(entry, resident, k) = "none", P!HitHirInResidentHirs(k)
    PROVE  ExactInv' /\ Stored' = Stored
<1> DEFINE e == ListAt(resident, k)
           s == ToSet(stack)
           n == ToSet(index)
           r == ToSet(resident)
           L == LirIn(entry)
           C == CachedIn(entry)
           D == DemotedIn(entry)
           left == IF e \in D THEN demoted - 1 ELSE demoted
<1>1. /\ stack \in Seq(Entries) /\ KeysOnce(stack)
      /\ index \in Seq(Entries) /\ KeysOnce(index)
      /\ KeysOnce(resident) /\ n = s \ L
      /\ IsFiniteSet(r) /\ Len(stack) = Cardinality(s) /\ call \in Calls
      /\ hirs_count \in Nat /\ lirs_count \in Nat /\ non_resident \in Nat /\ demoted \in Nat
      /\ CacheSize \in Nat /\ hirs_count + lirs_count <= CacheSize
  BY ExactTypes
<1>2. /\ e \in r /\ e \in Entries /\ KeyOf(e) = k
      /\ e \notin s /\ e \in C /\ e \notin L
      /\ ~ListHolds(index, k)
      /\ stack' = Append(stack, e) /\ index' = Append(index, e)
      /\ resident' = resident
      /\ LirIn(entry') = L /\ CachedIn(entry') = C /\ DemotedIn(entry') = D \ {e}
      /\ e \notin D => demoted' = demoted
      /\ e \in D => demoted' = P!Dec(demoted)
  BY HitHirFlags
<1>3. /\ hirs_count' = hirs_count /\ lirs_count' = lirs_count /\ non_resident' = non_resident
      /\ pc' = "limit"
      /\ call' = [P!Begin("get", k) EXCEPT !.result = "hit", !.size = P!PruneSize(hirs_count)]
  BY DEF P!HitHirInResidentHirs
<1>4. Sound(s, n, r, L, C, D, hirs_count, lirs_count, non_resident, demoted)
  BY DEF ExactInv, Tables
<1>5. /\ Sound(s \cup {e}, n \cup {e}, r, L, C, D \ {e}, hirs_count, lirs_count, non_resident, left)
      /\ e \in D => demoted > 0
  <2>1. e \in r /\ e \notin s
    BY <1>2
  <2> HIDE DEF s, n, r, L, C, D, e
  <2> QED
    BY <1>4, <2>1, SoundJoin
<1>6. demoted' = left
  <2>1. CASE e \in D
    BY <1>1, <1>2, <1>5, <2>1, DecType, ExactSizes
  <2>2. CASE e \notin D
    BY <1>2, <2>2
  <2> QED
    BY <2>1, <2>2
<1>7. /\ KeysOnce(stack') /\ ToSet(stack') = s \cup {e} /\ Len(stack') = Len(stack) + 1
      /\ stack' \in Seq(Entries)
      /\ Head(stack') = IF stack = << >> THEN e ELSE Head(stack)
      /\ KeysOnce(index') /\ ToSet(index') = n \cup {e}
      /\ index' \in Seq(Entries)
  BY <1>1, <1>2, AppendIs
<1>8. Ordered(index', stack')
  <2>1. Ordered(index, stack)
    BY DEF ExactInv, Tables
  <2> QED
    BY <1>1, <1>2, <2>1, OrderedAdd
<1>9. Tables'
  <2> HIDE DEF s, n, r, L, C, D, e, left
  <2>1. ToSet(resident') = r /\ KeysOnce(resident')
    BY <1>1, <1>2 DEF r
  <2> QED
    BY <1>2, <1>3, <1>5, <1>6, <1>7, <1>8, <2>1 DEF Tables
<1>10. ~Promoting' /\ ~Requesting' /\ Underway' = 0 /\ ~Promoting /\ ~Requesting /\ Underway = 0
  BY <1>3, IdleIs DEF Promoting, Requesting, Underway
<1>11. Bottom'
  <2>1. hirs_count # 0
    <3>1. hirs_count = Cardinality(r)
      BY <1>4 DEF Sound
    <3> QED
      BY <1>1, <1>2, <3>1, FS_EmptySet
  <2>2. lirs_count # 0
    BY <1>10, <2>1 DEF ExactInv, Filled
  <2>3. stack # << >>
    <3>1. SUFFICES ASSUME stack = << >> PROVE FALSE
      OBVIOUS
    <3>2. s \cap L = {}
      BY <3>1 DEF ToSet
    <3>3. lirs_count = Cardinality(s \cap L)
      BY <1>4 DEF Sound
    <3> QED
      BY <2>2, <3>2, <3>3, FS_EmptySet
  <2>4. Head(stack) \in L
    BY <1>3, <2>3 DEF ExactInv, Bottom
  <2> QED
    BY <1>2, <1>7, <2>3, <2>4 DEF Bottom
<1>12. Filled'
  BY <1>3, <1>10 DEF ExactInv, Filled
<1>13. /\ call'.op = "get" /\ call'.key = k /\ call'.back = "ret" /\ call'.result = "hit"
       /\ call'.size = P!PruneSize(hirs_count) /\ call'.contained
  <2>1. P!CacheContains(k) = TRUE
    BY DEF P!CacheContains
  <2> QED
    BY <1>3, <2>1 DEF P!Begin, P!NoCall
<1>14. Room'
  <2>1. /\ Cardinality(s \cup {e}) <= lirs_count + non_resident + hirs_count
        /\ non_resident <= Cardinality(n \cup {e})
    <3> HIDE DEF s, n, r, L, C, D, e, left
    <3> QED
      BY <1>5, StackSize
  <2>2. Len(stack') = Cardinality(s \cup {e}) /\ Len(stack') \in Nat
    <3>1. KeysOnce(stack') /\ stack' \in Seq(Entries)
      BY <1>7
    <3>2. Cardinality(ToSet(stack')) = Len(stack')
      BY <3>1, CardIs
    <3>3. Len(stack') \in Nat
      BY <3>1
    <3> QED
      BY <1>7, <3>2, <3>3
  <2>3. Len(index') = Cardinality(n \cup {e}) /\ Len(index') \in Nat
    <3>1. KeysOnce(index') /\ index' \in Seq(Entries)
      BY <1>7
    <3>2. Cardinality(ToSet(index')) = Len(index')
      BY <3>1, CardIs
    <3>3. Len(index') \in Nat
      BY <3>1
    <3> QED
      BY <1>7, <3>2, <3>3
  <2>4. /\ P!PruneSize(hirs_count) <= Len(index')
        /\ Len(stack') <= 2 * CacheSize + P!PruneSize(hirs_count)
    BY <1>1, <2>1, <2>2, <2>3, PruneSizeRoom, ExactSizes
  <2> QED
    BY <1>3, <1>13, <2>4 DEF Room
<1>15. Locals'
  BY <1>10 DEF Locals
<1>16. Answers'
  BY <1>3, <1>13 DEF Answers
<1>17. Stored' = Stored
  <2>1. ToSet(stack') = s \cup {e} /\ ToSet(resident') = r /\ CachedIn(entry') = C
    BY <1>2, <1>7
  <2>2. e \in r
    BY <1>2
  <2> HIDE DEF s, r, C, e
  <2>3. Kept(s \cup {e}, r, C) = Kept(s, r, C)
    BY <2>2 DEF Kept
  <2> QED
    BY <2>1, <2>3 DEF Stored, s, r, C
<1> QED
  BY <1>9, <1>11, <1>12, <1>14, <1>15, <1>16, <1>17 DEF ExactInv

\* dlirs_get on a key it does not find.
LEMMA GetMissExact ==
    ASSUME IInv, ExactInv, pc = "idle", NEW k \in Keys, ~ListHolds(stack, k), ~ListHolds(resident, k),
           P!GetMiss(k)
    PROVE  ExactInv'
<1>1. /\ UNCHANGED <<stack, index, resident, hirs_count,
                    lirs_count, demoted, non_resident, entry>>
      /\ call' = [P!Begin("get", k) EXCEPT !.result = "null"] /\ pc' = "ret"
  BY DEF P!GetMiss, P!data, P!tables, P!limits, P!counters
<1>2. ~Promoting' /\ ~Requesting' /\ Underway' = 0 /\ ~Promoting /\ ~Requesting /\ Underway = 0
  BY <1>1, IdleIs DEF Promoting, Requesting, Underway
<1>3. call'.op = "get" /\ call'.key = k /\ call'.result = "null" /\ ~call'.contained
  <2>1. P!CacheContains(k) = FALSE
    BY DEF P!CacheContains
  <2> QED
    BY <1>1, <2>1 DEF P!Begin, P!NoCall
<1>4. \A e \in ToSet(stack) : KeyOf(e) # k
  BY HoldsIs, ExactTypes
<1>5. Tables' /\ Bottom' /\ Locals'
  BY <1>1, <1>2 DEF ExactInv, Tables, Bottom, Locals
<1>6. Filled'
  BY <1>1, <1>2 DEF ExactInv, Filled
<1>7. Room'
  BY <1>1, <1>2 DEF ExactInv, Room
<1>8. Answers'
  BY <1>1, <1>3, <1>4 DEF Answers
<1> QED
  BY <1>5, <1>6, <1>7, <1>8 DEF ExactInv

\* What the first step of a get does.
LEMMA GetSteps ==
    ASSUME NEW k \in Keys, P!Get(k)
    PROVE  \/ UNCHANGED <<P!data, call>> /\ pc' \in P!Lost
           \/ ListHolds(stack, k) /\ entry[ListAt(stack, k)].is_LIR /\ P!HitLir(k)
           \/ /\ ListHolds(stack, k) /\ ~entry[ListAt(stack, k)].is_LIR
              /\ P!HirInLirsFault(k) = "none" /\ P!HirInLirs(k)
           \/ /\ ~ListHolds(stack, k) /\ ListHolds(resident, k)
              /\ P!InsertFault(entry, resident, k) = "none"
              /\ P!InsertFault(entry, index, k) = "none" /\ P!HitHirInResidentHirs(k)
           \/ ~ListHolds(stack, k) /\ ~ListHolds(resident, k) /\ P!GetMiss(k)
<1>1. CASE ListHolds(stack, k)
  BY <1>1, FaultTypes DEF P!Get, P!StartGet, P!GetLirs, P!Unless, Faults, P!Lost
<1>2. CASE ~ListHolds(stack, k) /\ ListHolds(resident, k)
  <2>1. P!HitHirFault(k) = "none" => /\ P!InsertFault(entry, resident, k) = "none"
                                     /\ P!InsertFault(entry, index, k) = "none"
    BY DEF P!HitHirFault, P!FirstFault
  <2> QED
    BY <1>2, <2>1, FaultTypes DEF P!Get, P!StartGet, P!Unless, Faults, P!Lost
<1>3. CASE ~ListHolds(stack, k) /\ ~ListHolds(resident, k)
  BY <1>3 DEF P!Get, P!StartGet
<1> QED
  BY <1>1, <1>2, <1>3

\* What the first step of a request does, for a client that asks again.
LEMMA RequestSteps ==
    ASSUME NEW k \in Keys, P!Request(k)
    PROVE  /\ pc = "ask" /\ k = call.key
           /\ \/ UNCHANGED <<P!data, call>> /\ pc' \in P!Lost
              \/ /\ P!FreeNames(k) # {} /\ (Recheck => ~P!CacheContains(k))
                 /\ \/ /\ call' = [P!Begin("request", k) EXCEPT !.result = "0"]
                       /\ pc' = "request" /\ UNCHANGED P!data
                    \/ /\ lirs_count < lirs_limit /\ hirs_count = 0
                       /\ P!InsertFault(entry, stack, k) = "none" /\ P!RequestLir(k)
<1>1. (UNCHANGED <<P!data, call>> /\ pc' \in P!Lost) \/ (P!StartRequest(k) /\ (Recheck => ~P!CacheContains(k)))
  BY FaultTypes DEF P!Request, P!Unless, Faults, P!Lost
<1>2. P!StartRequest(k) =>
        \/ UNCHANGED <<P!data, call>> /\ pc' \in P!Lost
        \/ /\ P!FreeNames(k) # {}
           /\ \/ /\ call' = [P!Begin("request", k) EXCEPT !.result = "0"]
                 /\ pc' = "request" /\ UNCHANGED P!data
              \/ /\ lirs_count < lirs_limit /\ hirs_count = 0
                 /\ P!InsertFault(entry, stack, k) = "none" /\ P!RequestLir(k)
  BY FaultTypes DEF P!StartRequest, P!Unless, Faults, P!Lost
<1> QED
  BY <1>1, <1>2 DEF P!Request

LEMMA GetExact ==
    ASSUME IInv, ExactInv, NEW k \in Keys, P!Get(k)
    PROVE  ListRunning' => ExactInv'
<1>1. pc = "idle" /\ P!StartGet(k)
  BY DEF P!Get
<1>2. CASE ListHolds(stack, k)
  <2>1. \/ pc' \in P!Lost
        \/ entry[ListAt(stack, k)].is_LIR /\ P!HitLir(k)
        \/ ~entry[ListAt(stack, k)].is_LIR /\ P!HirInLirsFault(k) = "none" /\ P!HirInLirs(k)
    BY <1>1, <1>2, FaultTypes DEF P!StartGet, P!GetLirs, P!Unless, Faults, P!Lost
  <2> QED
    BY <1>1, <1>2, <2>1, HitLirExact, HirInLirsExact, LostStops
<1>3. CASE ~ListHolds(stack, k) /\ ListHolds(resident, k)
  <2>1. \/ pc' \in P!Lost
        \/ P!InsertFault(entry, resident, k) = "none" /\ P!HitHirInResidentHirs(k)
    BY <1>1, <1>3, FaultTypes
    DEF P!StartGet, P!Unless, P!HitHirFault, P!FirstFault, Faults, P!Lost
  <2> QED
    BY <1>1, <1>3, <2>1, HitHirExact, LostStops
<1>4. CASE ~ListHolds(stack, k) /\ ~ListHolds(resident, k)
  BY <1>1, <1>4, GetMissExact DEF P!StartGet
<1> QED
  BY <1>2, <1>3, <1>4

\* A counter that says there is a LIR entry means there is one on the stack.
LEMMA StackNotEmpty ==
    ASSUME IInv, ExactInv, lirs_count # 0
    PROVE  stack # << >>
<1> DEFINE s == ToSet(stack)
           L == LirIn(entry)
<1>1. SUFFICES ASSUME stack = << >> PROVE FALSE
  OBVIOUS
<1>2. s \cap L = {}
  BY <1>1 DEF ToSet
<1>3. lirs_count = Cardinality(s \cap L)
  BY DEF ExactInv, Tables, Sound
<1> QED
  BY <1>2, <1>3, FS_EmptySet

\* The object that a request makes, of a key that no table holds.
LEMMA NewEntryFresh ==
    ASSUME IInv, ExactInv, NEW k \in Keys, P!FreeNames(k) # {}, Absent(k)
    PROVE  /\ P!NewEntry(k) \in Entries /\ KeyOf(P!NewEntry(k)) = k
           /\ Fresh(P!NewEntry(k), ToSet(stack), ToSet(resident))
<1>1. P!NewEntry(k) \in P!FreeNames(k)
  BY Zenon DEF P!NewEntry
<1>2. KeyOf(P!NewEntry(k)) = k
  BY <1>1 DEF P!FreeNames
<1>3. \A f \in ToSet(stack) \cup ToSet(resident) : KeyOf(f) # k
  BY AbsentIs
<1> QED
  BY <1>2, <1>3, NewEntryType DEF Fresh

LEMMA CreatedFlags ==
    ASSUME NEW objs \in [Entries -> Marked], NEW e \in Entries, NEW b \in BOOLEAN, NEW n \in Nat
    PROVE  LET new == [objs EXCEPT ![e] = P!Created(b, n)] IN
           /\ LirIn(new) = IF b THEN LirIn(objs) \cup {e} ELSE LirIn(objs) \ {e}
           /\ CachedIn(new) = CachedIn(objs) \cup {e}
           /\ DemotedIn(new) = DemotedIn(objs) \ {e}
<1> DEFINE o == P!Created(b, n)
<1>1. o \in Marked /\ o.is_LIR = b /\ o.in_cache = TRUE /\ o.is_demoted = FALSE
  BY DEF P!Created, Marked
<1> HIDE DEF o
<1>2. /\ LirIn([objs EXCEPT ![e] = o])
           = IF o.is_LIR THEN LirIn(objs) \cup {e} ELSE LirIn(objs) \ {e}
      /\ CachedIn([objs EXCEPT ![e] = o])
           = IF o.in_cache THEN CachedIn(objs) \cup {e} ELSE CachedIn(objs) \ {e}
      /\ DemotedIn([objs EXCEPT ![e] = o])
           = IF o.is_demoted THEN DemotedIn(objs) \cup {e} ELSE DemotedIn(objs) \ {e}
  BY <1>1, FlagsOf
<1>3. o = P!Created(b, n)
  BY DEF o
<1> DEFINE new == [objs EXCEPT ![e] = o]
<1> HIDE DEF new
<1>4. /\ LirIn(new) = IF b THEN LirIn(objs) \cup {e} ELSE LirIn(objs) \ {e}
      /\ CachedIn(new) = CachedIn(objs) \cup {e}
      /\ DemotedIn(new) = DemotedIn(objs) \ {e}
  BY <1>1, <1>2 DEF new
<1> QED
  BY <1>4 DEF new, o

\* dlirs_request while there is room for a LIR entry.
LEMMA RequestLirExact ==
    ASSUME IInv, ExactInv, pc = "ask", NEW k \in Keys, P!FreeNames(k) # {}, Absent(k),
           lirs_count < lirs_limit, hirs_count = 0, P!RequestLir(k)
    PROVE  ExactInv' /\ Stored' = Stored \cup {k}
<1> DEFINE e == P!NewEntry(k)
           s == ToSet(stack)
           n == ToSet(index)
           r == ToSet(resident)
           L == LirIn(entry)
           C == CachedIn(entry)
           D == DemotedIn(entry)
<1>1. /\ stack \in Seq(Entries) /\ KeysOnce(stack) /\ entry \in [Entries -> Marked]
      /\ KeysOnce(index) /\ KeysOnce(resident)
      /\ Len(stack) = Cardinality(s)
      /\ hirs_count \in Nat /\ lirs_count \in Nat /\ non_resident \in Nat /\ CacheSize \in Nat
      /\ CacheSize >= 2 /\ Len(stack) \in Nat
  BY ExactTypes
<1>2. e \in Entries /\ KeyOf(e) = k /\ Fresh(e, s, r)
  BY NewEntryFresh
<1>3. ~ListHolds(stack, k)
  BY DEF Absent
<1>4. /\ stack' = Append(stack, e) /\ entry' = [entry EXCEPT ![e] = P!Created(TRUE, 1)]
      /\ lirs_count' = lirs_count + 1
      /\ call' = [P!Begin("request", k) EXCEPT !.result = "0"] /\ pc' = "ret"
      /\ UNCHANGED <<index, resident, P!limits, hirs_count, demoted, non_resident>>
  BY <1>2, <1>3, ExactSizes DEF P!RequestLir, ListInsert, P!Overridden
<1>5. LirIn(entry') = L \cup {e} /\ CachedIn(entry') = C \cup {e} /\ DemotedIn(entry') = D \ {e}
  <2>1. TRUE \in BOOLEAN /\ 1 \in Nat
    OBVIOUS
  <2>2. entry \in [Entries -> Marked] /\ e \in Entries /\ entry' = [entry EXCEPT ![e] = P!Created(TRUE, 1)]
    BY <1>1, <1>2, <1>4
  <2> HIDE DEF e
  <2> QED
    BY <2>1, <2>2, CreatedFlags
<1>6. Sound(s, n, r, L, C, D, hirs_count, lirs_count, non_resident, demoted)
  BY DEF ExactInv, Tables
<1>7. Sound(s \cup {e}, n, r, L \cup {e}, C \cup {e}, D \ {e}, hirs_count, lirs_count + 1,
            non_resident, demoted)
  <2> HIDE DEF s, n, r, L, C, D, e
  <2> QED
    BY <1>2, <1>6, SoundAddLir
<1>8. /\ KeysOnce(stack') /\ ToSet(stack') = s \cup {e} /\ Len(stack') = Len(stack) + 1
      /\ Head(stack') = IF stack = << >> THEN e ELSE Head(stack)
  <2> HIDE DEF e
  <2> QED
    BY <1>1, <1>2, <1>3, <1>4, AppendIs
<1>9. Ordered(index', stack')
  <2>1. Ordered(index, stack)
    BY DEF ExactInv, Tables
  <2>2. Ordered(index, Append(stack, e))
    BY <1>1, <1>2, <1>3, <2>1, OrderedAddLir
  <2> QED
    BY <1>4, <2>2
<1>10. Tables'
  <2>1. /\ ToSet(index') = n /\ ToSet(resident') = r
        /\ KeysOnce(index') /\ KeysOnce(resident')
        /\ hirs_count' = hirs_count /\ non_resident' = non_resident /\ demoted' = demoted
    BY <1>1, <1>4
  <2> HIDE DEF s, n, r, L, C, D, e
  <2> QED
    BY <1>4, <1>5, <1>7, <1>8, <1>9, <2>1 DEF Tables
<1>11. ~Promoting' /\ ~Requesting' /\ Underway' = 0 /\ ~Promoting /\ ~Requesting /\ Underway = 0
  BY <1>4, IdleIs DEF Promoting, Requesting, Underway
<1>12. Bottom'
  <2>1. stack # << >> => Head(stack) \in L
    BY DEF ExactInv, Bottom
  <2> HIDE DEF e
  <2> QED
    BY <1>5, <1>8, <2>1 DEF Bottom
<1>13. hirs_count + lirs_count < CacheSize /\ non_resident = 0
  <2>1. lirs_limit \in Int /\ lirs_limit < CacheSize
    BY <1>1 DEF IInv, ListTypeOK, LimitsPartition
  <2>2. hirs_count + lirs_count + 0 < CacheSize
    BY <1>1, <2>1
  <2> QED
    BY <1>1, <1>11, <2>2 DEF ExactInv, Filled
<1>14. Filled'
  <2>1. lirs_count' # 0 /\ non_resident' = 0
    BY <1>1, <1>4, <1>13
  <2> QED
    BY <1>11, <2>1 DEF Filled
<1>15. Room'
  <2>1. Cardinality(s) <= lirs_count + non_resident + hirs_count
    <3> HIDE DEF s, n, r, L, C, D
    <3> QED
      BY <1>6, StackSize
  <2>2. Len(stack') + 0 <= 2 * CacheSize
    BY <1>1, <1>8, <1>13, <2>1
  <2> QED
    BY <1>4, <1>11, <2>2 DEF Room
<1>16. Locals'
  BY <1>11 DEF Locals
<1>17. Answers'
  <2>1. call'.op = "request"
    BY <1>4 DEF P!Begin, P!NoCall
  <2> QED
    BY <1>4, <2>1 DEF Answers
<1>18. Stored' = Stored \cup {k}
  <2> DEFINE A == Kept(s, r, C)
             B == Kept(s \cup {e}, r, C \cup {e})
  <2>1. B = A \cup {e}
    <3>1. e \notin s
      BY <1>2 DEF Fresh
    <3> HIDE DEF s, r, C, e
    <3> QED
      BY <3>1 DEF Kept
  <2>2. Stored = KeysOf(A) /\ Stored' = KeysOf(B)
    BY <1>4, <1>5, <1>8 DEF Stored
  <2> HIDE DEF A, B, e
  <2>3. KeysOf(B) = KeysOf(A) \cup {KeyOf(e)}
    BY <2>1, KeysMore
  <2> QED
    BY <1>2, <2>2, <2>3
<1> QED
  BY <1>10, <1>12, <1>14, <1>15, <1>16, <1>17, <1>18 DEF ExactInv

\* A client that has just asked knows that no table holds the key.
LEMMA AskedAbsent ==
    ASSUME IInv, ExactInv, pc = "ask", ~P!CacheContains(call.key)
    PROVE  Absent(call.key)
<1> DEFINE k == call.key
<1>1. stack \in Seq(Entries) /\ KeysOnce(stack) /\ resident \in Seq(Entries) /\ KeysOnce(resident)
  BY ExactTypes
<1>2. ~ListHolds(resident, k)
  BY DEF P!CacheContains
<1>3. ~ListHolds(stack, k)
  <2>1. SUFFICES ASSUME ListHolds(stack, k) PROVE FALSE
    OBVIOUS
  <2>2. ListAt(stack, k) \in ToSet(stack) /\ KeyOf(ListAt(stack, k)) = k
    BY <1>1, <2>1, HoldsIs
  <2>3. ListAt(stack, k) \in CachedIn(entry)
    BY <2>2 DEF ExactInv, Answers
  <2> QED
    BY <2>1, <2>3 DEF CachedIn, P!CacheContains
<1>4. \A f \in ToSet(stack) : KeyOf(f) # k
  BY <1>1, <1>3, HoldsIs
<1>5. \A f \in ToSet(resident) : KeyOf(f) # k
  BY <1>1, <1>2, HoldsIs
<1> QED
  BY <1>4, <1>5, AbsentIs

\* The first step of a request.
LEMMA RequestExact ==
    ASSUME IInv, ExactInv, Recheck, NEW k \in Keys, P!Request(k)
    PROVE  ListRunning' => ExactInv'
<1>0. CASE P!ContainsFault(k) # "none"
  <2>1. pc' \in P!Lost
    BY <1>0, FaultTypes DEF P!Request, P!Unless, Faults, P!Lost
  <2> QED
    BY <2>1, LostStops
<1> SUFFICES ASSUME P!ContainsFault(k) = "none" PROVE ListRunning' => ExactInv'
  BY <1>0
<1>1. pc = "ask" /\ k = call.key /\ P!FreeNames(k) # {} /\ Absent(k)
  BY AskedAbsent DEF P!Request, P!StartRequest, P!Unless
<1>2. CASE lirs_count < lirs_limit /\ hirs_count = 0
  <2>1. P!RequestLir(k) \/ pc' \in P!Lost
    BY <1>2, FaultTypes DEF P!Request, P!StartRequest, P!Unless, Faults, P!Lost
  <2> QED
    BY <1>1, <1>2, <2>1, RequestLirExact, LostStops
<1>3. CASE ~(lirs_count < lirs_limit /\ hirs_count = 0)
  <2>1. /\ UNCHANGED <<stack, index, resident, hirs_count,
                      lirs_count, demoted, non_resident, entry>>
        /\ call' = [P!Begin("request", k) EXCEPT !.result = "0"] /\ pc' = "request"
    BY <1>3 DEF P!Request, P!StartRequest, P!Unless, P!data, P!tables, P!limits, P!counters
  <2>2. ~Promoting' /\ Requesting' /\ Underway' = 1 /\ ~Promoting /\ ~Requesting /\ Underway = 0
    BY <1>1, <2>1, IdleIs DEF Promoting, Requesting, Underway
  <2>3. call'.op = "request" /\ call'.key = k
    BY <2>1 DEF P!Begin, P!NoCall
  <2>4. Tables'
    BY <2>1 DEF ExactInv, Tables
  <2>5. Bottom'
    BY <1>1, <2>1 DEF ExactInv, Bottom
  <2>6. Filled'
    <3>1. /\ hirs_count \in Nat /\ lirs_count \in Nat /\ non_resident \in Nat /\ CacheSize \in Nat
          /\ lirs_limit \in Int /\ lirs_limit >= 1
      BY ExactTypes
    <3>2. /\ lirs_count = 0 => hirs_count = 0
          /\ hirs_count + lirs_count + 0 < CacheSize => non_resident = 0
      BY <2>2 DEF ExactInv, Filled
    <3>3. lirs_count >= 1
      BY <1>3, <3>1, <3>2
    <3>4. hirs_count + lirs_count + 1 < CacheSize => non_resident = 0
      BY <3>1, <3>2
    <3>5. hirs_count' = hirs_count /\ lirs_count' = lirs_count /\ non_resident' = non_resident
      BY <2>1
    <3> QED
      BY <2>2, <3>1, <3>3, <3>4, <3>5 DEF Filled
  <2>7. Room'
    BY <1>1, <2>1, <2>2 DEF ExactInv, Room
  <2>8. Locals'
    <3>1. Absent(call.key)'
      BY <1>1, <2>1, <2>3 DEF Absent
    <3> QED
      BY <2>2, <2>3, <3>1 DEF Locals
  <2>9. Answers'
    BY <2>1, <2>3 DEF Answers
  <2> QED
    BY <2>4, <2>5, <2>6, <2>7, <2>8, <2>9 DEF ExactInv
<1> QED
  BY <1>2, <1>3

\* The end of dlirs_request: the new HIR entry goes to all three tables.
LEMMA RequestHirExact ==
    ASSUME IInv, ExactInv, pc = "request", ~P!NoRoom, P!FreeNames(call.key) # {},
           P!RequestHir(call.key)
    PROVE  ExactInv' /\ Stored' = Stored \cup {call.key}
<1> DEFINE k == call.key
           e == P!NewEntry(k)
           s == ToSet(stack)
           n == ToSet(index)
           r == ToSet(resident)
           L == LirIn(entry)
           C == CachedIn(entry)
           D == DemotedIn(entry)
<1>1. /\ stack \in Seq(Entries) /\ KeysOnce(stack) /\ entry \in [Entries -> Marked]
      /\ index \in Seq(Entries) /\ KeysOnce(index)
      /\ resident \in Seq(Entries) /\ KeysOnce(resident)
      /\ hirs_count \in Nat /\ lirs_count \in Nat /\ non_resident \in Nat /\ CacheSize \in Nat
      /\ n = s \ L /\ call \in Calls
  BY ExactTypes
<1>2. ~Promoting /\ Requesting /\ Underway = 1 /\ k \in Keys /\ call.op = "request"
  BY DEF Promoting, Requesting, Underway, IInv, CallOK, ExactInv, Locals
<1>3. Absent(k)
  BY <1>2 DEF ExactInv, Locals
<1>4. ~ListHolds(stack, k) /\ ~ListHolds(index, k) /\ ~ListHolds(resident, k)
  BY <1>3 DEF Absent
<1>5. e \in Entries /\ KeyOf(e) = k /\ Fresh(e, s, r)
  BY <1>2, <1>3, NewEntryFresh
<1>6. /\ stack' = Append(stack, e) /\ index' = Append(index, e)
      /\ resident' = Append(resident, e)
      /\ entry' = [entry EXCEPT ![e] = P!Created(FALSE, 3)]
      /\ hirs_count' = hirs_count + 1
      /\ call' = [call EXCEPT !.size = P!PruneSize(hirs_count + 1)] /\ pc' = "limit"
      /\ UNCHANGED <<P!limits, lirs_count, demoted, non_resident>>
  <2>1. P!AfterLirs(k) = entry /\ P!AfterStack(k) = entry
    BY <1>4 DEF P!AfterLirs, P!AfterStack, P!Overridden
  <2> QED
    BY <1>4, <1>5, <2>1, ExactSizes DEF P!RequestHir, ListInsert, P!Overridden
<1>7. LirIn(entry') = L \ {e} /\ CachedIn(entry') = C \cup {e} /\ DemotedIn(entry') = D \ {e}
  <2>1. FALSE \in BOOLEAN /\ 3 \in Nat
    OBVIOUS
  <2>2. entry \in [Entries -> Marked] /\ e \in Entries /\ entry' = [entry EXCEPT ![e] = P!Created(FALSE, 3)]
    BY <1>1, <1>5, <1>6
  <2> HIDE DEF e
  <2> QED
    BY <2>1, <2>2, CreatedFlags
<1>8. Sound(s, n, r, L, C, D, hirs_count, lirs_count, non_resident, demoted)
  BY DEF ExactInv, Tables
<1>9. Sound(s \cup {e}, n \cup {e}, r \cup {e}, L \ {e}, C \cup {e}, D \ {e},
            hirs_count + 1, lirs_count, non_resident, demoted)
  <2> HIDE DEF s, n, r, L, C, D, e
  <2> QED
    BY <1>5, <1>8, SoundAddHir
<1>10. /\ KeysOnce(stack') /\ ToSet(stack') = s \cup {e} /\ stack' \in Seq(Entries)
       /\ Head(stack') = IF stack = << >> THEN e ELSE Head(stack)
       /\ KeysOnce(index') /\ ToSet(index') = n \cup {e}
       /\ index' \in Seq(Entries)
       /\ KeysOnce(resident') /\ ToSet(resident') = r \cup {e}
  <2>1. e \in Entries /\ KeyOf(e) = k
    BY <1>5
  <2> HIDE DEF e, k
  <2>2. /\ KeysOnce(stack') /\ ToSet(stack') = s \cup {e} /\ stack' \in Seq(Entries)
        /\ Head(stack') = IF stack = << >> THEN e ELSE Head(stack)
    BY <1>1, <1>4, <1>6, <2>1, AppendIs
  <2>3. /\ KeysOnce(index') /\ ToSet(index') = n \cup {e}
        /\ index' \in Seq(Entries)
    BY <1>1, <1>4, <1>6, <2>1, AppendIs
  <2>4. KeysOnce(resident') /\ ToSet(resident') = r \cup {e}
    BY <1>1, <1>4, <1>6, <2>1, AppendIs
  <2> QED
    BY <2>2, <2>3, <2>4
<1>11. Ordered(index', stack')
  <2>1. Ordered(index, stack)
    BY DEF ExactInv, Tables
  <2>2. ToSet(index) \subseteq ToSet(stack)
    BY <1>1
  <2> HIDE DEF e
  <2> QED
    BY <1>1, <1>4, <1>5, <1>6, <2>1, <2>2, OrderedAdd
<1>12. Tables'
  <2>1. lirs_count' = lirs_count /\ non_resident' = non_resident /\ demoted' = demoted
    BY <1>6
  <2> HIDE DEF s, n, r, L, C, D, e
  <2> QED
    BY <1>6, <1>7, <1>9, <1>10, <1>11, <2>1 DEF Tables
<1>13. ~Promoting' /\ ~Requesting' /\ Underway' = 0
  BY <1>6 DEF Promoting, Requesting, Underway
<1>14. lirs_count >= 1 /\ (hirs_count + lirs_count + 1 < CacheSize => non_resident = 0)
  BY <1>2 DEF ExactInv, Filled
<1>15. Bottom'
  <2>1. stack # << >>
    BY <1>1, <1>14, StackNotEmpty
  <2>2. Head(stack) \in L
    BY <2>1 DEF ExactInv, Bottom
  <2>3. Head(stack) \in s
    BY <1>1, <2>1, TailIs
  <2>4. Head(stack) # e
    BY <1>5, <2>3 DEF Fresh
  <2> HIDE DEF e
  <2> QED
    BY <1>7, <1>10, <2>1, <2>2, <2>4 DEF Bottom
<1>16. Filled'
  <2>1. hirs_count' = hirs_count + 1 /\ lirs_count' = lirs_count /\ non_resident' = non_resident
    BY <1>6
  <2>2. lirs_count' # 0 /\ hirs_count' + lirs_count' + 0 = hirs_count + lirs_count + 1
    BY <1>1, <1>14, <2>1
  <2> QED
    BY <1>13, <1>14, <2>1, <2>2 DEF Filled
<1>17. Room'
  <2>1. /\ Cardinality(s \cup {e}) <= lirs_count + non_resident + (hirs_count + 1)
        /\ non_resident <= Cardinality(n \cup {e})
    <3> HIDE DEF s, n, r, L, C, D, e
    <3> QED
      BY <1>9, StackSize
  <2>2. Len(stack') = Cardinality(s \cup {e}) /\ Len(stack') \in Nat
    <3>1. KeysOnce(stack') /\ stack' \in Seq(Entries)
      BY <1>10
    <3>2. Cardinality(ToSet(stack')) = Len(stack')
      BY <3>1, CardIs
    <3>3. Len(stack') \in Nat
      BY <3>1
    <3> QED
      BY <1>10, <3>2, <3>3
  <2>3. Len(index') = Cardinality(n \cup {e}) /\ Len(index') \in Nat
    <3>1. KeysOnce(index') /\ index' \in Seq(Entries)
      BY <1>10
    <3>2. Cardinality(ToSet(index')) = Len(index')
      BY <3>1, CardIs
    <3>3. Len(index') \in Nat
      BY <3>1
    <3> QED
      BY <1>10, <3>2, <3>3
  <2>4. hirs_count + 1 \in Nat /\ hirs_count + 1 + lirs_count <= CacheSize
    BY <1>1, ExactSizes
  <2>5. /\ P!PruneSize(hirs_count + 1) <= Len(index')
        /\ Len(stack') <= 2 * CacheSize + P!PruneSize(hirs_count + 1)
    BY <2>1, <2>2, <2>3, <2>4, PruneSizeRoom, ExactSizes
  <2>6. call'.size = P!PruneSize(hirs_count + 1)
    BY <1>1, <1>6 DEF Calls
  <2> QED
    BY <1>6, <1>13, <2>5, <2>6 DEF Room
<1>18. Locals'
  BY <1>13 DEF Locals
<1>19. Answers'
  <2>1. call'.op = "request" /\ call'.result = call.result
    BY <1>1, <1>2, <1>6 DEF Calls
  <2> QED
    BY <1>2, <1>6, <2>1 DEF ExactInv, Answers
<1>20. Stored' = Stored \cup {k}
  <2> DEFINE A == Kept(s, r, C)
             B == Kept(s \cup {e}, r \cup {e}, C \cup {e})
  <2>1. B = A \cup {e}
    <3>1. e \notin s
      BY <1>5 DEF Fresh
    <3> HIDE DEF s, r, C, e
    <3> QED
      BY <3>1 DEF Kept
  <2>2. Stored = KeysOf(A) /\ Stored' = KeysOf(B)
    BY <1>7, <1>10 DEF Stored
  <2> HIDE DEF A, B, e
  <2>3. KeysOf(B) = KeysOf(A) \cup {KeyOf(e)}
    BY <2>1, KeysMore
  <2> QED
    BY <1>5, <2>2, <2>3
<1> QED
  BY <1>12, <1>15, <1>16, <1>17, <1>18, <1>19, <1>20 DEF ExactInv

\* The loops of dlirs_request.
LEMMA RequestLoopExact ==
    ASSUME IInv, ExactInv, P!RequestLoop
    PROVE  ListRunning' => ExactInv'
<1>1. pc = "request"
  BY DEF P!RequestLoop
<1>2. CASE P!NoRoom
  BY <1>1, <1>2, EvictLirExact, EvictHirExact DEF P!RequestLoop
<1>3. CASE ~P!NoRoom
  <2>1. \/ P!FreeNames(call.key) # {} /\ P!RequestHir(call.key)
        \/ pc' \in P!Lost
    BY <1>3, FaultTypes DEF P!RequestLoop, P!Unless, Faults, P!Lost
  <2> QED
    BY <1>1, <1>3, <2>1, RequestHirExact, LostStops
<1> QED
  BY <1>2, <1>3

\* DESTROY_EVICTED_ENTRY, and the client that finds the key after all.
LEMMA ClientExact ==
    ASSUME IInv, ExactInv, P!Finish \/ P!SkipRequest
    PROVE  ListRunning' => ExactInv'
<1>1. CASE P!SkipRequest
  <2>1. /\ UNCHANGED <<stack, index, resident, hirs_count,
                      lirs_count, demoted, non_resident, entry>>
        /\ call' = P!NoCall /\ pc' = "idle" /\ pc = "ask"
    BY <1>1 DEF P!SkipRequest, P!data, P!tables, P!limits, P!counters
  <2>2. ~Promoting' /\ ~Requesting' /\ Underway' = 0 /\ ~Promoting /\ ~Requesting /\ Underway = 0
    BY <2>1, IdleIs DEF Promoting, Requesting, Underway
  <2>3. call'.op = "none" /\ call'.result = "none"
    BY <2>1 DEF P!NoCall
  <2>4. Tables' /\ Bottom' /\ Locals'
    BY <2>1, <2>2 DEF ExactInv, Tables, Bottom, Locals
  <2>5. Filled'
    BY <2>1, <2>2 DEF ExactInv, Filled
  <2>6. Room' /\ Answers'
    BY <2>1, <2>2, <2>3 DEF ExactInv, Room, Answers
  <2> QED
    BY <2>4, <2>5, <2>6 DEF ExactInv
<1>2. CASE P!Finish /\ P!Collect
  <2>1. /\ UNCHANGED <<stack, index, resident, hirs_count,
                      lirs_count, demoted, non_resident>>
        /\ entry' = IF evicted = NULL THEN entry ELSE P!Release(entry, evicted)
        /\ pc = "ret"
        /\ \/ call.result = "null" /\ pc' = "ask" /\ call' = call
           \/ pc' = "idle" /\ call' = P!NoCall
    BY <1>2 DEF P!Finish, P!Collect, P!tables, P!limits, P!counters
  <2>2. LirIn(entry') = LirIn(entry) /\ CachedIn(entry') = CachedIn(entry)
        /\ DemotedIn(entry') = DemotedIn(entry)
    <3>1. CASE evicted = NULL
      BY <2>1, <3>1
    <3>2. CASE evicted # NULL
      <4>1. evicted \in Entries /\ entry \in [Entries -> Marked]
        BY <3>2, ExactTypes DEF IInv, ListTypeOK
      <4> QED
        BY <2>1, <3>2, <4>1, ReleaseFlags
    <3> QED
      BY <3>1, <3>2
  <2>3. ~Promoting' /\ ~Requesting' /\ Underway' = 0 /\ ~Promoting /\ ~Requesting /\ Underway = 0
    BY <2>1, IdleIs DEF Promoting, Requesting, Underway
  <2>4. P!NoCall.op = "none" /\ P!NoCall.result = "none"
    BY DEF P!NoCall
  <2>5. Tables'
    BY <2>1, <2>2 DEF ExactInv, Tables
  <2>6. Bottom' /\ Locals'
    BY <2>1, <2>2, <2>3 DEF ExactInv, Bottom, Locals
  <2>7. Filled'
    BY <2>1, <2>3 DEF ExactInv, Filled
  <2>8. Room'
    BY <2>1, <2>3 DEF ExactInv, Room
  <2>9. Answers'
    BY <2>1, <2>2, <2>4 DEF ExactInv, Answers
  <2> QED
    BY <2>5, <2>6, <2>7, <2>8, <2>9 DEF ExactInv
<1>3. P!Finish => P!Collect \/ pc' \in P!Lost
  BY DEF P!Finish, P!Unless, P!Lost
<1> QED
  BY <1>1, <1>2, <1>3, LostStops

\* The tables of dlirs_create are empty.
LEMMA InitExact == P!Init => ExactInv
<1> SUFFICES ASSUME P!Init PROVE ExactInv
  OBVIOUS
<1>1. /\ stack = << >> /\ index = << >> /\ resident = << >>
      /\ hirs_count = 0 /\ lirs_count = 0 /\ demoted = 0 /\ non_resident = 0
      /\ call = P!NoCall /\ pc = "idle"
  BY DEF P!Init
<1>2. ToSet(stack) = {} /\ ToSet(index) = {} /\ ToSet(resident) = {}
  BY <1>1 DEF ToSet
<1>3. Sound({}, {}, {}, LirIn(entry), CachedIn(entry), DemotedIn(entry), 0, 0, 0, 0)
  <2>1. \A S : {} \cap S = {} /\ {} \ S = {}
    OBVIOUS
  <2> QED
    BY <2>1, FS_EmptySet DEF Sound, Shape
<1>4. Tables
  <2>1. KeysOnce(<< >>) /\ Ordered(<< >>, << >>)
    BY DEF KeysOnce, Ordered, Before
  <2> QED
    BY <1>1, <1>2, <1>3, <2>1, Zenon DEF Tables
<1>5. ~Promoting /\ ~Requesting /\ Underway = 0
  BY <1>1, IdleIs
<1>6. Bottom /\ Filled /\ Locals
  BY <1>1, <1>5 DEF Bottom, Filled, Locals
<1>7. Room
  BY <1>1, <1>5, SizeAssumption DEF Room
<1>8. Answers
  BY <1>1 DEF Answers, P!NoCall
<1> QED
  BY <1>4, <1>6, <1>7, <1>8 DEF ExactInv

\* Every step of a client that asks again keeps the invariant.
LEMMA NextExact ==
    ASSUME IInv, ListRunning => ExactInv, Recheck, [P!Next]_(P!vars)
    PROVE  ListRunning' => ExactInv'
<1>1. CASE ~ListRunning
  <2>1. pc \in P!Lost \cup {"destroyed"}
    BY <1>1 DEF ListRunning
  <2>2. pc' = pc
    BY <2>1
    DEF P!Next, P!Get, P!Request, P!Step, P!Prune, P!EjectLir, P!EjectHir, P!LimitStack,
        P!RequestLoop, P!Finish,
       P!SkipRequest, P!Destroy, P!Stopped, P!Lost, P!vars
  <2> QED
    BY <2>1, <2>2 DEF ListRunning
<1>2. CASE ListRunning /\ \E k \in Keys : P!Get(k)
  BY <1>2, GetExact
<1>3. CASE ListRunning /\ \E k \in Keys : P!Request(k)
  BY <1>3, RequestExact
<1>4. CASE ListRunning /\ P!Step
  BY <1>4, PruneExact, EjectExact, LimitStackExact, RequestLoopExact, ClientExact DEF P!Step
<1>5. CASE ListRunning /\ P!SkipRequest
  BY <1>5, ClientExact
<1>6. CASE ListRunning /\ P!Destroy
  BY <1>6 DEF P!Destroy, P!Unless, P!ReleaseAll, ListRunning, P!Lost
<1>7. CASE ListRunning /\ (P!Stopped \/ UNCHANGED P!vars)
  <2>1. UNCHANGED P!vars
    BY <1>7 DEF P!Stopped
  <2> QED
    BY <1>7, <2>1
    DEF P!vars, P!data, P!tables, P!limits, P!counters, ExactInv, Tables, Bottom, Filled,
       Underway, Room, Locals, Absent, Answers, Promoting, Requesting
<1> QED
  BY <1>1, <1>2, <1>3, <1>4, <1>5, <1>6, <1>7 DEF P!Next

\* No step runs a FATAL line: what dlirs_limit_stack looks for is there.
LEMMA NextNotFatal ==
    ASSUME IInv, ListRunning => ExactInv, ListNoFatal, [P!Next]_(P!vars)
    PROVE  ListNoFatal'
<1>1. \A objs, t, k : /\ P!InsertFault(objs, t, k) \in {"none", "abort", "hung"}
                       /\ P!RequestFault(objs, t, k) \in {"none", "abort", "hung"}
  BY DEF P!InsertFault, P!RequestFault
<1>2. CASE \E k \in Keys : P!Get(k)
  <2>1. PICK k \in Keys : pc = "idle" /\ P!StartGet(k)
    BY <1>2 DEF P!Get
  <2>2. P!HirInLirsFault(k) \in Faults /\ P!HitLirFault(k) \in Faults /\ P!HitHirFault(k) \in Faults
    BY FaultTypes
  <2>3. pc' \in {"abort", "hung", "prune", "ret", "eject_lir", "limit"}
    BY <2>1, <2>2
    DEF P!StartGet, P!GetLirs, P!GetMiss, P!HitLir, P!HirInLirs, P!HitHirInResidentHirs,
       P!Unless, Faults
  <2> QED
    BY <2>3 DEF ListNoFatal
<1>3. CASE \E k \in Keys : P!Request(k)
  <2>1. PICK k \in Keys : P!Request(k)
    BY <1>3
  <2>2. P!ContainsFault(k) \in Faults
    BY FaultTypes
  <2>3. pc' \in {"abort", "hung"} \/ P!StartRequest(k)
    BY <2>1, <2>2 DEF P!Request, P!Unless, Faults
  <2>4. pc' \in {"abort", "hung", "ret", "request"}
    BY <1>1, <2>3 DEF P!StartRequest, P!RequestLir, P!Unless
  <2> QED
    BY <2>4 DEF ListNoFatal
<1>4. CASE P!Prune
  <2>1. call.back \in {"ret", "eject_lir", "request"}
    BY DEF IInv, ListTypeOK, Calls
  <2>2. P!PruneFault \in {"none", "abort"}
    BY DEF P!PruneFault
  <2>3. pc' \in {"abort", "prune", "ret", "eject_lir", "request"}
    BY <1>4, <2>1, <2>2 DEF P!Prune, P!PruneFront, P!Unless
  <2> QED
    BY <2>3 DEF ListNoFatal
<1>5. ASSUME NEW back, P!EvictLir(back), pc # "fatal" PROVE pc' # "fatal"
  <2>1. pc' = pc \/ pc' \in {"abort", "hung", "prune"}
    BY <1>1, <1>5 DEF P!EvictLir, P!DemoteFront, P!Unless, P!vars
  <2> QED
    BY <1>5, <2>1
<1>6. ASSUME P!EvictResidentHir, pc # "fatal" PROVE pc' # "fatal"
  <2>1. pc' = pc \/ pc' = "abort"
    BY <1>6 DEF P!EvictResidentHir, P!TakeFront, P!Unless
  <2> QED
    BY <1>6, <2>1
<1>7. CASE P!EjectLir \/ P!EjectHir
  <2>1. \/ P!EvictLir("eject_lir") \/ P!EvictResidentHir
        \/ pc' \in {"eject_hir", "abort", "hung", "ret"}
    BY <1>1, <1>7 DEF P!EjectLir, P!EjectHir, P!Reinsert, P!Unless
  <2> QED
    BY <1>5, <1>6, <2>1 DEF ListNoFatal
<1>8. CASE P!LimitStack
  <2>1. ListRunning
    BY <1>8 DEF P!LimitStack, ListRunning, P!Lost
  <2> QED
    BY <1>8, <2>1, LimitStackExact DEF ListNoFatal
<1>9. CASE P!RequestLoop
  <2>1. \/ P!EvictLir("request") \/ P!EvictResidentHir
        \/ pc' \in {"abort", "hung", "limit"}
    BY <1>1, <1>9 DEF P!RequestLoop, P!RequestHir, P!RequestHirFault, P!FirstFault, P!Unless
  <2> QED
    BY <1>5, <1>6, <2>1 DEF ListNoFatal
<1>10. CASE P!Finish \/ P!SkipRequest \/ P!Destroy
  <2>1. pc' \in {"ask", "idle", "destroyed", "abort"}
    BY <1>10 DEF P!Finish, P!SkipRequest, P!Destroy, P!Collect, P!ReleaseAll, P!Unless
  <2> QED
    BY <2>1 DEF ListNoFatal
<1>11. CASE P!Stopped \/ UNCHANGED P!vars
  BY <1>11 DEF P!Stopped, P!vars, ListNoFatal
<1> QED
  BY <1>2, <1>3, <1>4, <1>7, <1>8, <1>9, <1>10, <1>11 DEF P!Next, P!Step

-----------------------------------------------------------------------------
(* What it says of the cache                                               *)

\* With a client that asks again, the counters of the cache are, between any
\* two steps of any call, the numbers of entries they stand for.
LEMMA ExactCounters == IInv /\ (ListRunning => ExactInv) => ListCountersExact
<1> SUFFICES ASSUME IInv, ExactInv, ListRunning PROVE ListCountersExact
  BY DEF ListCountersExact
<1> DEFINE s == ToSet(stack)
           r == ToSet(resident)
<1>1. LirEntries = s \cap LirIn(entry)
  BY ExactTypes DEF LirEntries, LirIn
<1>2. NonResident = s \ CachedIn(entry)
  BY ExactTypes DEF NonResident, CachedIn
<1>3. DemotedEntries = r \cap DemotedIn(entry)
  BY ExactTypes DEF DemotedEntries, DemotedIn
<1>4. /\ hirs_count = Cardinality(r) /\ lirs_count = Cardinality(s \cap LirIn(entry))
      /\ non_resident = Cardinality(s \ CachedIn(entry))
      /\ demoted = Cardinality(r \cap DemotedIn(entry))
  BY DEF ExactInv, Tables, Sound
<1>5. Len(resident) = Cardinality(r)
  BY ExactTypes
<1> QED
  BY <1>1, <1>2, <1>3, <1>4, <1>5 DEF ListCountersExact

\* The same client never breaks the stack: non_resident_hirs is the list of its
\* HIR entries in stack order and, between calls, the front is LIR.
LEMMA ExactStack == IInv /\ (ListRunning => ExactInv) => ListStackExact
<1> SUFFICES ASSUME IInv, ListRunning => ExactInv PROVE ListStackExact
  OBVIOUS
<1>1. ListStackAgrees
  <2> SUFFICES ASSUME ListRunning PROVE ListStackAgrees
    BY DEF ListStackAgrees
  <2>1. ToSet(index) = {e \in ToSet(stack) : ~entry[e].is_LIR}
    BY ExactTypes DEF LirIn
  <2>2. /\ KeysOnce(stack) /\ KeysOnce(index) /\ KeysOnce(resident)
        /\ \A a, b : Before(index, a, b) => Before(stack, a, b)
    BY DEF ExactInv, Tables, Ordered
  <2> QED
    BY <2>1, <2>2 DEF ListStackAgrees
<1>2. ListBottomIsLir
  BY DEF ListBottomIsLir, ExactInv, Bottom, LirIn, ListRunning, P!Lost
<1> QED
  BY <1>1, <1>2 DEF ListStackExact

\* Nor does it make the stack longer than twice the cache between two calls,
\* however many keys have been evicted and are still remembered.
LEMMA ExactBound == IInv /\ (ListRunning => ExactInv) => ListStackBounded
<1> SUFFICES ASSUME IInv, ExactInv, pc \in {"idle", "ask"} PROVE ListStackBounded
  BY DEF ListStackBounded, ListRunning, P!Lost
<1>1. Len(stack) + 0 <= 2 * CacheSize
  BY IdleIs DEF ExactInv, Room
<1> QED
  BY <1>1, ExactTypes DEF ListStackBounded

\* Every get of that client answers an entry if and only if dlirs_contains
\* would have said yes when it was called.
LEMMA ExactAnswers == IInv /\ (ListRunning => ExactInv) => ListGetAnswersContains
BY DEF ListGetAnswersContains, ExactInv, Answers, ListRunning, P!Lost

-----------------------------------------------------------------------------
(* DLIRS implements the bounded cache                                      *)

\* The keys of the cache are as many as the two counters say.
LEMMA KeptSize ==
    ASSUME NEW s, NEW n, NEW r, NEW L, NEW C, NEW D, NEW h, NEW l, NEW q, NEW d,
           Sound(s, n, r, L, C, D, h, l, q, d)
    PROVE  Cardinality(KeysOf(Kept(s, r, C))) = l + h
<1> DEFINE A == s \cap L
           B == Kept(s, r, C)
           f == [e \in B |-> KeyOf(e)]
<1>1. /\ Shape(s, n, r, L, C, D) /\ IsFiniteSet(s) /\ IsFiniteSet(r)
      /\ l = Cardinality(A) /\ h = Cardinality(r)
  BY DEF Sound
<1>2. IsFiniteSet(A)
  BY <1>1, Finite
<1>3. B = A \cup r /\ A \cap r = {}
  BY <1>1 DEF Shape, Kept
<1>4. \A e, g \in B : KeyOf(e) = KeyOf(g) => e = g
  BY <1>1 DEF Shape, Kept
<1> HIDE DEF A, B
<1>5. IsFiniteSet(A \cup r)
      /\ Cardinality(A \cup r) = Cardinality(A) + Cardinality(r) - Cardinality(A \cap r)
  <2>1. IsFiniteSet(r)
    BY <1>1
  <2> QED
    BY <1>2, <2>1, FS_Union
<1>6. Cardinality(A) \in Nat /\ Cardinality(r) \in Nat /\ Cardinality({}) = 0
  BY <1>1, <1>2, FS_CardinalityType, FS_EmptySet
<1>7. IsFiniteSet(B) /\ Cardinality(B) = l + h
  <2>1. Cardinality(A \cap r) = 0
    BY <1>3, <1>6
  <2>2. IsFiniteSet(B) /\ Cardinality(B) = Cardinality(A) + Cardinality(r) - Cardinality(A \cap r)
    BY <1>3, <1>5
  <2>3. l = Cardinality(A) /\ h = Cardinality(r)
    BY <1>1
  <2> QED
    BY <1>6, <2>1, <2>2, <2>3
<1>8. f \in Bijection(B, KeysOf(B))
  BY <1>4 DEF Bijection, Injection, Surjection, IsInjective, KeysOf
<1>9. ExistsBijection(B, KeysOf(B))
  BY <1>8 DEF ExistsBijection
<1>10. Cardinality(KeysOf(B)) = Cardinality(B)
  BY <1>7, <1>9, FS_Bijection
<1> QED
  BY <1>7, <1>10 DEF B

\* dlirs_contains says yes of the keys whose values the cache holds.
LEMMA ContainsIs ==
    ASSUME IInv, ExactInv, NEW k
    PROVE  P!CacheContains(k) <=> k \in Stored
<1> DEFINE s == ToSet(stack)
           r == ToSet(resident)
           C == CachedIn(entry)
<1>1. /\ stack \in Seq(Entries) /\ KeysOnce(stack) /\ s \subseteq Entries
      /\ resident \in Seq(Entries) /\ KeysOnce(resident)
  BY ExactTypes
<1>2. k \in Stored <=> (\E e \in s : e \in C /\ KeyOf(e) = k) \/ (\E e \in r : KeyOf(e) = k)
  BY DEF Stored, KeysOf, Kept
<1>3. (\E e \in r : KeyOf(e) = k) <=> ListHolds(resident, k)
  BY <1>1, HoldsIs
<1>4. \A e \in s : e \in C <=> entry[e].in_cache
  BY <1>1 DEF CachedIn
<1>5. (\E e \in s : e \in C /\ KeyOf(e) = k) => ListHolds(stack, k) /\ entry[ListAt(stack, k)].in_cache
  BY <1>1, <1>4, HoldsIs
<1>6. ListHolds(stack, k) /\ entry[ListAt(stack, k)].in_cache => \E e \in s : e \in C /\ KeyOf(e) = k
  BY <1>1, <1>4, HoldsIs
<1> QED
  BY <1>2, <1>3, <1>5, <1>6 DEF P!CacheContains

LEMMA ResidentIs ==
    IInv /\ ExactInv
      => /\ ListResident = IF call.entry # NULL /\ call.in_cache THEN Stored \cup {call.key} ELSE Stored
         /\ Stored \subseteq Keys
         /\ Cardinality(Stored) = hirs_count + lirs_count
<1> SUFFICES ASSUME IInv, ExactInv
             PROVE  /\ ListResident = IF call.entry # NULL /\ call.in_cache
                                      THEN Stored \cup {call.key} ELSE Stored
                    /\ Stored \subseteq Keys
                    /\ Cardinality(Stored) = hirs_count + lirs_count
  OBVIOUS
<1>1. Stored \subseteq Keys
  <2>1. \A e \in Entries : KeyOf(e) \in Keys
    BY DEF Entries, KeyOf
  <2> QED
    BY <2>1, ExactTypes DEF Stored, KeysOf, Kept
<1>2. {k \in Keys : P!CacheContains(k)} = Stored
  BY <1>1, ContainsIs
<1>3. Cardinality(Stored) = lirs_count + hirs_count
  <2>1. Sound(ToSet(stack), ToSet(index), ToSet(resident),
              LirIn(entry), CachedIn(entry), DemotedIn(entry),
              hirs_count, lirs_count, non_resident, demoted)
    BY DEF ExactInv, Tables
  <2> QED
    BY <2>1, KeptSize DEF Stored
<1>4. Cardinality(Stored) = hirs_count + lirs_count
  BY <1>3, ExactTypes
<1> QED
  BY <1>1, <1>2, <1>4 DEF ListResident

LEMMA ResidentNext == ASSUME IInv', ExactInv'
    PROVE  ListResident' = IF call'.entry # NULL /\ call'.in_cache THEN Stored' \cup {call'.key} ELSE Stored'
<1>1. (IInv /\ ExactInv
        => /\ ListResident = IF call.entry # NULL /\ call.in_cache THEN Stored \cup {call.key} ELSE Stored
           /\ Stored \subseteq Keys
           /\ Cardinality(Stored) = hirs_count + lirs_count)'
  BY ResidentIs, PTL
<1> QED
  BY <1>1

\* The steps of the bounded cache, from what happens to Resident and evicted.
BoundedStep == [ListBounded!Next]_(ListBounded!vars)

LEMMA Stutters ==
    ASSUME ListResident' = ListResident, evicted' = evicted
    PROVE  BoundedStep
BY DEF BoundedStep, ListBounded!vars

LEMMA Admits ==
    ASSUME NEW k \in Keys, k \notin ListResident, Cardinality(ListResident) < CacheSize,
           ListResident' = ListResident \cup {k}, evicted' = evicted
    PROVE  BoundedStep
<1>1. ListBounded!Cardinality(ListResident) = Cardinality(ListResident)
  BY DEF ListBounded!Cardinality, Cardinality
<1>2. ListBounded!Admit(k)
  BY <1>1 DEF ListBounded!Admit
<1> QED
  BY <1>2 DEF BoundedStep, ListBounded!Next

LEMMA Evicts ==
    ASSUME NEW k \in Keys, k \in ListResident, Cardinality(ListResident) = CacheSize, evicted = NULL,
           ListResident' = ListResident \ {k}, evicted' \in Entries, KeyOf(evicted') = k
    PROVE  BoundedStep
<1>1. ListBounded!Cardinality(ListResident) = Cardinality(ListResident)
  BY DEF ListBounded!Cardinality, Cardinality
<1>2. evicted' # NULL
  BY NullAssumption DEF Entries
<1>3. ListBounded!Evict(k)
  BY <1>1, <1>2 DEF ListBounded!Evict
<1> QED
  BY <1>3 DEF BoundedStep, ListBounded!Next

LEMMA Collects ==
    ASSUME ListResident' = ListResident, evicted' = NULL
    PROVE  BoundedStep
BY DEF BoundedStep, ListBounded!Next, ListBounded!Collect, ListBounded!vars

LEMMA Clears ==
    ASSUME ListResident' = {}, evicted' = evicted
    PROVE  BoundedStep
BY DEF BoundedStep, ListBounded!Next, ListBounded!Clear

\* A promotion in progress carries a value that no table holds; there is room
\* for it without evicting another.  Once it is back in the stack it is stored.
Carrying == call.entry # NULL /\ call.in_cache
Carried ==
    Carrying => \/ Promoting /\ hirs_count + lirs_count < CacheSize
                \/ pc = "ret" /\ call.result = "hit" /\ call.key \in Stored

\* Where the client and the loops of a request are, nothing is carried.
LEMMA NotCarrying ==
    ASSUME Carried, ~Promoting, pc # "ret"
    PROVE  ~Carrying
BY DEF Carried

\* What is stored and carried decides what is resident.
LEMMA SameResident ==
    ASSUME IInv, ExactInv, IInv', ExactInv',
           Stored' = Stored, Carrying' <=> Carrying, Carrying => call'.key = call.key
    PROVE  ListResident' = ListResident
<1>1. /\ ListResident = IF Carrying THEN Stored \cup {call.key} ELSE Stored
      /\ ListResident' = IF Carrying' THEN Stored' \cup {call'.key} ELSE Stored'
  BY ResidentIs, ResidentNext DEF Carrying
<1> QED
  BY <1>1

LEMMA StoredResident ==
    ASSUME IInv, ExactInv, ~Carrying
    PROVE  /\ ListResident = Stored /\ Stored \subseteq Keys
           /\ Cardinality(ListResident) = hirs_count + lirs_count
BY ResidentIs DEF Carrying

LEMMA StoredResidentNext ==
    ASSUME IInv', ExactInv', ~Carrying'
    PROVE  ListResident' = Stored'
BY ResidentNext DEF Carrying

\* A lost process stops where it is.
LEMMA LostMaps ==
    ASSUME UNCHANGED <<P!data, call>>
    PROVE  BoundedStep
<1>1. ListResident' = ListResident
  BY DEF ListResident, P!CacheContains, ListHolds, ListAt, ListPos, P!data, P!tables
<1>2. evicted' = evicted
  BY DEF P!data
<1> QED
  BY <1>1, <1>2, Stutters

\* The keys that are in no table are not stored.
LEMMA AbsentNotStored ==
    ASSUME IInv, ExactInv, NEW k, Absent(k)
    PROVE  k \notin Stored
<1>1. \A e \in ToSet(stack) \cup ToSet(resident) : KeyOf(e) # k
  BY AbsentIs
<1> QED
  BY <1>1 DEF Stored, KeysOf, Kept

-----------------------------------------------------------------------------
(* A get up to its loops *)

LEMMA HitMaps ==
    ASSUME IInv, ExactInv, IInv', ExactInv', ~Carrying, Stored' = Stored,
           UNCHANGED evicted, call'.entry = NULL
    PROVE  BoundedStep /\ Carried'
<1>1. ~Carrying'
  BY DEF Carrying
<1>2. ListResident' = ListResident
  BY <1>1, SameResident
<1> QED
  BY <1>1, <1>2, Stutters DEF Carried

LEMMA HirInLirsMaps ==
    ASSUME IInv, ExactInv, IInv', ~Carrying, pc = "idle", NEW k \in Keys, ListHolds(stack, k),
           ~entry[ListAt(stack, k)].is_LIR, P!HirInLirsFault(k) = "none", P!HirInLirs(k)
    PROVE  BoundedStep /\ Carried'
<1>1. /\ ExactInv' /\ Stored' = Stored \ {k}
      /\ P!CacheContains(k) => hirs_count' + lirs_count' < CacheSize
  BY HirInLirsExact
<1>2. /\ call'.entry = ListAt(stack, k) /\ call'.in_cache = entry[ListAt(stack, k)].in_cache
      /\ call'.key = k /\ pc' = "eject_lir" /\ evicted' = evicted
  BY DEF P!HirInLirs, P!Begin, P!NoCall
<1>3. entry[ListAt(stack, k)].in_cache = P!CacheContains(k)
  BY UnstackedSound
<1>4. ListAt(stack, k) \in Entries /\ ListAt(stack, k) # NULL
  BY ExactTypes, AtType, NullAssumption DEF Entries
<1>5. Carrying' <=> P!CacheContains(k)
  BY <1>2, <1>3, <1>4 DEF Carrying
<1>6. P!CacheContains(k) <=> k \in Stored
  BY ContainsIs
<1>7. ListResident = Stored
  BY StoredResident
<1>8. ListResident' = IF Carrying' THEN Stored' \cup {k} ELSE Stored'
  BY <1>1, <1>2, ResidentNext DEF Carrying
<1>9. ListResident' = ListResident
  BY <1>1, <1>5, <1>6, <1>7, <1>8
<1>10. Carried'
  BY <1>1, <1>2, <1>5 DEF Carried, Promoting
<1> QED
  BY <1>2, <1>9, <1>10, Stutters

LEMMA GetMaps ==
    ASSUME IInv, ExactInv, IInv', ListRunning' => ExactInv', Carried, NEW k \in Keys, P!Get(k)
    PROVE  BoundedStep /\ (ListRunning' => Carried')
<1>1. pc = "idle" /\ ~Carrying
  BY NotCarrying DEF P!Get, Promoting
<1>2. \/ UNCHANGED <<P!data, call>> /\ pc' \in P!Lost
      \/ ListHolds(stack, k) /\ entry[ListAt(stack, k)].is_LIR /\ P!HitLir(k)
      \/ ListHolds(stack, k) /\ ~entry[ListAt(stack, k)].is_LIR /\ P!HirInLirsFault(k) = "none" /\ P!HirInLirs(k)
      \/ /\ ~ListHolds(stack, k) /\ ListHolds(resident, k)
         /\ P!InsertFault(entry, resident, k) = "none" /\ P!HitHirInResidentHirs(k)
      \/ ~ListHolds(stack, k) /\ ~ListHolds(resident, k) /\ P!GetMiss(k)
  BY GetSteps
<1>3. CASE UNCHANGED <<P!data, call>> /\ pc' \in P!Lost
  BY <1>3, LostMaps DEF ListRunning
<1>4. CASE ListHolds(stack, k) /\ entry[ListAt(stack, k)].is_LIR /\ P!HitLir(k)
  <2>1. ExactInv' /\ Stored' = Stored
    BY <1>1, <1>4, HitLirExact
  <2>2. call'.entry = NULL /\ evicted' = evicted
    BY <1>4 DEF P!HitLir, P!Begin, P!NoCall
  <2> QED
    BY <1>1, <2>1, <2>2, HitMaps
<1>5. CASE ListHolds(stack, k) /\ ~entry[ListAt(stack, k)].is_LIR /\ P!HirInLirsFault(k) = "none" /\ P!HirInLirs(k)
  BY <1>1, <1>5, HirInLirsMaps
<1>6. CASE /\ ~ListHolds(stack, k) /\ ListHolds(resident, k)
           /\ P!InsertFault(entry, resident, k) = "none" /\ P!HitHirInResidentHirs(k)
  <2>1. ExactInv' /\ Stored' = Stored
    BY <1>1, <1>6, HitHirExact
  <2>2. call'.entry = NULL /\ evicted' = evicted
    BY <1>6 DEF P!HitHirInResidentHirs, P!Begin, P!NoCall
  <2> QED
    BY <1>1, <2>1, <2>2, HitMaps
<1>7. CASE ~ListHolds(stack, k) /\ ~ListHolds(resident, k) /\ P!GetMiss(k)
  <2>1. ExactInv'
    BY <1>1, <1>7, GetMissExact
  <2>2. call'.entry = NULL /\ UNCHANGED P!data
    BY <1>7 DEF P!GetMiss, P!Begin, P!NoCall
  <2>3. evicted' = evicted /\ Stored' = Stored
    BY <2>2 DEF P!data, P!tables, Stored
  <2> QED
    BY <1>1, <2>1, <2>2, <2>3, HitMaps
<1> QED
  BY <1>2, <1>3, <1>4, <1>5, <1>6, <1>7

-----------------------------------------------------------------------------
(* The loops *)

\* A step of a loop that leaves the stored keys and the locals alone.
LEMMA LoopMaps ==
    ASSUME IInv, ExactInv, IInv', ExactInv', Carried, Stored' = Stored,
           call'.entry = call.entry, call'.in_cache = call.in_cache, call'.key = call.key,
           Promoting <=> Promoting', hirs_count' + lirs_count' = hirs_count + lirs_count,
           pc # "ret", UNCHANGED evicted
    PROVE  BoundedStep /\ Carried'
<1>1. Carrying' <=> Carrying
  BY DEF Carrying
<1>2. ListResident' = ListResident
  BY <1>1, SameResident
<1>3. Carried'
  BY <1>1 DEF Carried
<1> QED
  BY <1>2, <1>3, Stutters

LEMMA PruneMaps ==
    ASSUME IInv, ExactInv, IInv', ListRunning' => ExactInv', Carried, P!Prune
    PROVE  BoundedStep /\ (ListRunning' => Carried')
<1>1. pc = "prune"
  BY DEF P!Prune
<1>2. \/ UNCHANGED <<P!data, call>> /\ pc' \in P!Lost
      \/ UNCHANGED <<P!data, call>> /\ pc' = call.back
      \/ stack # << >> /\ ~entry[Head(stack)].is_LIR /\ P!PruneFront
  BY DEF P!Prune, P!Unless, P!PruneFault, P!Lost
<1>3. CASE UNCHANGED <<P!data, call>> /\ pc' \in P!Lost
  BY <1>3, LostMaps DEF ListRunning
<1>4. CASE UNCHANGED <<P!data, call>> /\ pc' = call.back
  <2>1. call.back \in {"ret", "eject_lir", "request"}
    BY DEF IInv, ListTypeOK, Calls
  <2>2. ExactInv'
    BY <1>4, <2>1 DEF ListRunning, P!Lost
  <2>3. Promoting <=> Promoting'
    BY <1>1, <1>4, <2>1 DEF Promoting
  <2>4. Stored' = Stored /\ evicted' = evicted
        /\ hirs_count' = hirs_count /\ lirs_count' = lirs_count
    BY <1>4 DEF P!data, P!tables, P!counters, Stored
  <2> QED
    BY <1>1, <1>4, <2>2, <2>3, <2>4, LoopMaps
<1>5. CASE stack # << >> /\ ~entry[Head(stack)].is_LIR /\ P!PruneFront
  <2>1. Head(stack) \notin LirIn(entry)
    BY <1>5 DEF LirIn
  <2>2. ExactInv' /\ Stored' = Stored
    BY <1>1, <1>5, <2>1, PruneFrontExact
  <2>3. UNCHANGED <<hirs_count, lirs_count, evicted, call, pc>>
    BY <1>5 DEF P!PruneFront
  <2>4. Promoting <=> Promoting'
    BY <2>3 DEF Promoting
  <2> QED
    BY <1>1, <2>2, <2>3, <2>4, LoopMaps
<1> QED
  BY <1>2, <1>3, <1>4, <1>5

\* Demoting an entry moves one from a counter to the other.
LEMMA EvictLirMaps ==
    ASSUME IInv, ExactInv, IInv', ListRunning' => ExactInv', Carried,
           pc \in {"eject_lir", "request"}, P!EvictLir(pc),
           pc = "eject_lir" => lirs_count >= lirs_limit,
           pc = "request" => lirs_count > lirs_limit
    PROVE  BoundedStep /\ (ListRunning' => Carried')
<1>1. \/ UNCHANGED P!vars
      \/ UNCHANGED <<P!data, call>> /\ pc' \in P!Lost
      \/ stack # << >> /\ P!DemoteFront(pc)
  BY InsertFaultType DEF P!EvictLir, P!Unless, P!Lost
<1>2. CASE UNCHANGED P!vars
  <2>1. UNCHANGED <<P!data, call>>
    BY <1>2 DEF P!vars
  <2>2. Carried'
    BY <1>2 DEF Carried, Carrying, Promoting, Stored, P!vars, P!data, P!tables, P!counters
  <2> QED
    BY <2>1, <2>2, LostMaps
<1>3. CASE UNCHANGED <<P!data, call>> /\ pc' \in P!Lost
  BY <1>3, LostMaps DEF ListRunning
<1>4. CASE stack # << >> /\ P!DemoteFront(pc)
  <2>1. ExactInv' /\ Stored' = Stored
    BY <1>4, DemoteExact
  <2>2. /\ call' = [call EXCEPT !.back = pc] /\ pc' = "prune" /\ evicted' = evicted
        /\ lirs_count' = P!Dec(lirs_count) /\ hirs_count' = hirs_count + 1
    BY <1>4, ExactSizes DEF P!DemoteFront
  <2>3. lirs_count >= 1 /\ lirs_count \in Nat /\ hirs_count \in Nat
    BY ExactTypes
  <2>4. hirs_count' + lirs_count' = hirs_count + lirs_count
    BY <2>2, <2>3 DEF P!Dec
  <2>5. /\ call'.entry = call.entry /\ call'.in_cache = call.in_cache /\ call'.key = call.key
        /\ call'.back = pc
    BY <2>2, ExactTypes DEF Calls
  <2>6. Promoting <=> Promoting'
    BY <2>2, <2>5 DEF Promoting
  <2> QED
    BY <2>1, <2>2, <2>4, <2>5, <2>6, LoopMaps
<1> QED
  BY <1>1, <1>2, <1>3, <1>4

\* Evicting for want of room: the cache is full, nothing is carried and the
\* out parameter is empty.
LEMMA EvictHirMaps ==
    ASSUME IInv, ExactInv, OutInv, IInv', ListRunning' => ExactInv', Carried,
           pc \in {"eject_hir", "request"}, P!NoRoom, P!EvictResidentHir
    PROVE  BoundedStep /\ (ListRunning' => Carried')
<1>1. evicted = NULL
  BY DEF OutInv
<1>2. hirs_count + lirs_count = CacheSize
  <2>1. /\ hirs_count \in Nat /\ lirs_count \in Nat /\ CacheSize \in Nat
        /\ hirs_count + lirs_count <= CacheSize /\ hirs_count + lirs_count >= CacheSize
    BY ExactTypes, ExactSizes
  <2> QED
    BY <2>1
<1>3. ~Carrying
  <2>1. ~(hirs_count + lirs_count < CacheSize)
    <3>1. hirs_count \in Nat /\ lirs_count \in Nat /\ CacheSize \in Nat
      BY ExactTypes
    <3> QED
      BY <3>1, <1>2
  <2>2. pc # "ret"
    OBVIOUS
  <2> QED
    BY <2>1, <2>2, Zenon DEF Carried
<1>4. \/ UNCHANGED <<P!data, call>> /\ pc' \in P!Lost
      \/ evicted' = NULL /\ UNCHANGED <<P!tables, P!limits, P!counters, entry, call, pc>>
      \/ resident # << >> /\ P!TakeFront
  BY DEF P!EvictResidentHir, P!Unless, P!Lost
<1>5. CASE UNCHANGED <<P!data, call>> /\ pc' \in P!Lost
  BY <1>5, LostMaps DEF ListRunning
<1>6. CASE evicted' = NULL /\ UNCHANGED <<P!tables, P!limits, P!counters, entry, call, pc>>
  <2>1. UNCHANGED <<P!data, call>>
    BY <1>1, <1>6 DEF P!data
  <2>2. ~Carrying'
    BY <1>3, <1>6 DEF Carrying
  <2> QED
    BY <2>1, <2>2, LostMaps DEF Carried
<1>7. CASE resident # << >> /\ P!TakeFront
  <2> DEFINE e == Head(resident)
  <2>1. ExactInv' /\ Stored' = Stored \ {KeyOf(e)}
    BY <1>7, TakeFrontExact
  <2>2. call' = call /\ evicted' = e
    BY <1>7 DEF P!TakeFront
  <2>3. ~Carrying'
    BY <1>3, <2>2 DEF Carrying
  <2>4. e \in ToSet(resident) /\ e \in Entries
    <3>1. resident \in Seq(Entries)
      BY ExactTypes
    <3> QED
      BY <1>7, <3>1 DEF ToSet
  <2>5. KeyOf(e) \in Stored
    BY <2>4 DEF Stored, KeysOf, Kept
  <2>6. /\ ListResident = Stored /\ Stored \subseteq Keys
        /\ Cardinality(ListResident) = CacheSize
    BY <1>2, <1>3, StoredResident
  <2>7. ListResident' = Stored'
    BY <2>1, <2>3, StoredResidentNext
  <2>8. /\ KeyOf(e) \in Keys /\ KeyOf(e) \in ListResident
        /\ ListResident' = ListResident \ {KeyOf(e)}
        /\ evicted' \in Entries /\ KeyOf(evicted') = KeyOf(e)
    BY <2>1, <2>2, <2>4, <2>5, <2>6, <2>7
  <2>9. BoundedStep
    BY <1>1, <2>6, <2>8, Evicts
  <2> QED
    BY <2>3, <2>9 DEF Carried
<1> QED
  BY <1>4, <1>5, <1>6, <1>7

\* dlirs_hir_in_lirs: a carried value goes back into the stack, or one that
\* was evicted earlier becomes available again.
LEMMA ReinsertMaps ==
    ASSUME IInv, ExactInv, IInv', Carried, pc = "eject_hir", ~P!NoRoom, P!Reinsert
    PROVE  BoundedStep /\ Carried'
<1>1. ExactInv' /\ Stored' = Stored \cup {call.key}
  BY ReinsertExact
<1>2. /\ call' = [call EXCEPT !.result = P!Answer(call.in_cache)]
      /\ pc' = "ret" /\ evicted' = evicted
  BY DEF P!Reinsert
<1>3. call \in Calls /\ call.entry \in Entries /\ call.entry # NULL /\ call.key \in Keys
  BY ExactTypes, NullAssumption DEF IInv, CallOK, Promoting, Entries
<1>4. /\ call'.entry = call.entry /\ call'.in_cache = call.in_cache /\ call'.key = call.key
      /\ call'.result = P!Answer(call.in_cache)
  BY <1>2, <1>3 DEF Calls
<1>5. (Carrying <=> call.in_cache) /\ (Carrying' <=> call.in_cache)
  BY <1>3, <1>4 DEF Carrying
<1>6. CASE call.in_cache
  <2>1. /\ ListResident = Stored \cup {call.key}
        /\ ListResident' = Stored' \cup {call.key}
    BY <1>1, <1>4, <1>5, <1>6, ResidentIs, ResidentNext DEF Carrying
  <2>2. ListResident' = ListResident
    BY <1>1, <2>1
  <2>3. Carried'
    BY <1>1, <1>2, <1>4, <1>6 DEF Carried, P!Answer
  <2> QED
    BY <1>2, <2>2, <2>3, Stutters
<1>7. CASE ~call.in_cache
  <2>1. call.key \notin Stored
    BY AbsentNotStored DEF ExactInv, Locals, Promoting
  <2>2. ListResident = Stored /\ Cardinality(ListResident) = hirs_count + lirs_count
    BY <1>5, <1>7, StoredResident
  <2>3. ListResident' = Stored'
    BY <1>1, <1>5, <1>7, StoredResidentNext
  <2>4. Cardinality(ListResident) < CacheSize
    BY <2>2, ExactTypes, ExactSizes
  <2>5. BoundedStep
    BY <1>1, <1>2, <1>3, <2>1, <2>2, <2>3, <2>4, Admits
  <2> QED
    BY <1>5, <1>7, <2>5 DEF Carried
<1> QED
  BY <1>6, <1>7

LEMMA EjectMaps ==
    ASSUME IInv, ExactInv, OutInv, IInv', ListRunning' => ExactInv', Carried, P!EjectLir \/ P!EjectHir
    PROVE  BoundedStep /\ (ListRunning' => Carried')
<1>1. CASE P!EjectLir /\ lirs_count >= lirs_limit
  <2>1. pc = "eject_lir" /\ P!EvictLir(pc)
    BY <1>1 DEF P!EjectLir
  <2> QED
    BY <1>1, <2>1, EvictLirMaps
<1>2. CASE P!EjectLir /\ ~(lirs_count >= lirs_limit)
  <2>1. pc = "eject_lir" /\ pc' = "eject_hir" /\ UNCHANGED <<P!data, call>>
    BY <1>2 DEF P!EjectLir
  <2>2. Stored' = Stored /\ evicted' = evicted
        /\ hirs_count' = hirs_count /\ lirs_count' = lirs_count
    BY <2>1 DEF P!data, P!tables, P!counters, Stored
  <2>3. ExactInv'
    BY <2>1 DEF ListRunning, P!Lost
  <2>4. Promoting <=> Promoting'
    BY <2>1 DEF Promoting
  <2> QED
    BY <2>1, <2>2, <2>3, <2>4, LoopMaps
<1>3. CASE P!EjectHir /\ P!NoRoom
  BY <1>3, EvictHirMaps DEF P!EjectHir
<1>4. CASE P!EjectHir /\ ~P!NoRoom
  <2>1. pc = "eject_hir" /\ (P!Reinsert \/ (UNCHANGED <<P!data, call>> /\ pc' \in P!Lost))
    BY <1>4, InsertFaultType DEF P!EjectHir, P!Unless
  <2> QED
    BY <1>4, <2>1, ReinsertMaps, LostMaps DEF ListRunning
<1> QED
  BY <1>1, <1>2, <1>3, <1>4

LEMMA LimitStackMaps ==
    ASSUME IInv, ExactInv, IInv', ListRunning' => ExactInv', Carried, P!LimitStack
    PROVE  BoundedStep /\ (ListRunning' => Carried')
<1>1. pc = "limit" /\ ~Carrying
  BY NotCarrying DEF P!LimitStack, Promoting
<1>2. \/ UNCHANGED <<P!data, call>>
      \/ call.size > 0 /\ P!DropOldest
  BY DEF P!LimitStack, P!Unless
<1>3. CASE UNCHANGED <<P!data, call>>
  <2>1. ~Carrying'
    BY <1>1, <1>3 DEF Carrying
  <2> QED
    BY <1>3, <2>1, LostMaps DEF Carried
<1>4. CASE call.size > 0 /\ P!DropOldest
  <2>1. ExactInv' /\ Stored' = Stored
    BY <1>1, <1>4, DropOldestExact
  <2>2. call' = [call EXCEPT !.size = @ - 1] /\ evicted' = evicted
    BY <1>4 DEF P!DropOldest
  <2>3. call'.entry = call.entry /\ call'.in_cache = call.in_cache
    BY <2>2, ExactTypes DEF Calls
  <2>4. ~Carrying'
    BY <1>1, <2>3 DEF Carrying
  <2>5. ListResident' = ListResident
    BY <1>1, <2>1, <2>4, SameResident
  <2> QED
    BY <2>2, <2>4, <2>5, Stutters DEF Carried
<1> QED
  BY <1>2, <1>3, <1>4

-----------------------------------------------------------------------------
(* A request, and the client *)

\* A new entry stores its key, for which there is room.
LEMMA StoreMaps ==
    ASSUME IInv, ExactInv, IInv', ExactInv', NEW k \in Keys, Absent(k),
           ~Carrying, ~Carrying', hirs_count + lirs_count < CacheSize,
           Stored' = Stored \cup {k}, evicted' = evicted
    PROVE  BoundedStep /\ Carried'
<1>1. k \notin Stored
  BY AbsentNotStored
<1>2. ListResident = Stored /\ Cardinality(ListResident) = hirs_count + lirs_count
  BY StoredResident
<1>3. ListResident' = Stored'
  BY StoredResidentNext
<1>4. Cardinality(ListResident) < CacheSize
  BY <1>2
<1>5. BoundedStep
  BY <1>1, <1>2, <1>3, <1>4, Admits
<1> QED
  BY <1>5 DEF Carried

LEMMA RequestMaps ==
    ASSUME IInv, ExactInv, OutInv, IInv', ListRunning' => ExactInv', Carried, Recheck,
           NEW k \in Keys, P!Request(k)
    PROVE  BoundedStep /\ (ListRunning' => Carried')
<1>1. pc = "ask" /\ k = call.key /\ ~Carrying
  BY NotCarrying DEF P!Request, Promoting
<1>2. ~P!CacheContains(k) => Absent(k)
  BY <1>1, AskedAbsent
<1>3. evicted = NULL
  BY <1>1 DEF OutInv, P!Lost
<1>4. \/ UNCHANGED <<P!data, call>> /\ pc' \in P!Lost
      \/ call'.entry = NULL /\ UNCHANGED P!data /\ pc' = "request"
      \/ /\ lirs_count < lirs_limit /\ hirs_count = 0 /\ P!RequestLir(k)
         /\ P!FreeNames(k) # {} /\ Absent(k)
  BY <1>2, RequestSteps DEF P!Begin, P!NoCall
<1>5. CASE UNCHANGED <<P!data, call>> /\ pc' \in P!Lost
  BY <1>5, LostMaps DEF ListRunning
<1>6. CASE call'.entry = NULL /\ UNCHANGED P!data /\ pc' = "request"
  <2>1. ~Carrying'
    BY <1>6 DEF Carrying
  <2>2. ListResident' = ListResident
    BY <1>1, <1>6, <2>1
    DEF ListResident, Carrying, P!CacheContains, ListHolds, ListAt, ListPos, P!data, P!tables
  <2> QED
    BY <1>6, <2>1, <2>2, Stutters DEF Carried, P!data
<1>7. CASE /\ lirs_count < lirs_limit /\ hirs_count = 0 /\ P!RequestLir(k)
           /\ P!FreeNames(k) # {} /\ Absent(k)
  <2>1. ExactInv' /\ Stored' = Stored \cup {k}
    BY <1>1, <1>7, RequestLirExact
  <2>2. evicted' = NULL /\ call'.entry = NULL
    BY <1>7 DEF P!RequestLir, P!Begin, P!NoCall
  <2>3. ~Carrying'
    BY <2>2 DEF Carrying
  <2>4. hirs_count + lirs_count < CacheSize
    <3>1. hirs_limit + lirs_limit = CacheSize
      BY DEF IInv, LimitsPartition
    <3> QED
      BY <1>7, <3>1, ExactTypes
  <2> QED
    BY <1>1, <1>3, <1>7, <2>1, <2>2, <2>3, <2>4, StoreMaps
<1> QED
  BY <1>4, <1>5, <1>6, <1>7

LEMMA RequestLoopMaps ==
    ASSUME IInv, ExactInv, OutInv, IInv', ListRunning' => ExactInv', Carried, P!RequestLoop
    PROVE  BoundedStep /\ (ListRunning' => Carried')
<1>1. pc = "request" /\ ~Carrying
  BY NotCarrying DEF P!RequestLoop, Promoting
<1>2. CASE P!NoRoom
  BY <1>1, <1>2, EvictLirMaps, EvictHirMaps DEF P!RequestLoop
<1>3. CASE ~P!NoRoom
  <2>1. \/ UNCHANGED <<P!data, call>> /\ pc' \in P!Lost
        \/ P!FreeNames(call.key) # {} /\ P!RequestHir(call.key)
    BY <1>3, FaultTypes DEF P!RequestLoop, P!Unless, Faults, P!Lost
  <2>2. CASE UNCHANGED <<P!data, call>> /\ pc' \in P!Lost
    BY <2>2, LostMaps DEF ListRunning
  <2>3. CASE P!FreeNames(call.key) # {} /\ P!RequestHir(call.key)
    <3>1. ExactInv' /\ Stored' = Stored \cup {call.key}
      BY <1>1, <1>3, <2>3, RequestHirExact
    <3>2. call' = [call EXCEPT !.size = P!PruneSize(P!Inc(hirs_count))] /\ evicted' = evicted
      BY <2>3 DEF P!RequestHir
    <3>3. call'.entry = call.entry /\ call'.in_cache = call.in_cache
      BY <3>2, ExactTypes DEF Calls
    <3>4. ~Carrying'
      BY <1>1, <3>3 DEF Carrying
    <3>5. Absent(call.key) /\ call.key \in Keys
      BY <1>1 DEF ExactInv, Locals, Requesting, IInv, CallOK
    <3>6. hirs_count + lirs_count < CacheSize
      <4>1. hirs_count \in Nat /\ lirs_count \in Nat /\ CacheSize \in Nat
        BY ExactTypes
      <4> QED
        BY <1>3, <4>1, ExactSizes
    <3> QED
      BY <1>1, <3>1, <3>2, <3>4, <3>5, <3>6, StoreMaps
  <2> QED
    BY <2>1, <2>2, <2>3
<1> QED
  BY <1>2, <1>3

\* The client collects the evicted entry; what the cache stores stays.
LEMMA FinishMaps ==
    ASSUME IInv, ExactInv, IInv', ListRunning' => ExactInv', Carried, P!Finish
    PROVE  BoundedStep /\ (ListRunning' => Carried')
<1>1. (UNCHANGED <<P!data, call>> /\ pc' \in P!Lost) \/ P!Collect
  BY DEF P!Finish, P!Unless, P!Lost
<1>2. CASE UNCHANGED <<P!data, call>> /\ pc' \in P!Lost
  BY <1>2, LostMaps DEF ListRunning
<1>3. CASE P!Collect
  <2>1. /\ UNCHANGED <<stack, resident>> /\ evicted' = NULL /\ pc = "ret"
        /\ entry' = IF evicted = NULL THEN entry ELSE P!Release(entry, evicted)
        /\ \/ call.result = "null" /\ pc' = "ask" /\ call' = call
           \/ pc' = "idle" /\ call' = P!NoCall
    BY <1>3 DEF P!Finish, P!Collect, P!tables
  <2>2. CachedIn(entry') = CachedIn(entry)
    <3>1. CASE evicted = NULL
      BY <2>1, <3>1
    <3>2. CASE evicted # NULL
      <4>1. evicted \in Entries /\ entry \in [Entries -> Marked]
        BY <3>2, ExactTypes DEF IInv, ListTypeOK
      <4> QED
        BY <2>1, <3>2, <4>1, ReleaseFlags
    <3> QED
      BY <3>1, <3>2
  <2>3. Stored' = Stored
    BY <2>1, <2>2 DEF Stored
  <2>4. ~Carrying'
    <3>1. Carrying => call.result = "hit"
      BY <2>1 DEF Carried, Promoting
    <3> QED
      BY <2>1, <3>1 DEF Carrying, P!NoCall
  <2>5. ExactInv'
    BY <2>1 DEF ListRunning, P!Lost
  <2>6. ListResident = Stored
    <3>1. Carrying => call.key \in Stored
      BY <2>1 DEF Carried, Promoting
    <3>2. ListResident = IF Carrying THEN Stored \cup {call.key} ELSE Stored
      BY ResidentIs DEF Carrying
    <3> QED
      BY <3>1, <3>2
  <2>7. ListResident' = Stored'
    BY <2>4, <2>5, StoredResidentNext
  <2>8. BoundedStep
    BY <2>1, <2>3, <2>6, <2>7, Collects
  <2> QED
    BY <2>4, <2>8 DEF Carried
<1> QED
  BY <1>1, <1>2, <1>3

LEMMA SkipRequestMaps ==
    ASSUME IInv, ExactInv, Carried, P!SkipRequest
    PROVE  BoundedStep /\ Carried'
<1>1. ~Carrying /\ UNCHANGED P!data /\ call' = P!NoCall
  BY NotCarrying DEF P!SkipRequest, Promoting
<1>2. ~Carrying'
  BY <1>1 DEF Carrying, P!NoCall
<1>3. ListResident' = ListResident
  BY <1>1, <1>2
  DEF ListResident, Carrying, P!CacheContains, ListHolds, ListAt, ListPos, P!data, P!tables
<1> QED
  BY <1>1, <1>2, <1>3, Stutters DEF Carried, P!data

\* dlirs_destroy empties the tables.
LEMMA DestroyMaps ==
    ASSUME Carried, P!Destroy
    PROVE  BoundedStep /\ (ListRunning' => Carried')
<1>1. pc = "idle" /\ ~Carrying
  BY NotCarrying DEF P!Destroy, Promoting
<1>2. (UNCHANGED <<P!data, call>> /\ pc' \in P!Lost) \/ P!ReleaseAll
  BY DEF P!Destroy, P!Unless, P!Lost
<1>3. CASE UNCHANGED <<P!data, call>> /\ pc' \in P!Lost
  BY <1>3, LostMaps DEF ListRunning
<1>4. CASE P!ReleaseAll
  <2>1. /\ stack' = << >> /\ resident' = << >> /\ pc' = "destroyed"
        /\ UNCHANGED <<evicted, call>>
    BY <1>4 DEF P!ReleaseAll
  <2>2. \A k : ~P!CacheContains(k)'
    BY <2>1 DEF P!CacheContains, ListHolds
  <2>3. ListResident' = {}
    BY <1>1, <2>1, <2>2 DEF ListResident, Carrying
  <2> QED
    BY <2>1, <2>3, Clears DEF ListRunning
<1> QED
  BY <1>2, <1>3, <1>4

LEMMA InitMaps == P!Init => ListBounded!Init /\ Carried
<1> SUFFICES ASSUME P!Init PROVE ListBounded!Init /\ Carried
  OBVIOUS
<1>1. ~Carrying
  BY DEF P!Init, Carrying, P!NoCall
<1>2. \A k : ~P!CacheContains(k)
  BY DEF P!Init, P!CacheContains, ListHolds
<1>3. ListResident = {} /\ evicted = NULL
  BY <1>1, <1>2 DEF ListResident, Carrying, P!Init
<1> QED
  BY <1>1, <1>3 DEF ListBounded!Init, Carried

LEMMA NextMaps ==
    ASSUME IInv, ListRunning => ExactInv, OutInv, IInv', ListRunning' => ExactInv',
           ListRunning => Carried, Recheck, [P!Next]_(P!vars)
    PROVE  BoundedStep /\ (ListRunning' => Carried')
<1>1. CASE ~ListRunning
  <2>1. pc \in P!Lost \cup {"destroyed"}
    BY <1>1 DEF ListRunning
  <2>2. UNCHANGED P!vars
    BY <2>1
    DEF P!Next, P!Get, P!Request, P!Step, P!Prune, P!EjectLir, P!EjectHir, P!LimitStack,
        P!RequestLoop, P!Finish,
       P!SkipRequest, P!Destroy, P!Stopped, P!Lost
  <2>3. UNCHANGED <<P!data, call>> /\ pc' = pc
    BY <2>2 DEF P!vars
  <2> QED
    BY <2>1, <2>3, LostMaps DEF ListRunning
<1>2. CASE ListRunning /\ \E k \in Keys : P!Get(k)
  BY <1>2, GetMaps
<1>3. CASE ListRunning /\ \E k \in Keys : P!Request(k)
  BY <1>3, RequestMaps
<1>4. CASE ListRunning /\ P!Step
  BY <1>4, PruneMaps, EjectMaps, LimitStackMaps, RequestLoopMaps, FinishMaps DEF P!Step
<1>5. CASE ListRunning /\ P!SkipRequest
  BY <1>5, SkipRequestMaps
<1>6. CASE ListRunning /\ P!Destroy
  BY <1>6, DestroyMaps
<1>7. CASE ListRunning /\ (P!Stopped \/ UNCHANGED P!vars)
  <2>1. UNCHANGED <<P!data, call>> /\ pc' = pc
    BY <1>7 DEF P!Stopped, P!vars
  <2>2. Carried'
    BY <1>7, <2>1 DEF Carried, Carrying, Promoting, Stored, P!data, P!tables, P!counters
  <2> QED
    BY <2>1, <2>2, LostMaps
<1> QED
  BY <1>1, <1>2, <1>3, <1>4, <1>5, <1>6, <1>7 DEF P!Next

-----------------------------------------------------------------------------
(* Reference counters, for both kinds of client                            *)

\* 1 for a table that refers to an entry, and for a local that does.
In(t, x) == IF x \in ToSet(t) THEN 1 ELSE 0
Is(e, x) == IF e = x THEN 1 ELSE 0

\* The references to x: those of the tables, the out parameter, and the entry
\* that dlirs_hir_in_lirs has taken off the stack and will put back.
Carries(x) == IF Promoting THEN Is(call.entry, x) ELSE 0
Owed(x) == In(stack, x) + In(index, x) + In(resident, x)
             + Is(evicted, x) + Carries(x)

\* No object is counted more often than it is referred to.  (Fewer times it may
\* be: that is the use after free of MCDLIRS_freed.)
RefInv ==
    /\ KeysOnce(stack) /\ KeysOnce(index) /\ KeysOnce(resident)
    /\ Promoting => KeyOf(call.entry) = call.key
    /\ \A x \in Entries : entry[x].rc <= Owed(x)

LEMMA OneOrNone ==
    ASSUME NEW t, NEW x, NEW e
    PROVE  In(t, x) \in 0 .. 1 /\ Is(e, x) \in 0 .. 1
BY DEF In, Is

LEMMA RemoveIn ==
    ASSUME NEW t \in Seq(Entries), KeysOnce(t), NEW k, ListHolds(t, k)
    PROVE  /\ KeysOnce(ListWithout(t, k))
           /\ \A x : In(ListWithout(t, k), x) = In(t, x) - Is(ListAt(t, k), x)
<1>1. KeysOnce(ListWithout(t, k)) /\ ToSet(ListWithout(t, k)) = ToSet(t) \ {ListAt(t, k)}
  BY WithoutIs
<1>2. ListAt(t, k) \in ToSet(t)
  BY HoldsIs
<1> QED
  BY <1>1, <1>2 DEF In, Is

\* What removing the front of a table does.
Popped(t) ==
    /\ KeysOnce(Tail(t)) /\ Head(t) \in Entries
    /\ \A x : In(Tail(t), x) = In(t, x) - Is(Head(t), x)

LEMMA TailIn ==
    ASSUME NEW t \in Seq(Entries), KeysOnce(t), t # << >>
    PROVE  Popped(t)
<1> DEFINE k == KeyOf(Head(t))
<1>1. Head(t) \in Entries /\ ListHolds(t, k) /\ ListAt(t, k) = Head(t) /\ Tail(t) = ListWithout(t, k)
  BY TailIs
<1> HIDE DEF k
<1> QED
  BY <1>1, RemoveIn DEF Popped

LEMMA ReleaseIn ==
    ASSUME NEW objs \in [Entries -> Marked], NEW e \in Entries
    PROVE  /\ P!Release(objs, e) \in [Entries -> Marked]
           /\ \A x \in Entries : P!Release(objs, e)[x].rc = objs[x].rc - Is(e, x)
<1>1. P!Release(objs, e) \in [Entries -> Marked]
  BY ReleaseFlags
<1>2. ASSUME NEW x \in Entries PROVE P!Release(objs, e)[x].rc = objs[x].rc - Is(e, x)
  <2>1. objs[x] \in Marked /\ objs[x].rc \in Int
    BY DEF Marked
  <2>2. CASE x = e
    <3>1. Is(e, x) = 1
      BY <2>2 DEF Is
    <3>2. P!Release(objs, e)[x] = [objs[x] EXCEPT !.rc = @ - 1]
      BY <2>2 DEF P!Release
    <3> QED
      BY <2>1, <3>1, <3>2 DEF Marked
  <2>3. CASE x # e
    BY <2>1, <2>3 DEF P!Release, Is
  <2> QED
    BY <2>2, <2>3
<1> QED
  BY <1>1, <1>2

\* dqht_insert adds a reference of the entry and drops that of the one it
\* overrides, if the insertion returns.
LEMMA InsertIn ==
    ASSUME NEW t \in Seq(Entries), KeysOnce(t), NEW e \in Entries, ~ListInsertHangs(t, KeyOf(e)),
           NEW objs \in [Entries -> Marked]
    PROVE  /\ KeysOnce(ListInsert(t, e)) /\ e \in ToSet(ListInsert(t, e))
           /\ P!Overridden(objs, t, KeyOf(e)) \in [Entries -> Marked]
           /\ \A x \in Entries :
                P!Overridden(objs, t, KeyOf(e))[x].rc - In(ListInsert(t, e), x)
                  = objs[x].rc - In(t, x) - Is(e, x)
<1> DEFINE k == KeyOf(e)
           o == P!Overridden(objs, t, k)
           u == ListInsert(t, e)
<1>1. CASE ~ListHolds(t, k)
  <2>1. u = Append(t, e) /\ o = objs
    BY <1>1 DEF ListInsert, P!Overridden
  <2>2. KeysOnce(u) /\ ToSet(u) = ToSet(t) \cup {e}
    BY <1>1, <2>1, AppendIs
  <2>3. e \notin ToSet(t)
    BY <1>1, HoldsIs
  <2> HIDE DEF u, o
  <2>4. \A x \in Entries : In(u, x) = In(t, x) + Is(e, x)
    BY <2>2, <2>3 DEF In, Is
  <2>5. \A x \in Entries : objs[x].rc \in Int
    BY DEF Marked
  <2>6. ASSUME NEW x \in Entries PROVE o[x].rc - In(u, x) = objs[x].rc - In(t, x) - Is(e, x)
    BY <2>1, <2>4, <2>5, OneOrNone
  <2> QED
    BY <2>1, <2>2, <2>6 DEF u, o
<1>2. CASE ListHolds(t, k)
  <2> DEFINE f == ListAt(t, k)
  <2>1. ListPos(t, k) = Len(t) /\ Len(t) \in DOMAIN t /\ f = t[Len(t)] /\ f \in Entries
    BY <1>2, AtType DEF ListInsertHangs, ListAt
  <2>2. u = [t EXCEPT ![Len(t)] = e] /\ o = P!Release(objs, f)
    BY <1>2 DEF ListInsert, P!Overridden
  <2>3. KeyOf(t[Len(t)]) = k
    BY <1>2, <2>1, HoldsIs
  <2>4. /\ DOMAIN u = DOMAIN t /\ u[Len(t)] = e
        /\ \A i \in DOMAIN t : i # Len(t) => u[i] = t[i]
    BY <2>1, <2>2
  <2>5. \A i \in DOMAIN t : KeyOf(u[i]) = KeyOf(t[i])
    BY <2>3, <2>4
  <2> HIDE DEF u, o, f
  <2>6. KeysOnce(u)
    BY <2>4, <2>5 DEF KeysOnce
  <2>7. ToSet(u) = (ToSet(t) \ {f}) \cup {e}
    <3>1. \A i \in DOMAIN t : i # Len(t) => t[i] # f
      BY <2>1 DEF KeysOnce
    <3>2. ASSUME NEW x \in ToSet(u) PROVE x \in (ToSet(t) \ {f}) \cup {e}
      <4>1. PICK i \in DOMAIN t : u[i] = x
        BY <2>4 DEF ToSet
      <4> QED
        BY <2>4, <3>1, <4>1 DEF ToSet
    <3>3. e \in ToSet(u)
      BY <2>1, <2>4 DEF ToSet
    <3>4. ASSUME NEW x \in ToSet(t), x # f PROVE x \in ToSet(u)
      <4>1. PICK i \in DOMAIN t : t[i] = x
        BY DEF ToSet
      <4>2. u[i] = x
        BY <2>1, <2>4, <3>4, <4>1
      <4> QED
        BY <2>4, <4>1, <4>2 DEF ToSet
    <3> QED
      BY <3>2, <3>3, <3>4
  <2>8. f \in ToSet(t)
    BY <2>1 DEF ToSet
  <2>9. \A x \in ToSet(t) : x = e => x = f
    BY <1>2, HoldsIs DEF f
  <2>10. \A x \in Entries : In(u, x) = In(t, x) - Is(f, x) + Is(e, x)
    BY <2>7, <2>8, <2>9 DEF In, Is
  <2>11. o \in [Entries -> Marked] /\ \A x \in Entries : o[x].rc = objs[x].rc - Is(f, x)
    BY <2>1, <2>2, ReleaseIn
  <2>12. \A x \in Entries : objs[x].rc \in Int
    BY DEF Marked
  <2>13. ASSUME NEW x \in Entries PROVE o[x].rc - In(u, x) = objs[x].rc - In(t, x) - Is(e, x)
    <3>1. /\ In(t, x) \in 0 .. 1 /\ Is(e, x) \in 0 .. 1 /\ Is(f, x) \in 0 .. 1
          /\ objs[x].rc \in Int
      BY <2>12, OneOrNone
    <3>2. In(u, x) = In(t, x) - Is(f, x) + Is(e, x) /\ o[x].rc = objs[x].rc - Is(f, x)
      BY <2>10, <2>11
    <3> QED
      BY <3>1, <3>2
  <2>14. e \in ToSet(u)
    BY <2>7
  <2> QED
    BY <2>6, <2>11, <2>13, <2>14 DEF u, o
<1> QED
  BY <1>1, <1>2

LEMMA RefTypes ==
    ASSUME IInv
    PROVE  /\ stack \in Seq(Entries) /\ index \in Seq(Entries)
           /\ resident \in Seq(Entries)
           /\ entry \in [Entries -> Objects] /\ entry \in [Entries -> Marked]
           /\ \A x \in Entries : entry[x].rc \in Int
           /\ evicted \in Entries \cup {NULL} /\ call \in Calls
           /\ \A x \in Entries : Is(NULL, x) = 0
<1>1. /\ stack \in Seq(Entries) /\ index \in Seq(Entries)
      /\ resident \in Seq(Entries) /\ entry \in [Entries -> Objects]
      /\ evicted \in Entries \cup {NULL} /\ call \in Calls
  BY DEF IInv, ListTypeOK
<1>2. entry \in [Entries -> Marked]
  BY <1>1, ObjectsMarked
<1>3. \A x \in Entries : entry[x].rc \in Int
  BY <1>2 DEF Marked
<1>4. \A x \in Entries : Is(NULL, x) = 0
  BY NullAssumption DEF Is, Entries
<1> QED
  BY <1>1, <1>2, <1>3, <1>4

\* Steps that touch no table and no object.
LEMMA RefKept ==
    ASSUME RefInv, UNCHANGED <<stack, index, resident, entry, evicted>>,
           Promoting <=> Promoting',
           Promoting => call'.entry = call.entry /\ call'.key = call.key
    PROVE  RefInv'
BY DEF RefInv, Owed, Carries

\* A step keeps the inequality if it adds to the counter no more than to the
\* references.
LEMMA TermTypes ==
    ASSUME IInv, NEW x \in Entries
    PROVE  /\ entry[x].rc \in Int /\ Carries(x) \in Int /\ Is(evicted, x) \in Int
           /\ In(stack, x) \in Int /\ In(index, x) \in Int /\ In(resident, x) \in Int
<1>1. entry[x].rc \in Int
  BY RefTypes
<1>2. Carries(x) \in Int
  BY OneOrNone DEF Carries
<1> QED
  BY <1>1, <1>2, OneOrNone

LEMMA RefSum ==
    ASSUME IInv, RefInv, NEW x \in Entries, entry'[x].rc \in Int,
           entry'[x].rc - entry[x].rc
             <= (In(stack', x) - In(stack, x))
                  + (In(index', x) - In(index, x))
                  + (In(resident', x) - In(resident, x))
                  + (Is(evicted', x) - Is(evicted, x)) + (Carries(x)' - Carries(x))
    PROVE  entry'[x].rc <= Owed(x)'
<1>1. /\ entry[x].rc \in Int /\ Carries(x) \in Int /\ Is(evicted, x) \in Int
      /\ In(stack, x) \in Int /\ In(index, x) \in Int /\ In(resident, x) \in Int
  BY TermTypes
<1>2. /\ Carries(x)' \in Int /\ Is(evicted', x) \in Int
      /\ In(stack', x) \in Int /\ In(index', x) \in Int /\ In(resident', x) \in Int
  BY OneOrNone DEF Carries
<1>3. entry[x].rc <= In(stack, x) + In(index, x) + In(resident, x)
                     + Is(evicted, x) + Carries(x)
  BY DEF RefInv, Owed
<1>4. Owed(x)' = In(stack', x) + In(index', x) + In(resident', x)
                 + Is(evicted', x) + Carries(x)'
  BY DEF Owed
<1> QED
  BY <1>1, <1>2, <1>3, <1>4

\* dlirs_hit_lir moves an entry within the stack.
LEMMA HitLirRef ==
    ASSUME IInv, RefInv, pc = "idle", NEW k \in Keys, ListHolds(stack, k), P!HitLir(k)
    PROVE  RefInv'
<1> DEFINE w == ListWithout(stack, k)
           e == ListAt(stack, k)
<1>1. stack \in Seq(Entries) /\ KeysOnce(stack)
  BY RefTypes DEF RefInv
<1>2. /\ KeysOnce(w) /\ w \in Seq(Entries) /\ ToSet(w) = ToSet(stack) \ {e} /\ ~ListHolds(w, k)
      /\ e \in ToSet(stack) /\ e \in Entries /\ KeyOf(e) = k
  BY <1>1, WithoutIs, WithoutType, HoldsIs, AtType
<1>3. stack' = Append(w, e) /\ UNCHANGED <<index, resident, entry, evicted>>
  BY <1>2 DEF P!HitLir, ListInsert, P!Overridden
<1>4. KeysOnce(stack') /\ ToSet(stack') = ToSet(stack)
  <2> HIDE DEF w, e
  <2>1. KeysOnce(Append(w, e)) /\ ToSet(Append(w, e)) = ToSet(w) \cup {e}
    BY <1>2, AppendIs
  <2> QED
    BY <1>2, <1>3, <2>1
<1>5. \A x : In(stack', x) = In(stack, x)
  BY <1>4 DEF In
<1>6. ~Promoting /\ ~Promoting'
  BY DEF P!HitLir, Promoting, P!Begin, P!NoCall
<1> QED
  BY <1>3, <1>4, <1>5, <1>6 DEF RefInv, Owed, Carries

\* dlirs_hir_in_lirs keeps the reference of the stack and releases the others.
LEMMA HirInLirsRef ==
    ASSUME IInv, RefInv, pc = "idle", NEW k \in Keys, ListHolds(stack, k),
           P!HirInLirsFault(k) = "none", P!HirInLirs(k)
    PROVE  RefInv'
<1> DEFINE e == ListAt(stack, k)
           h == ListAt(index, k)
           r == ListAt(resident, k)
           marked == [entry EXCEPT ![e].is_LIR = TRUE]
<1>1. /\ stack \in Seq(Entries) /\ index \in Seq(Entries)
      /\ resident \in Seq(Entries) /\ entry \in [Entries -> Marked]
      /\ KeysOnce(stack) /\ KeysOnce(index) /\ KeysOnce(resident)
  BY RefTypes DEF RefInv
<1>2. e \in Entries /\ KeyOf(e) = k
  BY <1>1, HoldsIs, AtType
<1>3. ListHolds(index, k) /\ h \in Entries
  BY <1>1, AtType DEF P!HirInLirsFault
<1>4. /\ stack' = ListWithout(stack, k) /\ index' = ListWithout(index, k)
      /\ evicted' = evicted /\ pc' = "eject_lir" /\ call'.entry = e /\ call'.key = k
  BY DEF P!HirInLirs, P!Begin, P!NoCall
<1>5. /\ KeysOnce(stack') /\ KeysOnce(index')
      /\ \A x : In(stack', x) = In(stack, x) - Is(e, x)
      /\ \A x : In(index', x) = In(index, x) - Is(h, x)
  BY <1>1, <1>3, <1>4, RemoveIn
<1>6. marked \in [Entries -> Marked] /\ \A x \in Entries : marked[x].rc = entry[x].rc
  BY <1>1, <1>2 DEF Marked
<1>7. /\ P!Unstacked(k) \in [Entries -> Marked]
      /\ \A x \in Entries : P!Unstacked(k)[x].rc = entry[x].rc - Is(h, x)
  <2> HIDE DEF marked, h
  <2>1. P!Unstacked(k) = P!Release(marked, h)
    BY DEF P!Unstacked, marked, h
  <2>2. h \in Entries
    BY <1>3
  <2>3. /\ P!Release(marked, h) \in [Entries -> Marked]
        /\ \A x \in Entries : P!Release(marked, h)[x].rc = marked[x].rc - Is(h, x)
    BY <1>6, <2>2, ReleaseIn, Zenon
  <2> QED
    BY <1>6, <2>1, <2>3, Zenon
<1>8. ~Promoting /\ Promoting'
  BY <1>4 DEF Promoting
<1>9. ASSUME NEW x \in Entries
      PROVE  /\ Is(evicted', x) = Is(evicted, x) /\ Carries(x) = 0 /\ Carries(x)' = Is(e, x)
             /\ In(stack', x) = In(stack, x) - Is(e, x)
             /\ In(index', x) = In(index, x) - Is(h, x)
             /\ Is(e, x) \in Int /\ Is(h, x) \in Int /\ Is(evicted, x) \in Int
             /\ entry[x].rc \in Int /\ In(stack, x) \in Int /\ In(index, x) \in Int
             /\ In(resident, x) \in Int
  <2> HIDE DEF e, h
  <2> QED
    BY <1>4, <1>5, <1>8, TermTypes, OneOrNone DEF Carries
<1>10. CASE entry[e].in_cache
  <2>1. ListHolds(resident, k) /\ r \in Entries
    BY <1>1, <1>10, AtType DEF P!HirInLirsFault
  <2>2. entry' = P!Release(P!Unstacked(k), r) /\ resident' = ListWithout(resident, k)
    BY <1>10 DEF P!HirInLirs
  <2>3. KeysOnce(resident') /\ \A x : In(resident', x) = In(resident, x) - Is(r, x)
    BY <1>1, <2>1, <2>2, RemoveIn
  <2>4. \A x \in Entries : entry'[x].rc = P!Unstacked(k)[x].rc - Is(r, x)
    BY <1>7, <2>1, <2>2, ReleaseIn
  <2>5. ASSUME NEW x \in Entries PROVE entry'[x].rc <= Owed(x)'
    <3> HIDE DEF e, h, r
    <3>1. Is(r, x) \in Int
      BY OneOrNone
    <3>2. In(resident', x) = In(resident, x) - Is(r, x)
      BY <2>3
    <3>3. entry'[x].rc = entry[x].rc - Is(h, x) - Is(r, x)
      BY <1>7, <2>4
    <3> QED
      BY <1>9, <3>1, <3>2, <3>3, RefSum
  <2> QED
    BY <1>2, <1>4, <1>5, <2>3, <2>5 DEF RefInv
<1>11. CASE ~entry[e].in_cache
  <2>1. entry' = [P!Unstacked(k) EXCEPT ![e].in_cache = TRUE] /\ resident' = resident
    BY <1>11 DEF P!HirInLirs
  <2>2. \A x \in Entries : entry'[x].rc = P!Unstacked(k)[x].rc
    BY <1>2, <1>7, <2>1 DEF Marked
  <2>3. ASSUME NEW x \in Entries PROVE entry'[x].rc <= Owed(x)'
    <3> HIDE DEF e, h
    <3>1. In(resident', x) = In(resident, x)
      BY <2>1
    <3>2. entry'[x].rc = entry[x].rc - Is(h, x)
      BY <1>7, <2>2
    <3> QED
      BY <1>9, <3>1, <3>2, RefSum
  <2> QED
    BY <1>1, <1>2, <1>4, <1>5, <2>1, <2>3 DEF RefInv
<1> QED
  BY <1>10, <1>11

\* dlirs_hit_hir_in_resident_hirs takes two references for three insertions, of
\* which that into resident_hirs overrides the entry by itself.
LEMMA HitHirRef ==
    ASSUME IInv, RefInv, pc = "idle", NEW k \in Keys, ~ListHolds(stack, k), ListHolds(resident, k),
           P!InsertFault(entry, resident, k) = "none",
           P!InsertFault(entry, index, k) = "none", P!HitHirInResidentHirs(k)
    PROVE  RefInv'
<1> DEFINE e == ListAt(resident, k)
           copied == [entry EXCEPT ![e] = P!Copied(entry[e])]
           once == P!Overridden(copied, resident, k)
<1>1. /\ stack \in Seq(Entries) /\ index \in Seq(Entries)
      /\ resident \in Seq(Entries) /\ entry \in [Entries -> Marked]
      /\ KeysOnce(stack) /\ KeysOnce(index) /\ KeysOnce(resident)
  BY RefTypes DEF RefInv
<1>2. e \in Entries /\ KeyOf(e) = k
  BY <1>1, AtType
<1>3. ~ListInsertHangs(resident, k) /\ ~ListInsertHangs(index, k)
  BY DEF P!InsertFault
<1>4. /\ copied \in [Entries -> Marked]
      /\ \A x \in Entries : copied[x].rc = entry[x].rc + 2 * Is(e, x)
  <2>1. entry[e] \in Marked
    BY <1>1, <1>2
  <2>2. P!Copied(entry[e]) \in Marked /\ P!Copied(entry[e]).rc = entry[e].rc + 2
    <3>1. P!Copied(entry[e]) \in Marked
      BY <2>1, CopiedFlags
    <3> QED
      BY <2>1, <3>1 DEF P!Copied, Marked
  <2> HIDE DEF e
  <2>3. \A x \in Entries : entry[x].rc \in Int
    BY RefTypes
  <2> QED
    BY <1>1, <1>2, <2>2, <2>3 DEF Is
<1> HIDE DEF copied
<1>5. /\ KeysOnce(ListInsert(resident, e)) /\ once \in [Entries -> Marked]
      /\ \A x \in Entries : once[x].rc - In(ListInsert(resident, e), x)
                              = copied[x].rc - In(resident, x) - Is(e, x)
  BY <1>1, <1>2, <1>3, <1>4, InsertIn
<1> HIDE DEF once
<1>6. /\ KeysOnce(ListInsert(index, e))
      /\ P!Overridden(once, index, k) \in [Entries -> Marked]
      /\ \A x \in Entries :
           P!Overridden(once, index, k)[x].rc - In(ListInsert(index, e), x)
             = once[x].rc - In(index, x) - Is(e, x)
  BY <1>1, <1>2, <1>3, <1>5, InsertIn
<1>7. stack' = Append(stack, e)
  BY <1>2 DEF P!HitHirInResidentHirs, ListInsert
<1>8. KeysOnce(stack') /\ \A x : In(stack', x) = In(stack, x) + Is(e, x)
  <2>1. KeysOnce(stack') /\ ToSet(stack') = ToSet(stack) \cup {e}
    BY <1>1, <1>2, <1>7, AppendIs
  <2>2. e \notin ToSet(stack)
    BY <1>1, <1>2, HoldsIs
  <2> QED
    BY <2>1, <2>2 DEF In, Is
<1>9. /\ entry' = P!Overridden(once, index, k)
      /\ resident' = ListInsert(resident, e)
      /\ index' = ListInsert(index, e)
      /\ evicted' = evicted /\ pc' = "limit"
  BY DEF P!HitHirInResidentHirs, once, copied
<1>10. ~Promoting /\ ~Promoting'
  BY <1>9 DEF Promoting
<1> HIDE DEF e
<1>11. ASSUME NEW x \in Entries PROVE entry'[x].rc <= Owed(x)'
  <2>1. Is(e, x) \in 0 .. 1 /\ Carries(x) = 0 /\ Carries(x)' = 0 /\ Is(evicted', x) = Is(evicted, x)
    BY <1>9, <1>10, OneOrNone DEF Carries
  <2>2. once[x].rc \in Int /\ entry'[x].rc \in Int
    BY <1>5, <1>6, <1>9 DEF Marked
  <2>3. /\ In(resident', x) \in Int /\ In(index', x) \in Int
    BY OneOrNone
  <2>4. /\ once[x].rc - In(resident', x)
             = (entry[x].rc + 2 * Is(e, x)) - In(resident, x) - Is(e, x)
        /\ entry'[x].rc - In(index', x)
             = once[x].rc - In(index, x) - Is(e, x)
        /\ In(stack', x) = In(stack, x) + Is(e, x)
    BY <1>4, <1>5, <1>6, <1>8, <1>9
  <2>5. /\ entry[x].rc \in Int /\ Is(evicted, x) \in Int
        /\ In(stack, x) \in Int /\ In(index, x) \in Int /\ In(resident, x) \in Int
    BY TermTypes
  <2> QED
    BY <2>1, <2>2, <2>3, <2>4, <2>5, RefSum
<1> QED
  BY <1>5, <1>6, <1>8, <1>9, <1>10, <1>11 DEF RefInv

\* dlirs_prune releases one reference for each table it removes the entry from.
LEMMA PruneFrontRef ==
    ASSUME IInv, RefInv, pc = "prune", stack # << >>, P!PruneFront
    PROVE  RefInv'
<1> DEFINE e == Head(stack)
           k == KeyOf(e)
           h == ListAt(index, k)
           once == P!Release(entry, e)
<1>1. /\ stack \in Seq(Entries) /\ index \in Seq(Entries)
      /\ entry \in [Entries -> Marked]
      /\ KeysOnce(stack) /\ KeysOnce(index) /\ KeysOnce(resident)
  BY RefTypes DEF RefInv
<1>0. /\ ListAt(stack, k) = e /\ Tail(stack) = ListWithout(stack, k) /\ Popped(stack)
  BY <1>1, TailIs, TailIn
<1>2. /\ stack' = Tail(stack) /\ index' = P!Forgotten(k)
      /\ entry' = IF ListHolds(index, k) THEN P!Release(once, h) ELSE once
      /\ UNCHANGED <<resident, evicted, call, pc>>
  BY <1>0 DEF P!PruneFront
<1>3. KeysOnce(stack') /\ e \in Entries /\ \A x : In(stack', x) = In(stack, x) - Is(e, x)
  BY <1>0, <1>2 DEF Popped
<1>4. once \in [Entries -> Marked] /\ \A x \in Entries : once[x].rc = entry[x].rc - Is(e, x)
  BY <1>1, <1>3, ReleaseIn
<1> HIDE DEF once, e, k
<1>5. /\ KeysOnce(index')
      /\ \A x \in Entries : /\ entry'[x].rc \in Int /\ In(index', x) \in Int
                            /\ entry'[x].rc - In(index', x)
                                 = once[x].rc - In(index, x)
  <2>0. \A x \in Entries : once[x].rc \in Int
    BY <1>4 DEF Marked
  <2>1. CASE ListHolds(index, k)
    <3>1. index' = ListWithout(index, k) /\ entry' = P!Release(once, h)
      BY <1>2, <2>1 DEF P!Forgotten
    <3>2. h \in Entries
      BY <1>1, <2>1, AtType
    <3> HIDE DEF h
    <3>3. KeysOnce(index')
          /\ \A x : In(index', x) = In(index, x) - Is(h, x)
      BY <1>1, <2>1, <3>1, RemoveIn DEF h
    <3>4. \A x \in Entries : entry'[x].rc = once[x].rc - Is(h, x)
      BY <1>4, <3>1, <3>2, ReleaseIn
    <3> QED
      BY <2>0, <3>3, <3>4, OneOrNone
  <2>2. CASE ~ListHolds(index, k)
    <3>1. index' = index /\ entry' = once
      BY <1>2, <2>2 DEF P!Forgotten
    <3>2. KeysOnce(index')
      BY <1>1, <3>1
    <3>3. \A x : In(index, x) \in Int
      BY OneOrNone
    <3> QED
      BY <2>0, <3>1, <3>2, <3>3
  <2> QED
    BY <2>1, <2>2
<1>6. ASSUME NEW x \in Entries PROVE entry'[x].rc <= Owed(x)'
  <2>1. Carries(x)' = Carries(x)
    BY <1>2 DEF Carries, Promoting
  <2>2. /\ entry'[x].rc \in Int /\ In(index', x) \in Int
        /\ entry'[x].rc - In(index', x)
             = entry[x].rc - Is(e, x) - In(index, x)
        /\ In(stack', x) = In(stack, x) - Is(e, x) /\ Is(e, x) \in Int
    BY <1>3, <1>4, <1>5, OneOrNone
  <2>3. /\ entry[x].rc \in Int /\ Carries(x) \in Int /\ Is(evicted, x) \in Int
        /\ In(stack, x) \in Int /\ In(index, x) \in Int /\ In(resident, x) \in Int
    BY TermTypes
  <2>4. In(resident', x) = In(resident, x) /\ Is(evicted', x) = Is(evicted, x)
    BY <1>2
  <2>7. In(stack', x) \in Int /\ In(index', x) \in Int
    BY OneOrNone
  <2>5. entry'[x].rc - entry[x].rc
          = (In(stack', x) - In(stack, x)) + (In(index', x) - In(index, x))
    <3> DEFINE rc == entry[x].rc
               rc2 == entry'[x].rc
               n == In(index, x)
               n2 == In(index', x)
               l == In(stack, x)
               l2 == In(stack', x)
               z == Is(e, x)
    <3>1. /\ rc \in Int /\ rc2 \in Int /\ n \in Int /\ n2 \in Int /\ l \in Int /\ l2 \in Int /\ z \in Int
          /\ rc2 - n2 = rc - z - n /\ l2 = l - z
      BY <2>2, <2>3, <2>7
    <3> HIDE DEF rc, rc2, n, n2, l, l2, z
    <3>2. rc2 - rc = (l2 - l) + (n2 - n)
      BY <3>1
    <3> QED
      BY <3>2 DEF rc, rc2, n, n2, l, l2
  <2>6. /\ In(resident', x) - In(resident, x) = 0
        /\ Is(evicted', x) - Is(evicted, x) = 0 /\ Carries(x)' - Carries(x) = 0
    BY <2>1, <2>3, <2>4
  <2> QED
    BY <2>2, <2>3, <2>5, <2>6, <2>7, RefSum
<1>7. Promoting' <=> Promoting
  BY <1>2 DEF Promoting
<1> QED
  BY <1>1, <1>2, <1>3, <1>5, <1>6, <1>7 DEF RefInv

\* dlirs_evict_lir moves the reference of the stack to resident_hirs.
LEMMA DemoteRef ==
    ASSUME IInv, RefInv, pc \in {"eject_lir", "request"}, Popped(stack),
           P!InsertFault(entry, resident, KeyOf(Head(stack))) = "none", P!DemoteFront(pc)
    PROVE  RefInv'
<1> DEFINE e == Head(stack)
           k == KeyOf(e)
           marked == [entry EXCEPT ![e] = P!Demoted(entry[e])]
<1>1. /\ stack \in Seq(Entries) /\ resident \in Seq(Entries)
      /\ entry \in [Entries -> Marked]
      /\ KeysOnce(stack) /\ KeysOnce(index) /\ KeysOnce(resident)
      /\ call \in Calls
  BY RefTypes DEF RefInv
<1>2. /\ stack' = Tail(stack) /\ resident' = ListInsert(resident, e)
      /\ entry' = P!Overridden(marked, resident, k)
      /\ UNCHANGED <<index, evicted>>
      /\ call' = [call EXCEPT !.back = pc] /\ pc' = "prune"
  BY DEF P!DemoteFront
<1>3. KeysOnce(stack') /\ e \in Entries /\ \A x : In(stack', x) = In(stack, x) - Is(e, x)
  BY <1>2 DEF Popped
<1>4. marked \in [Entries -> Marked] /\ \A x \in Entries : marked[x].rc = entry[x].rc
  <2>1. entry[e] \in Marked
    BY <1>1, <1>3
  <2>2. P!Demoted(entry[e]) \in Marked /\ P!Demoted(entry[e]).rc = entry[e].rc
    BY <2>1 DEF P!Demoted, Marked
  <2> HIDE DEF e
  <2> QED
    BY <1>1, <1>3, <2>2
<1> HIDE DEF marked
<1>5. ~ListInsertHangs(resident, k)
  BY DEF P!InsertFault
<1>6. /\ KeysOnce(resident') /\ entry' \in [Entries -> Marked]
      /\ \A x \in Entries : entry'[x].rc - In(resident', x)
                              = marked[x].rc - In(resident, x) - Is(e, x)
  BY <1>1, <1>2, <1>3, <1>4, <1>5, InsertIn
<1>7. call'.entry = call.entry /\ call'.key = call.key /\ call'.back = pc
  BY <1>1, <1>2 DEF Calls
<1>8. Promoting' <=> Promoting
  BY <1>2, <1>7 DEF Promoting
<1> HIDE DEF e
<1>9. ASSUME NEW x \in Entries PROVE entry'[x].rc <= Owed(x)'
  <2>1. Carries(x)' = Carries(x)
    BY <1>7, <1>8 DEF Carries
  <2>2. entry'[x].rc \in Int /\ In(resident', x) \in Int /\ Is(e, x) \in Int
    BY <1>6, OneOrNone DEF Marked
  <2>3. /\ entry'[x].rc - In(resident', x) = entry[x].rc - In(resident, x) - Is(e, x)
        /\ In(stack', x) = In(stack, x) - Is(e, x)
        /\ In(index', x) = In(index, x)
        /\ Is(evicted', x) = Is(evicted, x)
    BY <1>2, <1>3, <1>4, <1>6
  <2>4. /\ entry[x].rc \in Int /\ Carries(x) \in Int /\ Is(evicted, x) \in Int
        /\ In(stack, x) \in Int /\ In(index, x) \in Int /\ In(resident, x) \in Int
    BY TermTypes
  <2> QED
    BY <2>1, <2>2, <2>3, <2>4, RefSum
<1> QED
  BY <1>1, <1>2, <1>3, <1>6, <1>7, <1>8, <1>9 DEF RefInv

\* dlirs_evict_resident_hir hands the reference of resident_hirs to the client.
LEMMA TakeFrontRef ==
    ASSUME IInv, RefInv, evicted = NULL, Popped(resident), P!TakeFront
    PROVE  RefInv'
<1> DEFINE e == Head(resident)
           o == P!Evicted(entry[e], ListHolds(stack, KeyOf(e)))
<1>1. /\ entry \in [Entries -> Marked]
      /\ KeysOnce(stack) /\ KeysOnce(index)
  BY RefTypes DEF RefInv
<1>2. /\ resident' = Tail(resident) /\ entry' = [entry EXCEPT ![e] = o]
      /\ evicted' = e /\ UNCHANGED <<stack, index, call, pc>>
  BY DEF P!TakeFront
<1>3. KeysOnce(resident') /\ e \in Entries
      /\ \A x : In(resident', x) = In(resident, x) - Is(e, x)
  BY <1>2 DEF Popped
<1>4. \A x \in Entries : entry'[x].rc = entry[x].rc
  <2>1. entry[e] \in Marked
    BY <1>1, <1>3
  <2>2. o.rc = entry[e].rc
    BY <2>1 DEF P!Evicted, Marked
  <2> HIDE DEF e, o
  <2> QED
    BY <1>1, <1>2, <1>3, <2>2
<1> HIDE DEF e
<1>5. Promoting' <=> Promoting
  BY <1>2 DEF Promoting
<1>6. ASSUME NEW x \in Entries PROVE entry'[x].rc <= Owed(x)'
  <2>1. Carries(x)' = Carries(x)
    BY <1>2, <1>5 DEF Carries
  <2>2. Is(evicted, x) = 0 /\ Is(evicted', x) = Is(e, x) /\ Is(e, x) \in Int
    <3>1. Is(NULL, x) = 0
      BY RefTypes
    <3> QED
      BY <1>2, <3>1, OneOrNone
  <2>3. /\ In(resident', x) = In(resident, x) - Is(e, x)
        /\ In(stack', x) = In(stack, x)
        /\ In(index', x) = In(index, x) /\ entry'[x].rc = entry[x].rc
    BY <1>2, <1>3, <1>4
  <2>4. /\ entry[x].rc \in Int /\ Carries(x) \in Int
        /\ In(stack, x) \in Int /\ In(index, x) \in Int /\ In(resident, x) \in Int
    BY TermTypes
  <2> QED
    BY <2>1, <2>2, <2>3, <2>4, RefSum
<1> QED
  BY <1>1, <1>2, <1>3, <1>5, <1>6 DEF RefInv

\* The end of dlirs_hir_in_lirs: the entry goes back into the stack.
LEMMA ReinsertRef ==
    ASSUME IInv, RefInv, pc = "eject_hir", P!InsertFault(entry, stack, call.key) = "none", P!Reinsert
    PROVE  RefInv'
<1> DEFINE e == call.entry
<1>1. /\ stack \in Seq(Entries) /\ entry \in [Entries -> Marked]
      /\ KeysOnce(stack) /\ KeysOnce(index) /\ KeysOnce(resident)
  BY RefTypes DEF RefInv
<1>2. Promoting /\ e \in Entries /\ KeyOf(e) = call.key
  BY DEF Promoting, IInv, CallOK, RefInv
<1>3. ~ListInsertHangs(stack, KeyOf(e))
  BY <1>2 DEF P!InsertFault
<1>4. /\ entry' = P!Overridden(entry, stack, KeyOf(e)) /\ stack' = ListInsert(stack, e) /\ pc' = "ret"
      /\ UNCHANGED <<index, resident, evicted>>
  BY <1>2 DEF P!Reinsert
<1>5. /\ KeysOnce(stack') /\ entry' \in [Entries -> Marked]
      /\ \A x \in Entries : entry'[x].rc - In(stack', x) = entry[x].rc - In(stack, x) - Is(e, x)
  <2> HIDE DEF e
  <2> QED
    BY <1>1, <1>2, <1>3, <1>4, InsertIn
<1>6. ~Promoting'
  BY <1>4 DEF Promoting
<1>7. ASSUME NEW x \in Entries PROVE entry'[x].rc <= Owed(x)'
  <2>1. Carries(x) = Is(e, x) /\ Carries(x)' = 0
    BY <1>2, <1>6 DEF Carries
  <2>2. entry'[x].rc \in Int /\ In(stack', x) \in Int /\ Is(e, x) \in Int
    BY <1>5, OneOrNone DEF Marked
  <2>3. /\ entry'[x].rc - In(stack', x) = entry[x].rc - In(stack, x) - Is(e, x)
        /\ In(index', x) = In(index, x)
        /\ In(resident', x) = In(resident, x)
        /\ Is(evicted', x) = Is(evicted, x)
    BY <1>4, <1>5
  <2>4. /\ entry[x].rc \in Int /\ Is(evicted, x) \in Int
        /\ In(stack, x) \in Int /\ In(index, x) \in Int /\ In(resident, x) \in Int
    BY TermTypes
  <2> HIDE DEF e
  <2> QED
    BY <2>1, <2>2, <2>3, <2>4, RefSum
<1> QED
  BY <1>1, <1>4, <1>5, <1>6, <1>7 DEF RefInv

\* dlirs_limit_stack
LEMMA DropOldestRef ==
    ASSUME IInv, RefInv, pc = "limit", Popped(index),
           ListHolds(stack, KeyOf(Head(index))), P!DropOldest
    PROVE  RefInv'
<1> DEFINE e == Head(index)
           k == KeyOf(e)
           s == ListAt(stack, k)
           once == P!Release(entry, s)
<1>1. /\ stack \in Seq(Entries) /\ entry \in [Entries -> Marked]
      /\ KeysOnce(stack) /\ KeysOnce(resident)
  BY RefTypes DEF RefInv
<1>2. /\ index' = Tail(index) /\ stack' = ListWithout(stack, k)
      /\ entry' = P!Release(once, e)
      /\ UNCHANGED <<resident, evicted, pc>>
  BY DEF P!DropOldest
<1>3. KeysOnce(index') /\ e \in Entries
      /\ \A x : In(index', x) = In(index, x) - Is(e, x)
  BY <1>2 DEF Popped
<1> HIDE DEF e
<1>4. ListHolds(stack, k) /\ s \in Entries
  BY <1>1, AtType DEF e
<1> HIDE DEF k
<1>5. KeysOnce(stack') /\ \A x : In(stack', x) = In(stack, x) - Is(s, x)
  BY <1>1, <1>2, <1>4, RemoveIn
<1> HIDE DEF s
<1>6. once \in [Entries -> Marked] /\ \A x \in Entries : once[x].rc = entry[x].rc - Is(s, x)
  BY <1>1, <1>4, ReleaseIn
<1> HIDE DEF once
<1>7. \A x \in Entries : entry'[x].rc = once[x].rc - Is(e, x)
  BY <1>2, <1>3, <1>6, ReleaseIn
<1>8. ~Promoting /\ ~Promoting'
  BY <1>2 DEF Promoting
<1>9. ASSUME NEW x \in Entries PROVE entry'[x].rc <= Owed(x)'
  <2>1. Carries(x) = 0 /\ Carries(x)' = 0
    BY <1>8 DEF Carries
  <2>2. Is(s, x) \in Int /\ Is(e, x) \in Int
    BY OneOrNone
  <2>3. /\ entry'[x].rc = entry[x].rc - Is(s, x) - Is(e, x)
        /\ In(stack', x) = In(stack, x) - Is(s, x)
        /\ In(index', x) = In(index, x) - Is(e, x)
        /\ In(resident', x) = In(resident, x)
        /\ Is(evicted', x) = Is(evicted, x)
    BY <1>2, <1>3, <1>5, <1>6, <1>7
  <2>4. /\ entry[x].rc \in Int /\ Is(evicted, x) \in Int
        /\ In(stack, x) \in Int /\ In(index, x) \in Int /\ In(resident, x) \in Int
    BY TermTypes
  <2> QED
    BY <2>1, <2>2, <2>3, <2>4, RefSum
<1> QED
  BY <1>1, <1>2, <1>3, <1>5, <1>8, <1>9 DEF RefInv

\* A new entry has a reference for each table it is inserted into.
LEMMA NewEntryIs ==
    ASSUME NEW k \in Keys, P!FreeNames(k) # {}
    PROVE  /\ P!NewEntry(k) \in Entries /\ KeyOf(P!NewEntry(k)) = k
           /\ P!NewEntry(k) # evicted
BY DEF P!NewEntry, P!FreeNames, Entries, KeyOf

LEMMA RequestLirRef ==
    ASSUME IInv, RefInv, evicted = NULL, pc = "ask", NEW k \in Keys, P!FreeNames(k) # {},
           P!InsertFault(entry, stack, k) = "none", P!RequestLir(k)
    PROVE  RefInv'
<1> DEFINE e == P!NewEntry(k)
           o == P!Overridden(entry, stack, k)
           c == P!Created(TRUE, 1)
<1>1. /\ stack \in Seq(Entries) /\ entry \in [Entries -> Marked]
      /\ KeysOnce(stack) /\ KeysOnce(index) /\ KeysOnce(resident)
  BY RefTypes DEF RefInv
<1>2. e \in Entries /\ KeyOf(e) = k
  BY NewEntryIs
<1>3. ~ListInsertHangs(stack, k)
  BY DEF P!InsertFault
<1>4. /\ entry' = [o EXCEPT ![e] = c] /\ stack' = ListInsert(stack, e)
      /\ evicted' = NULL /\ pc' = "ret"
      /\ UNCHANGED <<index, resident>>
  BY DEF P!RequestLir
<1> HIDE DEF e
<1>5. /\ KeysOnce(stack') /\ e \in ToSet(stack') /\ o \in [Entries -> Marked]
      /\ \A x \in Entries : o[x].rc - In(stack', x) = entry[x].rc - In(stack, x) - Is(e, x)
  BY <1>1, <1>2, <1>3, <1>4, InsertIn
<1> HIDE DEF o
<1>6. c.rc = 1
  BY DEF P!Created
<1>7. ~Promoting /\ ~Promoting'
  BY <1>4 DEF Promoting
<1> HIDE DEF c
<1>8. ASSUME NEW x \in Entries PROVE entry'[x].rc <= Owed(x)'
  <2>1. /\ Carries(x) = 0 /\ Carries(x)' = 0 /\ Is(evicted, x) = 0 /\ Is(evicted', x) = 0
        /\ In(index', x) = In(index, x)
        /\ In(resident', x) = In(resident, x)
    BY <1>4, <1>7, RefTypes DEF Carries
  <2>2. /\ entry[x].rc \in Int /\ In(stack, x) \in Int /\ In(stack', x) \in Int
        /\ In(index, x) \in 0 .. 1 /\ In(resident, x) \in 0 .. 1
    BY TermTypes, OneOrNone
  <2>3. CASE x = e
    <3>1. entry'[x].rc = 1
      BY <1>2, <1>4, <1>5, <1>6, <2>3
    <3>2. In(stack', x) = 1
      BY <1>5, <2>3 DEF In
    <3>3. Owed(x)' = In(stack', x) + In(index', x) + In(resident', x)
                     + Is(evicted', x) + Carries(x)'
      BY DEF Owed
    <3> QED
      BY <2>1, <2>2, <3>1, <3>2, <3>3
  <2>4. CASE x # e
    <3>1. entry'[x].rc = o[x].rc /\ Is(e, x) = 0 /\ o[x].rc \in Int
      BY <1>4, <1>5, <2>4 DEF Is, Marked
    <3>2. entry'[x].rc - In(stack', x) = entry[x].rc - In(stack, x) - 0
      BY <1>5, <3>1
    <3> QED
      BY <2>1, <2>2, <3>1, <3>2, RefSum
  <2> QED
    BY <2>3, <2>4
<1> QED
  BY <1>1, <1>4, <1>5, <1>7, <1>8 DEF RefInv

LEMMA RequestHirRef ==
    ASSUME IInv, RefInv, pc = "request", NEW k \in Keys, k = call.key, P!FreeNames(k) # {},
           P!RequestHirFault(k) = "none", P!RequestHir(k)
    PROVE  RefInv'
<1> DEFINE e == P!NewEntry(k)
           o == P!Overridden(P!AfterStack(k), resident, k)
           c == P!Created(FALSE, 3)
<1>1. /\ stack \in Seq(Entries) /\ index \in Seq(Entries)
      /\ resident \in Seq(Entries) /\ entry \in [Entries -> Marked]
      /\ KeysOnce(stack) /\ KeysOnce(index) /\ KeysOnce(resident)
  BY RefTypes DEF RefInv
<1>2. e \in Entries /\ KeyOf(e) = k /\ e # evicted
  BY NewEntryIs
<1>3. ~ListInsertHangs(stack, k) /\ ~ListInsertHangs(index, k) /\ ~ListInsertHangs(resident, k)
  BY DEF P!RequestHirFault, P!RequestFault, P!FirstFault, P!InsertFault
<1>4. /\ entry' = [o EXCEPT ![e] = c] /\ stack' = ListInsert(stack, e)
      /\ index' = ListInsert(index, e)
      /\ resident' = ListInsert(resident, e)
      /\ evicted' = evicted /\ pc' = "limit"
  BY DEF P!RequestHir
<1> HIDE DEF e
<1>5. /\ KeysOnce(stack') /\ e \in ToSet(stack') /\ P!AfterLirs(k) \in [Entries -> Marked]
      /\ \A x \in Entries : P!AfterLirs(k)[x].rc - In(stack', x)
                              = entry[x].rc - In(stack, x) - Is(e, x)
  BY <1>1, <1>2, <1>3, <1>4, InsertIn DEF P!AfterLirs
<1>6. /\ KeysOnce(index') /\ e \in ToSet(index')
      /\ P!AfterStack(k) \in [Entries -> Marked]
      /\ \A x \in Entries : P!AfterStack(k)[x].rc - In(index', x)
                              = P!AfterLirs(k)[x].rc - In(index, x) - Is(e, x)
  BY <1>1, <1>2, <1>3, <1>4, <1>5, InsertIn DEF P!AfterStack
<1>7. /\ KeysOnce(resident') /\ e \in ToSet(resident') /\ o \in [Entries -> Marked]
      /\ \A x \in Entries : o[x].rc - In(resident', x)
                              = P!AfterStack(k)[x].rc - In(resident, x) - Is(e, x)
  BY <1>1, <1>2, <1>3, <1>4, <1>6, InsertIn
<1> HIDE DEF o
<1>8. c.rc = 3
  BY DEF P!Created
<1>9. ~Promoting /\ ~Promoting'
  BY <1>4 DEF Promoting
<1> HIDE DEF c
<1>10. ASSUME NEW x \in Entries PROVE entry'[x].rc <= Owed(x)'
  <2>1. Carries(x) = 0 /\ Carries(x)' = 0 /\ Is(evicted', x) = Is(evicted, x)
    BY <1>4, <1>9 DEF Carries
  <2>2. /\ entry[x].rc \in Int /\ In(stack, x) \in Int /\ In(index, x) \in Int
        /\ In(resident, x) \in Int /\ Is(evicted, x) \in 0 .. 1
        /\ In(stack', x) \in Int /\ In(index', x) \in Int /\ In(resident', x) \in Int
    BY TermTypes, OneOrNone
  <2>3. CASE x = e
    <3>1. entry'[x].rc = 3
      BY <1>2, <1>4, <1>7, <1>8, <2>3
    <3>2. In(stack', x) = 1 /\ In(index', x) = 1 /\ In(resident', x) = 1
      BY <1>5, <1>6, <1>7, <2>3 DEF In
    <3>3. Owed(x)' = In(stack', x) + In(index', x) + In(resident', x)
                     + Is(evicted', x) + Carries(x)'
      BY DEF Owed
    <3> QED
      BY <2>1, <2>2, <3>1, <3>2, <3>3
  <2>4. CASE x # e
    <3>1. entry'[x].rc = o[x].rc /\ Is(e, x) = 0
      BY <1>4, <1>7, <2>4 DEF Is
    <3>2. o[x].rc \in Int /\ P!AfterLirs(k)[x].rc \in Int /\ P!AfterStack(k)[x].rc \in Int
      BY <1>5, <1>6, <1>7 DEF Marked
    <3>3. /\ P!AfterLirs(k)[x].rc - In(stack', x) = entry[x].rc - In(stack, x) - 0
          /\ P!AfterStack(k)[x].rc - In(index', x)
               = P!AfterLirs(k)[x].rc - In(index, x) - 0
          /\ entry'[x].rc - In(resident', x)
               = P!AfterStack(k)[x].rc - In(resident, x) - 0
      BY <1>5, <1>6, <1>7, <3>1
    <3> QED
      BY <2>1, <2>2, <3>1, <3>2, <3>3, RefSum
  <2> QED
    BY <2>3, <2>4
<1> QED
  BY <1>4, <1>5, <1>6, <1>7, <1>9, <1>10 DEF RefInv

-----------------------------------------------------------------------------
(* Nothing leaks                                                           *)

LEMMA GetRef ==
    ASSUME IInv, RefInv, NEW k \in Keys, P!Get(k)
    PROVE  ListRunning' => RefInv'
<1>1. pc = "idle"
  BY DEF P!Get
<1>2. \/ pc' \in P!Lost
      \/ ListHolds(stack, k) /\ P!HitLir(k)
      \/ ListHolds(stack, k) /\ P!HirInLirsFault(k) = "none" /\ P!HirInLirs(k)
      \/ /\ ~ListHolds(stack, k) /\ ListHolds(resident, k)
         /\ P!InsertFault(entry, resident, k) = "none"
         /\ P!InsertFault(entry, index, k) = "none" /\ P!HitHirInResidentHirs(k)
      \/ P!GetMiss(k)
  BY GetSteps
<1>3. CASE P!GetMiss(k)
  <2>1. UNCHANGED <<stack, index, resident, entry, evicted>> /\ pc' = "ret"
    BY <1>3 DEF P!GetMiss, P!data, P!tables
  <2>2. ~Promoting /\ ~Promoting'
    BY <1>1, <2>1 DEF Promoting
  <2> QED
    BY <2>1, <2>2, RefKept
<1> QED
  BY <1>1, <1>2, <1>3, HitLirRef, HirInLirsRef, HitHirRef, LostStops

LEMMA PruneRef ==
    ASSUME IInv, RefInv, P!Prune
    PROVE  ListRunning' => RefInv'
<1>1. \/ pc' \in P!Lost
      \/ UNCHANGED <<P!data, call>> /\ pc' = call.back
      \/ stack # << >> /\ P!PruneFront
  BY DEF P!Prune, P!Unless, P!PruneFault, P!Lost
<1>2. CASE UNCHANGED <<P!data, call>> /\ pc' = call.back
  <2>1. call.back \in {"ret", "eject_lir", "request"}
    BY DEF IInv, ListTypeOK, Calls
  <2>2. Promoting <=> Promoting'
    BY <1>2, <2>1 DEF Promoting, P!Prune
  <2>3. UNCHANGED <<stack, index, resident, entry, evicted, call>>
    BY <1>2 DEF P!data, P!tables
  <2> QED
    BY <2>2, <2>3, RefKept
<1>3. CASE stack # << >> /\ P!PruneFront
  BY <1>3, PruneFrontRef DEF P!Prune
<1> QED
  BY <1>1, <1>2, <1>3, LostStops

LEMMA EvictLirRef ==
    ASSUME IInv, RefInv, pc \in {"eject_lir", "request"}, P!EvictLir(pc)
    PROVE  ListRunning' => RefInv'
<1>1. \/ UNCHANGED P!vars
      \/ pc' \in P!Lost
      \/ /\ stack # << >> /\ P!InsertFault(entry, resident, KeyOf(Head(stack))) = "none"
         /\ P!DemoteFront(pc)
  BY InsertFaultType DEF P!EvictLir, P!Unless, P!Lost
<1>2. CASE UNCHANGED P!vars
  <2>1. UNCHANGED <<stack, index, resident, entry, evicted, call, pc>>
    BY <1>2 DEF P!vars, P!data, P!tables
  <2>2. Promoting <=> Promoting'
    BY <2>1 DEF Promoting
  <2> QED
    BY <2>1, <2>2, RefKept
<1>3. CASE /\ stack # << >> /\ P!InsertFault(entry, resident, KeyOf(Head(stack))) = "none"
           /\ P!DemoteFront(pc)
  <2>1. Popped(stack)
    BY <1>3, RefTypes, TailIn DEF RefInv
  <2> QED
    BY <1>3, <2>1, DemoteRef
<1> QED
  BY <1>1, <1>2, <1>3, LostStops

LEMMA EvictHirRef ==
    ASSUME IInv, RefInv, OutInv, pc \in {"eject_hir", "request"}, P!NoRoom, P!EvictResidentHir
    PROVE  ListRunning' => RefInv'
<1>1. evicted = NULL
  BY DEF OutInv
<1>2. \/ pc' \in P!Lost
      \/ evicted' = NULL /\ UNCHANGED <<P!tables, P!limits, P!counters, entry, call, pc>>
      \/ resident # << >> /\ P!TakeFront
  BY DEF P!EvictResidentHir, P!Unless, P!Lost
<1>3. CASE evicted' = NULL /\ UNCHANGED <<P!tables, P!limits, P!counters, entry, call, pc>>
  <2>1. UNCHANGED <<stack, index, resident, entry, evicted, call, pc>>
    BY <1>1, <1>3 DEF P!tables
  <2>2. Promoting <=> Promoting'
    BY <2>1 DEF Promoting
  <2> QED
    BY <2>1, <2>2, RefKept
<1>4. CASE resident # << >> /\ P!TakeFront
  <2>1. Popped(resident)
    BY <1>4, RefTypes, TailIn DEF RefInv
  <2> QED
    BY <1>1, <1>4, <2>1, TakeFrontRef
<1> QED
  BY <1>2, <1>3, <1>4, LostStops

LEMMA EjectRef ==
    ASSUME IInv, RefInv, OutInv, P!EjectLir \/ P!EjectHir
    PROVE  ListRunning' => RefInv'
<1>1. CASE P!EjectLir /\ lirs_count >= lirs_limit
  <2>1. pc = "eject_lir" /\ P!EvictLir(pc)
    BY <1>1 DEF P!EjectLir
  <2> QED
    BY <2>1, EvictLirRef
<1>2. CASE P!EjectLir /\ ~(lirs_count >= lirs_limit)
  <2>1. /\ pc = "eject_lir" /\ pc' = "eject_hir"
        /\ UNCHANGED <<stack, index, resident, entry, evicted, call>>
    BY <1>2 DEF P!EjectLir, P!data, P!tables
  <2>2. Promoting <=> Promoting'
    BY <2>1 DEF Promoting
  <2> QED
    BY <2>1, <2>2, RefKept
<1>3. CASE P!EjectHir /\ P!NoRoom
  BY <1>3, EvictHirRef DEF P!EjectHir
<1>4. CASE P!EjectHir /\ ~P!NoRoom
  <2>1. /\ pc = "eject_hir"
        /\ (P!InsertFault(entry, stack, call.key) = "none" /\ P!Reinsert) \/ pc' \in P!Lost
    BY <1>4, InsertFaultType DEF P!EjectHir, P!Unless
  <2> QED
    BY <2>1, ReinsertRef, LostStops
<1> QED
  BY <1>1, <1>2, <1>3, <1>4

LEMMA LimitStackRef ==
    ASSUME IInv, RefInv, P!LimitStack
    PROVE  ListRunning' => RefInv'
<1>1. \/ pc' \in P!Lost
      \/ pc' = "ret" /\ UNCHANGED <<P!data, call>>
      \/ /\ index # << >> /\ ListHolds(stack, KeyOf(Head(index)))
         /\ P!DropOldest
  BY DEF P!LimitStack, P!Unless, P!DropFault, P!Lost
<1>2. CASE pc' = "ret" /\ UNCHANGED <<P!data, call>>
  <2>1. ~Promoting /\ ~Promoting'
    BY <1>2 DEF Promoting, P!LimitStack
  <2>2. UNCHANGED <<stack, index, resident, entry, evicted>>
    BY <1>2 DEF P!data, P!tables
  <2> QED
    BY <2>1, <2>2, RefKept
<1>3. CASE /\ index # << >> /\ ListHolds(stack, KeyOf(Head(index)))
           /\ P!DropOldest
  <2>1. Popped(index)
    BY <1>3, RefTypes, TailIn DEF RefInv
  <2> QED
    BY <1>3, <2>1, DropOldestRef DEF P!LimitStack
<1> QED
  BY <1>1, <1>2, <1>3, LostStops

LEMMA RequestRef ==
    ASSUME IInv, RefInv, OutInv, NEW k \in Keys, P!Request(k)
    PROVE  ListRunning' => RefInv'
<1>1. pc = "ask" /\ evicted = NULL
  BY DEF P!Request, OutInv, P!Lost
<1>2. \/ pc' \in P!Lost
      \/ pc' = "request" /\ UNCHANGED P!data
      \/ P!InsertFault(entry, stack, k) = "none" /\ P!FreeNames(k) # {} /\ P!RequestLir(k)
  BY RequestSteps
<1>3. CASE pc' = "request" /\ UNCHANGED P!data
  <2>1. ~Promoting /\ ~Promoting'
    BY <1>1, <1>3 DEF Promoting
  <2>2. UNCHANGED <<stack, index, resident, entry, evicted>>
    BY <1>3 DEF P!data, P!tables
  <2> QED
    BY <2>1, <2>2, RefKept
<1> QED
  BY <1>1, <1>2, <1>3, RequestLirRef, LostStops

LEMMA RequestLoopRef ==
    ASSUME IInv, RefInv, OutInv, P!RequestLoop
    PROVE  ListRunning' => RefInv'
<1>1. pc = "request"
  BY DEF P!RequestLoop
<1>2. CASE P!NoRoom
  BY <1>1, <1>2, EvictLirRef, EvictHirRef DEF P!RequestLoop
<1>3. CASE ~P!NoRoom
  <2>1. call.key \in Keys
    BY <1>1 DEF IInv, CallOK, Requesting
  <2>2. \/ /\ P!RequestHirFault(call.key) = "none" /\ P!FreeNames(call.key) # {}
           /\ P!RequestHir(call.key)
        \/ pc' \in P!Lost
    BY <1>3, FaultTypes DEF P!RequestLoop, P!Unless, Faults, P!Lost
  <2> QED
    BY <1>1, <2>1, <2>2, RequestHirRef, LostStops
<1> QED
  BY <1>2, <1>3

\* DESTROY_EVICTED_ENTRY drops the reference of the out parameter.
LEMMA FinishRef ==
    ASSUME IInv, RefInv, P!Finish
    PROVE  ListRunning' => RefInv'
<1>1. pc' \in P!Lost \/ P!Collect
  BY DEF P!Finish, P!Unless, P!Lost
<1>2. CASE P!Collect
  <2>1. /\ UNCHANGED <<stack, index, resident>> /\ evicted' = NULL
        /\ entry' = IF evicted = NULL THEN entry ELSE P!Release(entry, evicted)
        /\ pc = "ret" /\ pc' \in {"ask", "idle"}
    BY <1>2 DEF P!Finish, P!Collect, P!tables
  <2>2. ~Promoting /\ ~Promoting'
    BY <2>1 DEF Promoting
  <2>3. ASSUME NEW x \in Entries PROVE entry'[x].rc = entry[x].rc - Is(evicted, x)
    <3>1. CASE evicted = NULL
      <4>1. Is(evicted, x) = 0 /\ entry[x].rc \in Int
        BY <3>1, RefTypes
      <4> QED
        BY <2>1, <3>1, <4>1
    <3>2. CASE evicted # NULL
      <4>1. evicted \in Entries /\ entry \in [Entries -> Marked]
        BY <3>2, RefTypes
      <4> QED
        BY <2>1, <3>2, <4>1, ReleaseIn
    <3> QED
      BY <3>1, <3>2
  <2>4. ASSUME NEW x \in Entries PROVE entry'[x].rc <= Owed(x)'
    <3>1. /\ Carries(x) = 0 /\ Carries(x)' = 0
          /\ In(stack', x) = In(stack, x) /\ In(index', x) = In(index, x)
          /\ In(resident', x) = In(resident, x)
      BY <2>1, <2>2 DEF Carries
    <3>2. Is(evicted', x) = 0
      BY <2>1, RefTypes
    <3>3. /\ entry[x].rc \in Int /\ Is(evicted, x) \in Int
          /\ In(stack, x) \in Int /\ In(index, x) \in Int /\ In(resident, x) \in Int
      BY TermTypes
    <3>4. entry'[x].rc = entry[x].rc - Is(evicted, x)
      BY <2>3
    <3> QED
      BY <3>1, <3>2, <3>3, <3>4, RefSum
  <2>5. KeysOnce(stack') /\ KeysOnce(index') /\ KeysOnce(resident')
    BY <2>1 DEF RefInv
  <2> QED
    BY <2>2, <2>4, <2>5 DEF RefInv
<1> QED
  BY <1>1, <1>2, LostStops

\* When dlirs_destroy releases every reference of the tables, no counter has
\* more than those left.
LEMMA DestroyRef ==
    ASSUME IInv, RefInv, OutInv, P!Destroy
    PROVE  pc' \in P!Lost \/ (pc' = "destroyed" /\ ListNothingLeaks')
<1>1. pc = "idle" /\ evicted = NULL /\ ~Promoting
  BY DEF P!Destroy, OutInv, P!Lost, Promoting
<1>2. CASE \E e \in Entries : P!References(e) > entry[e].rc
  BY <1>2 DEF P!Destroy, P!Unless, P!Lost
<1>3. CASE ~(\E e \in Entries : P!References(e) > entry[e].rc)
  <2>1. /\ entry' = [e \in Entries |-> [entry[e] EXCEPT !.rc = @ - P!References(e)]]
        /\ pc' = "destroyed"
    BY <1>3 DEF P!Destroy, P!Unless, P!ReleaseAll
  <2>2. ASSUME NEW e \in Entries PROVE entry'[e].rc = 0
    <3>1. P!References(e) = In(stack, e) + In(index, e) + In(resident, e)
      BY DEF P!References, ListRefs, In
    <3>2. Carries(e) = 0 /\ Is(evicted, e) = 0
      BY <1>1, RefTypes DEF Carries
    <3>3. entry[e].rc \in Int /\ P!References(e) \in Int
      BY <3>1, TermTypes
    <3>4. /\ In(stack, e) \in Int /\ In(index, e) \in Int
          /\ In(resident, e) \in Int
      BY TermTypes
    <3>5. entry[e].rc <= P!References(e)
      <4>1. entry[e].rc <= In(stack, e) + In(index, e) + In(resident, e)
                           + Is(evicted, e) + Carries(e)
        BY DEF RefInv, Owed
      <4> QED
        BY <3>1, <3>2, <3>4, <4>1
    <3>6. entry[e].rc = P!References(e)
      BY <1>3, <3>3, <3>5
    <3>7. entry[e] \in Objects
      BY RefTypes
    <3>8. \A i \in Int : [entry[e] EXCEPT !.rc = i].rc = i
      BY <3>7 DEF Objects
    <3>9. entry'[e].rc = entry[e].rc - P!References(e)
      <4>1. entry'[e] = [entry[e] EXCEPT !.rc = entry[e].rc - P!References(e)]
        BY <2>1, Zenon
      <4>2. entry[e].rc - P!References(e) \in Int
        BY <3>3
      <4> QED
        BY <3>8, <4>1, <4>2
    <3> QED
      BY <3>3, <3>6, <3>9
  <2> QED
    BY <2>1, <2>2 DEF ListNothingLeaks, P!Live
<1> QED
  BY <1>2, <1>3

LEMMA InitRef == P!Init => RefInv
<1> SUFFICES ASSUME P!Init PROVE RefInv
  OBVIOUS
<1>1. /\ stack = << >> /\ index = << >> /\ resident = << >>
      /\ entry = [e \in Entries |-> P!Freed] /\ evicted = NULL /\ pc = "idle"
  BY DEF P!Init
<1>2. ~Promoting
  BY <1>1 DEF Promoting
<1>3. KeysOnce(<< >>)
  BY DEF KeysOnce
<1>4. ASSUME NEW x \in Entries PROVE entry[x].rc <= Owed(x)
  <2>1. In(<< >>, x) = 0 /\ Carries(x) = 0 /\ Is(NULL, x) = 0
    BY <1>2, NullAssumption DEF In, ToSet, Carries, Is, Entries
  <2>2. entry[x].rc = 0
    BY <1>1 DEF P!Freed
  <2>3. Owed(x) = 0 + 0 + 0 + 0 + 0
    BY <1>1, <2>1 DEF Owed
  <2> QED
    BY <2>2, <2>3
<1> QED
  BY <1>1, <1>2, <1>3, <1>4 DEF RefInv

\* Only dlirs_destroy destroys the cache.
LEMMA NotDestroyed ==
    ASSUME IInv, ListRunning, (\E k \in Keys : P!Get(k)) \/ (\E k \in Keys : P!Request(k)) \/ P!Step \/ P!SkipRequest
    PROVE  pc' # "destroyed"
<1>1. pc # "destroyed" /\ "destroyed" \notin P!Lost \cup {"none"}
  BY DEF ListRunning, P!Lost
<1>2. CASE \E k \in Keys : P!Get(k)
  <2>1. PICK k \in Keys : P!Get(k)
    BY <1>2
  <2>3. pc' \in {"prune", "ret", "eject_lir", "limit"} \cup P!Lost
    BY <2>1, GetSteps DEF P!GetMiss, P!HitLir, P!HirInLirs, P!HitHirInResidentHirs
  <2> QED
    BY <1>1, <2>3
<1>3. CASE \E k \in Keys : P!Request(k)
  <2>1. PICK k \in Keys : P!Request(k)
    BY <1>3
  <2>2. pc' \in {"ret", "request"} \cup P!Lost
    BY <2>1, RequestSteps DEF P!RequestLir
  <2> QED
    BY <1>1, <2>2
<1>4. CASE P!Prune
  <2>1. call.back \in {"ret", "eject_lir", "request"}
    BY DEF IInv, ListTypeOK, Calls
  <2>2. pc' \in {"prune", "ret", "eject_lir", "request"} \cup P!Lost
    BY <1>4, <2>1 DEF P!Prune, P!PruneFront, P!PruneFault, P!Unless, P!Lost
  <2> QED
    BY <1>1, <2>2
<1>5. ASSUME NEW back, P!EvictLir(back) PROVE pc' # "destroyed"
  <2>1. pc' = pc \/ pc' \in {"prune"} \cup P!Lost
    BY <1>5, InsertFaultType DEF P!EvictLir, P!DemoteFront, P!Unless, P!vars, P!Lost
  <2> QED
    BY <1>1, <2>1
<1>6. ASSUME P!EvictResidentHir PROVE pc' # "destroyed"
  <2>1. pc' = pc \/ pc' \in P!Lost
    BY <1>6 DEF P!EvictResidentHir, P!TakeFront, P!Unless, P!Lost
  <2> QED
    BY <1>1, <2>1
<1>7. CASE P!EjectLir \/ P!EjectHir
  <2>1. P!EvictLir("eject_lir") \/ P!EvictResidentHir \/ pc' \in {"eject_hir", "ret"} \cup P!Lost
    BY <1>7, InsertFaultType DEF P!EjectLir, P!EjectHir, P!Reinsert, P!Unless
  <2> QED
    BY <1>1, <1>5, <1>6, <2>1
<1>8. CASE P!LimitStack
  <2>1. pc' = pc \/ pc' \in {"ret"} \cup P!Lost
    BY <1>8 DEF P!LimitStack, P!DropOldest, P!DropFault, P!Unless, P!Lost
  <2> QED
    BY <1>1, <2>1
<1>9. CASE P!RequestLoop
  <2>1. P!EvictLir("request") \/ P!EvictResidentHir \/ pc' \in {"limit"} \cup P!Lost
    BY <1>9, FaultTypes DEF P!RequestLoop, P!RequestHir, P!Unless, Faults, P!Lost
  <2> QED
    BY <1>1, <1>5, <1>6, <2>1
<1>10. CASE P!Finish \/ P!SkipRequest
  <2>1. pc' \in {"ask", "idle"} \cup P!Lost
    BY <1>10 DEF P!Finish, P!SkipRequest, P!Collect, P!Unless, P!Lost
  <2> QED
    BY <1>1, <2>1
<1> QED
  BY <1>2, <1>3, <1>4, <1>7, <1>8, <1>9, <1>10 DEF P!Step

LEMMA NextRef ==
    ASSUME IInv, OutInv, ListRunning => RefInv, ListNothingLeaks, [P!Next]_(P!vars)
    PROVE  (ListRunning' => RefInv') /\ ListNothingLeaks'
<1>1. CASE ~ListRunning
  <2>1. pc \in P!Lost \cup {"destroyed"}
    BY <1>1 DEF ListRunning
  <2>2. UNCHANGED P!vars
    BY <2>1
    DEF P!Next, P!Get, P!Request, P!Step, P!Prune, P!EjectLir, P!EjectHir, P!LimitStack,
        P!RequestLoop, P!Finish,
       P!SkipRequest, P!Destroy, P!Stopped, P!Lost
  <2>3. entry' = entry /\ pc' = pc
    BY <2>2 DEF P!vars, P!data
  <2> QED
    BY <2>1, <2>3 DEF ListRunning, ListNothingLeaks, P!Live
<1>2. CASE ListRunning /\ P!Destroy
  <2>1. pc' \in P!Lost \/ (pc' = "destroyed" /\ ListNothingLeaks')
    BY <1>2, DestroyRef
  <2> QED
    BY <2>1 DEF ListNothingLeaks, ListRunning, P!Lost
<1>3. CASE ListRunning /\ (P!Stopped \/ UNCHANGED P!vars)
  <2>1. UNCHANGED <<stack, index, resident, entry, evicted, call, pc>>
    BY <1>3 DEF P!Stopped, P!vars, P!data, P!tables
  <2>2. Promoting <=> Promoting'
    BY <2>1 DEF Promoting
  <2>3. RefInv'
    BY <1>3, <2>1, <2>2, RefKept
  <2>4. pc' # "destroyed"
    BY <1>3, <2>1 DEF ListRunning
  <2> QED
    BY <2>3, <2>4 DEF ListNothingLeaks
<1>4. CASE ListRunning /\ ((\E k \in Keys : P!Get(k)) \/ (\E k \in Keys : P!Request(k)) \/ P!Step \/ P!SkipRequest)
  <2>1. pc' # "destroyed"
    BY <1>4, NotDestroyed
  <2>2. CASE P!SkipRequest
    <3>1. /\ UNCHANGED <<stack, index, resident, entry, evicted>>
          /\ pc = "ask" /\ pc' = "idle"
      BY <2>2 DEF P!SkipRequest, P!data, P!tables
    <3>2. ~Promoting /\ ~Promoting'
      BY <3>1 DEF Promoting
    <3> QED
      BY <1>4, <2>1, <3>1, <3>2, RefKept DEF ListNothingLeaks
  <2>3. CASE P!Step
    BY <1>4, <2>1, <2>3, PruneRef, EjectRef, LimitStackRef, RequestLoopRef, FinishRef
    DEF P!Step, ListNothingLeaks
  <2> QED
    BY <1>4, <2>1, <2>2, <2>3, GetRef, RequestRef DEF ListNothingLeaks
<1> QED
  BY <1>1, <1>2, <1>3, <1>4 DEF P!Next

-----------------------------------------------------------------------------
(* The operations of a table, and of its list                              *)

\* A table is a record of these four fields, whatever is done to it.
IsTable(t) ==
    /\ t = [list |-> t.list, slot |-> t.slot, size |-> t.size, twice |-> t.twice]
    /\ t.twice \in BOOLEAN

\* One that holds a key at most once.
Listed(t) == IsTable(t) /\ t.list \in Seq(Entries) /\ KeysOnce(t.list)

\* ht_resize moves nodes to other slots and nothing else.
LEMMA GrownSame ==
    ASSUME NEW t, IsTable(t)
    PROVE  /\ IsTable(Grown(t))
           /\ Grown(t).list = t.list /\ Grown(t).twice = t.twice
<1> DEFINE moved == Moved(t)
<1>1. Grown(t) = t
      \/ \E s, z : Grown(t) = [t EXCEPT !.slot = s, !.size = z]
  BY DEF Grown
<1> QED
  BY <1>1 DEF IsTable

\* Removal keeps the record and drops one element of the list.
LEMMA DropIs ==
    ASSUME NEW t, IsTable(t), NEW i
    PROVE  /\ IsTable(Drop(t, i)) /\ Drop(t, i).twice = t.twice
           /\ Drop(t, i).list = RemoveAt(t.list, i)
<1>1. \E s : Drop(t, i) = [t EXCEPT !.list = RemoveAt(t.list, i), !.slot = s]
  BY DEF Drop, RemoveAt
<1> QED
  BY <1>1 DEF IsTable

LEMMA HoldsSame ==
    ASSUME NEW t, NEW k
    PROVE  Holds(t, k) <=> ListHolds(t.list, k)
BY DEF Holds, Nodes, ListHolds

\* Of a key that a table holds once a search finds the one node.
LEMMA AtSame ==
    ASSUME NEW t, t.list \in Seq(Entries), KeysOnce(t.list), NEW k, ListHolds(t.list, k)
    PROVE  Pos(t, k) = ListPos(t.list, k) /\ At(t, k) = ListAt(t.list, k)
<1> DEFINE p == ListPos(t.list, k)
<1>1. p \in DOMAIN t.list /\ KeyOf(t.list[p]) = k
  BY AtType DEF ListAt
<1>2. Nodes(t, k) = {p}
  BY <1>1 DEF Nodes, KeysOnce
<1> HIDE DEF p
<1>3. Pos(t, k) = p
  BY <1>2 DEF Pos
<1> QED
  BY <1>3 DEF At, ListAt, p

\* An insertion keeps the record, and a table that held a key twice did so.
LEMMA InsertIs ==
    ASSUME NEW t, IsTable(t), NEW e
    PROVE  /\ IsTable(Insert(t, e))
           /\ t.twice => Insert(t, e).twice
           /\ ~Insert(t, e).twice =>
                 /\ Meets(t, KeyOf(e)) <=> ListHolds(t.list, KeyOf(e))
                 /\ Insert(t, e).list = ListInsert(t.list, e)
<1> DEFINE g == Grown(t)
           k == KeyOf(e)
<1>1. IsTable(g) /\ g.list = t.list /\ g.twice = t.twice
  BY GrownSame
<1>2. Meets(t, k) => ListHolds(t.list, k)
  <2>1. Meets(t, k) => Holds(g, k)
    BY DEF Meets, MeetsAsIs
  <2> HIDE DEF g
  <2> QED
    BY <1>1, <2>1, HoldsSame
<1>3. Insert(t, e) = IF Meets(t, k) THEN [g EXCEPT !.list[Len(g.list)] = e]
                     ELSE Pushed(g, e)
  BY DEF Insert
<1>4. \E s : Pushed(g, e) = [g EXCEPT !.list = Append(@, e), !.slot = s,
                                      !.twice = @ \/ Holds(g, k)]
  BY DEF Pushed
<1>5. Holds(g, k) <=> ListHolds(t.list, k)
  <2> HIDE DEF g
  <2> QED
    BY <1>1, HoldsSame
<1> HIDE DEF g, k
<1>6. CASE Meets(t, k)
  <2>1. Insert(t, e) = [g EXCEPT !.list[Len(g.list)] = e]
    BY <1>3, <1>6
  <2>2. /\ IsTable(Insert(t, e)) /\ Insert(t, e).twice = t.twice
        /\ Insert(t, e).list = [t.list EXCEPT ![Len(t.list)] = e]
    BY <1>1, <2>1 DEF IsTable
  <2> QED
    BY <1>2, <1>6, <2>2 DEF ListInsert, k
<1>7. CASE ~Meets(t, k)
  <2>1. PICK s : Insert(t, e) = [g EXCEPT !.list = Append(@, e), !.slot = s,
                                          !.twice = @ \/ Holds(g, k)]
    BY <1>3, <1>4, <1>7
  <2>2. /\ IsTable(Insert(t, e))
        /\ Insert(t, e).twice = (t.twice \/ Holds(g, k))
        /\ Insert(t, e).list = Append(t.list, e)
    BY <1>1, <2>1 DEF IsTable
  <2> QED
    BY <1>5, <1>7, <2>2 DEF ListInsert, k
<1> QED
  BY <1>6, <1>7

\* A list that holds each key once never keeps its table from growing.
LEMMA NotRefused ==
    ASSUME NEW t, Listed(t), NEW k
    PROVE  ~Refuses(t, k)
BY DEF Refuses, KeysOnce, Listed

LEMMA HangsSame ==
    ASSUME NEW t, Listed(t), NEW k, Meets(t, k) <=> ListHolds(t.list, k)
    PROVE  InsertHangs(t, k) <=> ListInsertHangs(t.list, k)
<1> DEFINE g == Grown(t)
<1>1. g.list = t.list
  BY GrownSame DEF Listed
<1>2. ListHolds(t.list, k) => Pos(g, k) = ListPos(t.list, k)
  <2> HIDE DEF g
  <2> QED
    BY <1>1, AtSame DEF Listed
<1> QED
  BY <1>2 DEF InsertHangs, ListInsertHangs

LEMMA RefsSame ==
    ASSUME NEW t, Listed(t), NEW e
    PROVE  Refs(t, e) = ListRefs(t.list, e)
<1> DEFINE S == {i \in DOMAIN t.list : t.list[i] = e}
<1>1. Refs(t, e) = Cardinality(S)
  BY DEF Refs
<1>2. CASE e \in ToSet(t.list)
  <2>1. PICK i \in DOMAIN t.list : t.list[i] = e
    BY <1>2 DEF ToSet
  <2>2. S = {i}
    BY <2>1 DEF Listed, KeysOnce
  <2> QED
    BY <1>1, <1>2, <2>2, FS_Singleton DEF ListRefs
<1>3. CASE e \notin ToSet(t.list)
  <2>1. S = {}
    BY <1>3 DEF ToSet
  <2> QED
    BY <1>1, <1>3, <2>1, FS_EmptySet DEF ListRefs
<1> QED
  BY <1>2, <1>3

\* What is read of a table that holds each key once, and what a removal makes
\* of it.
LEMMA ReadSame ==
    ASSUME NEW t, Listed(t)
    PROVE  /\ IsEmpty(t) <=> ListIsEmpty(t.list)
           /\ FrontOf(t) = ListFrontOf(t.list)
           /\ \A k : Holds(t, k) <=> ListHolds(t.list, k)
           /\ \A k : ListHolds(t.list, k) => At(t, k) = ListAt(t.list, k)
           /\ \A e : Refs(t, e) = ListRefs(t.list, e)
           /\ \A k : ListHolds(t.list, k) => /\ Listed(Without(t, k))
                                             /\ Without(t, k).twice = t.twice
                                             /\ Without(t, k).list = ListWithout(t.list, k)
           /\ ~ListIsEmpty(t.list) => PopFront(t).list = ListPopFront(t.list)
<1>0. IsTable(t) /\ t.list \in Seq(Entries) /\ KeysOnce(t.list)
  BY DEF Listed
<1>1. ASSUME NEW k, ListHolds(t.list, k)
      PROVE  /\ Listed(Without(t, k)) /\ Without(t, k).twice = t.twice
             /\ Without(t, k).list = ListWithout(t.list, k)
  <2>1. Without(t, k) = Drop(t, ListPos(t.list, k))
    BY <1>0, <1>1, AtSame DEF Without
  <2>2. /\ IsTable(Without(t, k)) /\ Without(t, k).twice = t.twice
        /\ Without(t, k).list = ListWithout(t.list, k)
    BY <1>0, <2>1, DropIs DEF ListWithout
  <2>3. ListWithout(t.list, k) \in Seq(Entries) /\ KeysOnce(ListWithout(t.list, k))
    BY <1>0, <1>1, WithoutType, WithoutIs
  <2> QED
    BY <2>2, <2>3 DEF Listed
<1>2. ASSUME t.list # << >> PROVE PopFront(t).list = Tail(t.list)
  <2> DEFINE k == KeyOf(Head(t.list))
  <2>1. ListHolds(t.list, k) /\ ListAt(t.list, k) = Head(t.list) /\ Tail(t.list) = ListWithout(t.list, k)
    BY <1>0, <1>2, TailIs
  <2>2. ListPos(t.list, k) = 1
    <3>1. ListPos(t.list, k) \in 1 .. Len(t.list) /\ KeyOf(t.list[ListPos(t.list, k)]) = k
      BY <1>0, <2>1, AtType DEF ListAt
    <3>2. 1 \in 1 .. Len(t.list) /\ KeyOf(t.list[1]) = k
      BY <1>0, <1>2
    <3> QED
      BY <1>0, <3>1, <3>2 DEF KeysOnce
  <2> HIDE DEF k
  <2> QED
    BY <1>0, <2>1, <2>2, DropIs DEF PopFront, ListWithout
<1>3. \A k : ListHolds(t.list, k) => At(t, k) = ListAt(t.list, k)
  BY <1>0, AtSame
<1> QED
  BY <1>1, <1>2, <1>3, HoldsSame, RefsSame DEF IsEmpty, FrontOf

\* Releasing a reference is the same, whatever the tables are.
LEMMA ReleaseSame == \A objs, e : Release(objs, e) = P!Release(objs, e)
BY DEF Release, P!Release

\* What an insertion that stores no key twice makes of the table, the objects
\* and the process.
LEMMA InsertSame ==
    ASSUME NEW t, Listed(t), NEW e, ~Insert(t, e).twice, NEW k, k = KeyOf(e)
    PROVE  /\ Insert(t, e).list = ListInsert(t.list, e)
           /\ \A objs : Overridden(objs, t, k) = P!Overridden(objs, t.list, k)
           /\ \A objs : InsertFault(objs, t, k) = P!InsertFault(objs, t.list, k)
           /\ \A objs : RequestFault(objs, t, k) = P!RequestFault(objs, t.list, k)
<1>1. /\ Meets(t, k) <=> ListHolds(t.list, k)
      /\ Insert(t, e).list = ListInsert(t.list, e)
  BY InsertIs DEF Listed
<1>2. ListHolds(t.list, k) => At(t, k) = ListAt(t.list, k)
  BY ReadSame
<1>3. InsertHangs(t, k) <=> ListInsertHangs(t.list, k)
  BY <1>1, HangsSame
<1>4. ~Refuses(t, k)
  BY NotRefused
<1>5. \A objs : Overridden(objs, t, k) = P!Overridden(objs, t.list, k)
  BY <1>1, <1>2, ReleaseSame DEF Overridden, P!Overridden
<1>6. \A objs : InsertFault(objs, t, k) = P!InsertFault(objs, t.list, k)
  BY <1>1, <1>2, <1>3, <1>4 DEF InsertFault, P!InsertFault
<1>7. \A objs : RequestFault(objs, t, k) = P!RequestFault(objs, t.list, k)
  BY <1>4, <1>6 DEF RequestFault, P!RequestFault
<1> QED
  BY <1>1, <1>5, <1>6, <1>7

\* Any insertion that does not succeed hangs or aborts.
LEMMA InsertFaults ==
    ASSUME NEW t, Listed(t), NEW k, NEW objs
    PROVE  InsertFault(objs, t, k) \in Faults /\ RequestFault(objs, t, k) \in Faults
BY NotRefused DEF InsertFault, RequestFault, Faults

-----------------------------------------------------------------------------
(* The steps of DLIRS, on lists                                            *)

AllListed == Listed(lirs) /\ Listed(non_resident_hirs) /\ Listed(resident_hirs)

\* The process is lost where it is.
Loses == pc' \in {"abort", "hung"} /\ UNCHANGED <<P!data, call>>

\* What the policy says of anything but the tables.
LEMMA PlainSame ==
    /\ NoCall = P!NoCall /\ Lost = P!Lost /\ Freed = P!Freed
    /\ \A n : Dec(n) = P!Dec(n) /\ Inc(n) = P!Inc(n)
    /\ \A b, n : Created(b, n) = P!Created(b, n)
    /\ \A o : Copied(o) = P!Copied(o) /\ Demoted(o) = P!Demoted(o)
    /\ \A o, b : Evicted(o, b) = P!Evicted(o, b)
    /\ \A b : Answer(b) = P!Answer(b)
    /\ \A e : Live(e) <=> P!Live(e)
    /\ \A e : LeftStack(e) = P!LeftStack(e)
    /\ \A e : LeftResidentHirs(e) = P!LeftResidentHirs(e)
    /\ \A n : PruneSize(n) = P!PruneSize(n)
    /\ NoRoom <=> P!NoRoom
    /\ Resize(TRUE) <=> P!Resize(TRUE)
    /\ Resize(FALSE) <=> P!Resize(FALSE)
<1>1. \A n : Dec(n) = P!Dec(n) /\ Inc(n) = P!Inc(n)
  BY DEF Dec, P!Dec, Inc, P!Inc
<1>2. /\ \A e : Live(e) <=> P!Live(e)
      /\ \A e : LeftStack(e) = P!LeftStack(e)
      /\ \A e : LeftResidentHirs(e) = P!LeftResidentHirs(e)
  BY <1>1 DEF Live, P!Live, LeftStack, P!LeftStack, LeftResidentHirs, P!LeftResidentHirs
<1>3. \A n : PruneSize(n) = P!PruneSize(n)
  BY DEF PruneSize, P!PruneSize, AsInt, P!AsInt
<1>4. NoRoom <=> P!NoRoom
  BY DEF NoRoom, P!NoRoom, Plus, P!Plus
<1>5. /\ Resize(TRUE) <=> P!Resize(TRUE)
      /\ Resize(FALSE) <=> P!Resize(FALSE)
  BY DEF Resize, P!Resize, AtMost, P!AtMost
<1>6. /\ NoCall = P!NoCall /\ Lost = P!Lost /\ Freed = P!Freed
      /\ \A b, n : Created(b, n) = P!Created(b, n)
      /\ \A o : Copied(o) = P!Copied(o) /\ Demoted(o) = P!Demoted(o)
      /\ \A o, b : Evicted(o, b) = P!Evicted(o, b)
      /\ \A b : Answer(b) = P!Answer(b)
  BY DEF NoCall, P!NoCall, Lost, P!Lost, Freed, P!Freed, Created, P!Created,
     Copied, P!Copied, Demoted, P!Demoted, Evicted, P!Evicted, Answer, P!Answer
<1> QED
  BY <1>1, <1>2, <1>3, <1>4, <1>5, <1>6

LEMMA UnchangedSame ==
    /\ UNCHANGED data => UNCHANGED P!data
    /\ UNCHANGED limits => UNCHANGED P!limits
    /\ UNCHANGED counters => UNCHANGED P!counters
    /\ UNCHANGED tables => UNCHANGED P!tables
    /\ UNCHANGED vars => UNCHANGED P!vars
BY DEF data, P!data, limits, P!limits, counters, P!counters, tables, P!tables,
   vars, P!vars, stack, index, resident

\* A fault that is found loses the process.
LEMMA FaultLoses ==
    ASSUME NEW fault \in Faults, fault # "none", NEW step, Unless(fault, step)
    PROVE  Loses
BY UnchangedSame DEF Unless, Loses, Faults

\* The three tables, read.
LEMMA ListsSame ==
    ASSUME AllListed
    PROVE  /\ IsEmpty(lirs) <=> ListIsEmpty(stack)
           /\ IsEmpty(non_resident_hirs) <=> ListIsEmpty(index)
           /\ IsEmpty(resident_hirs) <=> ListIsEmpty(resident)
           /\ FrontOf(lirs) = ListFrontOf(stack)
           /\ FrontOf(non_resident_hirs) = ListFrontOf(index)
           /\ FrontOf(resident_hirs) = ListFrontOf(resident)
           /\ \A k : Holds(lirs, k) <=> ListHolds(stack, k)
           /\ \A k : Holds(non_resident_hirs, k) <=> ListHolds(index, k)
           /\ \A k : Holds(resident_hirs, k) <=> ListHolds(resident, k)
           /\ \A k : ListHolds(stack, k) => At(lirs, k) = ListAt(stack, k)
           /\ \A k : ListHolds(index, k)
                       => At(non_resident_hirs, k) = ListAt(index, k)
           /\ \A k : ListHolds(resident, k) => At(resident_hirs, k) = ListAt(resident, k)
BY ReadSame, Zenon DEF AllListed, stack, index, resident

\* The three tables, after removals.
LEMMA RemovalsSame ==
    ASSUME AllListed
    PROVE  /\ \A k : ListHolds(stack, k) =>
                 /\ Listed(Without(lirs, k))
                 /\ Without(lirs, k).list = ListWithout(stack, k)
           /\ \A k : ListHolds(index, k) =>
                 Without(non_resident_hirs, k).list = ListWithout(index, k)
           /\ \A k : ListHolds(resident, k) =>
                 Without(resident_hirs, k).list = ListWithout(resident, k)
           /\ ~ListIsEmpty(stack) => PopFront(lirs).list = ListPopFront(stack)
           /\ ~ListIsEmpty(index)
                 => PopFront(non_resident_hirs).list = ListPopFront(index)
           /\ ~ListIsEmpty(resident)
                 => PopFront(resident_hirs).list = ListPopFront(resident)
BY ReadSame, Zenon DEF AllListed, stack, index, resident

LEMMA ContainsSame ==
    ASSUME AllListed, NEW k
    PROVE  /\ CacheContains(k) <=> P!CacheContains(k)
           /\ ContainsFault(k) = P!ContainsFault(k)
           /\ \A op : Begin(op, k) = P!Begin(op, k)
<1>1. CacheContains(k) = P!CacheContains(k)
  BY ListsSame DEF CacheContains, P!CacheContains
<1>2. ContainsFault(k) = P!ContainsFault(k)
  BY ListsSame, PlainSame DEF ContainsFault, P!ContainsFault
<1> QED
  BY <1>1, <1>2, PlainSame DEF Begin, P!Begin

\* dlirs_hit_lir
LEMMA HitLirSame ==
    ASSUME AllListed, NEW k, ListHolds(stack, k), Unless(HitLirFault(k), HitLir(k)),
           ~Twice'
    PROVE  P!Unless(P!HitLirFault(k), P!HitLir(k)) \/ Loses
<1> DEFINE w == Without(lirs, k)
           e == ListAt(stack, k)
<1>1. /\ At(lirs, k) = e /\ Listed(w) /\ w.list = ListWithout(stack, k) /\ KeyOf(e) = k
      /\ FrontOf(lirs) = ListFrontOf(stack)
  BY ListsSame, RemovalsSame, AtType DEF AllListed, Listed, stack
<1>2. CASE HitLirFault(k) # "none"
  <2>1. HitLirFault(k) \in Faults
    BY <1>1, InsertFaults DEF HitLirFault, FirstFault, Faults
  <2> QED
    BY <1>2, <2>1, FaultLoses
<1>3. CASE HitLirFault(k) = "none"
  <2>1. HitLir(k)
    BY <1>3 DEF Unless
  <2>2. lirs' = Insert(w, e) /\ ~Insert(w, e).twice
    BY <1>1, <2>1 DEF HitLir, Twice
  <2> HIDE DEF w, e
  <2>3. /\ stack' = ListInsert(ListWithout(stack, k), e)
        /\ \A objs : Overridden(objs, w, k) = P!Overridden(objs, ListWithout(stack, k), k)
        /\ \A objs : InsertFault(objs, w, k) = P!InsertFault(objs, ListWithout(stack, k), k)
    BY <1>1, <2>2, InsertSame DEF stack
  <2>4. P!HitLirFault(k) = HitLirFault(k)
    BY <1>1, <2>3 DEF P!HitLirFault, HitLirFault, P!FirstFault, FirstFault, w, e
  <2>5. WasFront(k) <=> P!WasFront(k)
    BY <1>1 DEF WasFront, P!WasFront
  <2>6. P!HitLir(k)
    BY <1>1, <2>1, <2>3, <2>5, ContainsSame, UnchangedSame
    DEF P!HitLir, HitLir, w, e, index, resident
  <2> QED
    BY <1>3, <2>4, <2>6 DEF P!Unless
<1> QED
  BY <1>2, <1>3

\* dlirs_hir_in_lirs up to its loops
LEMMA HirInLirsSame ==
    ASSUME AllListed, NEW k, ListHolds(stack, k), Unless(HirInLirsFault(k), HirInLirs(k))
    PROVE  P!Unless(P!HirInLirsFault(k), P!HirInLirs(k)) \/ Loses
<1>1. At(lirs, k) = ListAt(stack, k)
  BY ListsSame
<1>2. ListHolds(index, k) => Unstacked(k) = P!Unstacked(k)
  BY <1>1, ListsSame, ReleaseSame DEF Unstacked, P!Unstacked
<1>3. HirInLirsFault(k) = P!HirInLirsFault(k)
  BY <1>1, <1>2, ListsSame, PlainSame DEF HirInLirsFault, P!HirInLirsFault
<1>4. CASE P!HirInLirsFault(k) # "none"
  <2>1. P!HirInLirsFault(k) \in Faults
    BY FaultTypes
  <2> QED
    BY <1>3, <1>4, <2>1, FaultLoses
<1>5. CASE P!HirInLirsFault(k) = "none"
  <2>1. HirInLirs(k)
    BY <1>3, <1>5 DEF Unless
  <2>2. /\ ListHolds(index, k)
        /\ entry[ListAt(stack, k)].in_cache => ListHolds(resident, k)
    BY <1>5 DEF P!HirInLirsFault
  <2>3. /\ stack' = ListWithout(stack, k) /\ index' = ListWithout(index, k)
    BY <2>1, <2>2, RemovalsSame DEF HirInLirs, stack, index
  <2>4. Unstacked(k) = P!Unstacked(k)
    BY <1>2, <2>2
  <2>5. IF entry[ListAt(stack, k)].in_cache
        THEN /\ entry' = P!Release(P!Unstacked(k), ListAt(resident, k))
             /\ resident' = ListWithout(resident, k)
             /\ hirs_count' = P!Dec(hirs_count)
             /\ UNCHANGED <<P!limits, non_resident>>
        ELSE /\ P!Resize(TRUE)
             /\ entry' = [P!Unstacked(k) EXCEPT ![ListAt(stack, k)].in_cache = TRUE]
             /\ non_resident' = P!Dec(non_resident)
             /\ UNCHANGED <<resident, hirs_count>>
    <3>1. CASE entry[ListAt(stack, k)].in_cache
      <4>1. resident' = ListWithout(resident, k)
        BY <1>1, <2>1, <2>2, <3>1, RemovalsSame DEF HirInLirs, resident
      <4>2. At(resident_hirs, k) = ListAt(resident, k)
        BY <2>2, <3>1, ListsSame
      <4> QED
        BY <1>1, <2>1, <2>4, <3>1, <4>1, <4>2, ReleaseSame, PlainSame, UnchangedSame
        DEF HirInLirs
    <3>2. CASE ~entry[ListAt(stack, k)].in_cache
      <4>1. UNCHANGED resident_hirs
        BY <1>1, <2>1, <3>2 DEF HirInLirs
      <4> QED
        BY <1>1, <2>1, <2>4, <3>2, <4>1, PlainSame DEF HirInLirs, resident
    <3> QED
      BY <3>1, <3>2
  <2>6. /\ call' = [P!Begin("get", k) EXCEPT !.entry = ListAt(stack, k), !.in_cache = entry[ListAt(stack, k)].in_cache]
        /\ pc' = "eject_lir"
        /\ UNCHANGED <<lirs_count, demoted, evicted>>
    BY <1>1, <2>1, ContainsSame DEF HirInLirs
  <2>7. P!HirInLirs(k)
    BY <2>3, <2>5, <2>6 DEF P!HirInLirs
  <2> QED
    BY <1>5, <2>7 DEF P!Unless
<1> QED
  BY <1>4, <1>5

\* dlirs_hit_hir_in_resident_hirs
LEMMA HitHirSame ==
    ASSUME AllListed, NEW k, ListHolds(resident, k),
           Unless(HitHirFault(k), HitHirInResidentHirs(k)), ~Twice'
    PROVE  P!Unless(P!HitHirFault(k), P!HitHirInResidentHirs(k)) \/ Loses
<1> DEFINE e == ListAt(resident, k)
           copied == [entry EXCEPT ![e] = P!Copied(entry[e])]
<1>1. At(resident_hirs, k) = e /\ KeyOf(e) = k
  BY ListsSame, AtType DEF AllListed, Listed, resident
<1>2. CASE HitHirFault(k) # "none"
  <2>1. HitHirFault(k) \in Faults
    BY InsertFaults DEF HitHirFault, FirstFault, Faults, AllListed
  <2> QED
    BY <1>2, <2>1, FaultLoses
<1>3. CASE HitHirFault(k) = "none"
  <2>1. HitHirInResidentHirs(k)
    BY <1>3 DEF Unless
  <2>2. /\ lirs' = Insert(lirs, e)
        /\ non_resident_hirs' = Insert(non_resident_hirs, e)
        /\ resident_hirs' = Insert(resident_hirs, e)
        /\ ~lirs'.twice /\ ~non_resident_hirs'.twice /\ ~resident_hirs'.twice
    BY <1>1, <2>1 DEF HitHirInResidentHirs, Twice
  <2> HIDE DEF e
  <2>3. stack' = ListInsert(stack, e)
        /\ \A objs : InsertFault(objs, lirs, k) = P!InsertFault(objs, stack, k)
    BY <1>1, <2>2, InsertSame DEF AllListed, stack
  <2>4. /\ index' = ListInsert(index, e)
        /\ \A objs : InsertFault(objs, non_resident_hirs, k)
                       = P!InsertFault(objs, index, k)
        /\ \A objs : Overridden(objs, non_resident_hirs, k)
                       = P!Overridden(objs, index, k)
    BY <1>1, <2>2, InsertSame DEF AllListed, index
  <2>5. /\ resident' = ListInsert(resident, e)
        /\ \A objs : InsertFault(objs, resident_hirs, k) = P!InsertFault(objs, resident, k)
        /\ \A objs : Overridden(objs, resident_hirs, k) = P!Overridden(objs, resident, k)
    BY <1>1, <2>2, InsertSame DEF AllListed, resident
  <2>6. P!HitHirFault(k) = HitHirFault(k)
    BY <1>1, <2>3, <2>4, <2>5, PlainSame
    DEF P!HitHirFault, HitHirFault, P!FirstFault, FirstFault, e
  <2>7. entry' = P!Overridden(P!Overridden(copied, resident, k), index, k)
    BY <1>1, <2>1, <2>4, <2>5, PlainSame DEF HitHirInResidentHirs
  <2>8. /\ IF entry[e].is_demoted THEN P!Resize(FALSE) /\ demoted' = P!Dec(demoted)
           ELSE UNCHANGED <<P!limits, demoted>>
        /\ call' = [P!Begin("get", k) EXCEPT !.result = "hit", !.size = P!PruneSize(hirs_count)]
        /\ pc' = "limit"
        /\ UNCHANGED <<hirs_count, lirs_count, non_resident, evicted>>
    BY <1>1, <2>1, PlainSame, ContainsSame, UnchangedSame DEF HitHirInResidentHirs
  <2>9. P!HitHirInResidentHirs(k)
    BY <2>3, <2>4, <2>5, <2>7, <2>8 DEF P!HitHirInResidentHirs, e
  <2> QED
    BY <1>3, <2>6, <2>9 DEF P!Unless
<1> QED
  BY <1>2, <1>3

\* dlirs_get
LEMMA GetSame ==
    ASSUME AllListed, NEW k \in Keys, Get(k), ~Twice'
    PROVE  P!Get(k) \/ Loses
<1>1. pc = "idle" /\ StartGet(k)
  BY DEF Get
<1>2. CASE ListHolds(stack, k)
  <2>1. At(lirs, k) = ListAt(stack, k) /\ GetLirs(k)
    BY <1>1, <1>2, ListsSame DEF StartGet
  <2>2. CASE ~P!Live(ListAt(stack, k))
    <3>1. pc' = "abort" /\ UNCHANGED <<P!data, call>>
      BY <2>1, <2>2, PlainSame, UnchangedSame DEF GetLirs, Unless
    <3> QED
      BY <3>1 DEF Loses
  <2>3. CASE P!Live(ListAt(stack, k)) /\ entry[ListAt(stack, k)].is_LIR
    <3>1. Unless(HitLirFault(k), HitLir(k))
      BY <2>1, <2>3, PlainSame DEF GetLirs
    <3> QED
      BY <1>1, <1>2, <2>3, <3>1, HitLirSame DEF P!Get, P!StartGet, P!GetLirs
  <2>4. CASE P!Live(ListAt(stack, k)) /\ ~entry[ListAt(stack, k)].is_LIR
    <3>1. Unless(HirInLirsFault(k), HirInLirs(k))
      BY <2>1, <2>4, PlainSame DEF GetLirs
    <3> QED
      BY <1>1, <1>2, <2>4, <3>1, HirInLirsSame DEF P!Get, P!StartGet, P!GetLirs
  <2> QED
    BY <2>2, <2>3, <2>4
<1>3. CASE ~ListHolds(stack, k) /\ ListHolds(resident, k)
  <2>1. Unless(HitHirFault(k), HitHirInResidentHirs(k))
    BY <1>1, <1>3, ListsSame DEF StartGet
  <2> QED
    BY <1>1, <1>3, <2>1, HitHirSame DEF P!Get, P!StartGet
<1>4. CASE ~ListHolds(stack, k) /\ ~ListHolds(resident, k)
  <2>1. GetMiss(k)
    BY <1>1, <1>4, ListsSame DEF StartGet
  <2>2. P!GetMiss(k)
    BY <2>1, ContainsSame, UnchangedSame DEF GetMiss, P!GetMiss
  <2> QED
    BY <1>1, <1>4, <2>2 DEF P!Get, P!StartGet
<1> QED
  BY <1>2, <1>3, <1>4

\* dlirs_prune
LEMMA PruneSame ==
    ASSUME AllListed, Prune
    PROVE  P!Prune \/ Loses
<1> DEFINE e == Head(stack)
           k == KeyOf(e)
<1>1. /\ pc = "prune"
      /\ IF stack = << >> THEN pc' = call.back /\ UNCHANGED <<P!data, call>>
         ELSE IF ~P!Live(e) THEN pc' = "abort" /\ UNCHANGED <<P!data, call>>
         ELSE IF entry[e].is_LIR THEN pc' = call.back /\ UNCHANGED <<P!data, call>>
         ELSE Unless(PruneFault, PruneFront)
  BY ListsSame, PlainSame, UnchangedSame DEF Prune, Unless
<1>2. CASE stack = << >> \/ ~P!Live(e) \/ entry[e].is_LIR
  BY <1>1, <1>2 DEF P!Prune, P!Unless
<1>3. CASE ~(stack = << >> \/ ~P!Live(e) \/ entry[e].is_LIR)
  <2>1. Unless(PruneFault, PruneFront)
    BY <1>1, <1>3
  <2>2. /\ FrontOf(lirs) = e /\ KeyOf(e) = k
        /\ ListHolds(stack, k) /\ At(lirs, k) = ListAt(stack, k)
    <3>1. ListHolds(stack, k)
      BY <1>3, TailIs DEF AllListed, Listed, stack
    <3> QED
      BY <3>1, ListsSame
  <2> HIDE DEF e, k
  <2>3. PruneFault = P!PruneFault
    BY <2>2, ListsSame, PlainSame, ReleaseSame DEF PruneFault, P!PruneFault, e, k
  <2>4. CASE P!PruneFault # "none"
    <3>1. P!PruneFault \in Faults
      BY DEF P!PruneFault, Faults
    <3> QED
      BY <2>1, <2>3, <2>4, <3>1, FaultLoses
  <2>5. CASE P!PruneFault = "none"
    <3>1. PruneFront
      BY <2>1, <2>3, <2>5 DEF Unless
    <3>2. stack' = ListWithout(stack, k)
      BY <2>2, <3>1, RemovalsSame DEF PruneFront, stack
    <3>3. index' = P!Forgotten(k)
      BY <2>2, <3>1, RemovalsSame, ListsSame
      DEF PruneFront, Forgotten, P!Forgotten, index
    <3>4. /\ entry' = IF ListHolds(index, k)
                      THEN P!Release(P!Release(entry, ListAt(stack, k)), ListAt(index, k))
                      ELSE P!Release(entry, ListAt(stack, k))
          /\ non_resident' = P!LeftStack(e)
          /\ UNCHANGED <<P!limits, hirs_count, lirs_count, demoted, evicted, call, pc>>
      BY <2>2, <3>1, ListsSame, PlainSame, ReleaseSame, UnchangedSame DEF PruneFront
    <3>5. resident' = resident
      BY <3>1 DEF PruneFront, resident
    <3>6. P!PruneFront
      BY <3>2, <3>3, <3>4, <3>5 DEF P!PruneFront, e, k
    <3> QED
      BY <1>1, <1>3, <2>5, <3>6 DEF P!Prune, P!Unless, e
  <2> QED
    BY <2>4, <2>5
<1> QED
  BY <1>2, <1>3

\* dlirs_evict_lir
LEMMA EvictLirSame ==
    ASSUME AllListed, NEW back, EvictLir(back), ~Twice'
    PROVE  P!EvictLir(back) \/ Loses
<1> DEFINE e == Head(stack)
           k == KeyOf(e)
<1>1. IF stack = << >> THEN UNCHANGED P!vars
      ELSE IF ~P!Live(e) THEN pc' = "abort" /\ UNCHANGED <<P!data, call>>
      ELSE Unless(InsertFault(entry, resident_hirs, k), DemoteFront(back))
  BY ListsSame, PlainSame, UnchangedSame DEF EvictLir, Unless
<1>2. CASE stack = << >> \/ ~P!Live(e)
  BY <1>1, <1>2 DEF P!EvictLir, P!Unless
<1>3. CASE ~(stack = << >> \/ ~P!Live(e))
  <2>0. Unless(InsertFault(entry, resident_hirs, k), DemoteFront(back))
    BY <1>1, <1>3
  <2>1. CASE InsertFault(entry, resident_hirs, k) # "none"
    <3>1. InsertFault(entry, resident_hirs, k) \in Faults
      BY InsertFaults DEF AllListed
    <3> QED
      BY <2>0, <2>1, <3>1, FaultLoses
  <2>2. CASE InsertFault(entry, resident_hirs, k) = "none"
    <3>1. DemoteFront(back) /\ FrontOf(lirs) = e
      BY <2>0, <2>2, ListsSame DEF Unless
    <3>2. resident_hirs' = Insert(resident_hirs, e) /\ ~resident_hirs'.twice
      BY <3>1 DEF DemoteFront, Twice
    <3> HIDE DEF e
    <3>3. /\ resident' = ListInsert(resident, e)
          /\ P!InsertFault(entry, resident, k) = "none"
          /\ \A objs : Overridden(objs, resident_hirs, k) = P!Overridden(objs, resident, k)
      BY <2>2, <3>2, InsertSame DEF AllListed, resident
    <3>4. stack' = Tail(stack)
      BY <1>3, <3>1, RemovalsSame DEF DemoteFront, stack
    <3>5. /\ lirs_count' = P!Dec(lirs_count) /\ demoted' = P!Inc(demoted) /\ hirs_count' = P!Inc(hirs_count)
          /\ entry' = P!Overridden([entry EXCEPT ![e] = P!Demoted(entry[e])], resident, k)
          /\ call' = [call EXCEPT !.back = back] /\ pc' = "prune"
          /\ UNCHANGED <<P!limits, non_resident, evicted>>
      BY <3>1, <3>3, PlainSame, UnchangedSame DEF DemoteFront
    <3>6. index' = index
      BY <3>1 DEF DemoteFront, index
    <3>7. P!DemoteFront(back)
      BY <3>3, <3>4, <3>5, <3>6 DEF P!DemoteFront, e
    <3> QED
      BY <1>3, <3>3, <3>7 DEF P!EvictLir, P!Unless, e
  <2> QED
    BY <2>1, <2>2
<1> QED
  BY <1>2, <1>3

\* dlirs_evict_resident_hir
LEMMA EvictHirSame ==
    ASSUME AllListed, EvictResidentHir
    PROVE  P!EvictResidentHir
<1> DEFINE e == Head(resident)
<1>1. CASE resident = << >>
  <2>1. evicted' = NULL /\ UNCHANGED <<tables, limits, counters, entry, call, pc>>
    BY <1>1, ListsSame DEF EvictResidentHir
  <2> QED
    BY <1>1, <2>1, UnchangedSame DEF P!EvictResidentHir
<1>2. CASE resident # << >> /\ ~P!Live(e)
  <2>1. pc' = "abort" /\ UNCHANGED <<P!data, call>>
    BY <1>2, ListsSame, PlainSame, UnchangedSame DEF EvictResidentHir, Unless
  <2> QED
    BY <1>2, <2>1 DEF P!EvictResidentHir, P!Unless
<1>3. CASE resident # << >> /\ P!Live(e)
  <2>1. TakeFront /\ FrontOf(resident_hirs) = e
    BY <1>3, ListsSame, PlainSame DEF EvictResidentHir, Unless
  <2>2. resident' = Tail(resident)
    BY <1>3, <2>1, RemovalsSame DEF TakeFront, resident
  <2> HIDE DEF e
  <2>3. Holds(lirs, KeyOf(e)) = ListHolds(stack, KeyOf(e))
    BY ListsSame DEF Holds, ListHolds
  <2>4. /\ entry' = [entry EXCEPT ![e] = P!Evicted(entry[e], ListHolds(stack, KeyOf(e)))]
        /\ non_resident' = IF ListHolds(stack, KeyOf(e)) THEN P!Inc(non_resident) ELSE non_resident
        /\ demoted' = P!LeftResidentHirs(e) /\ hirs_count' = P!Dec(hirs_count) /\ evicted' = e
        /\ UNCHANGED <<P!limits, lirs_count, call, pc>>
    BY <2>1, <2>3, PlainSame, UnchangedSame DEF TakeFront
  <2>5. UNCHANGED <<stack, index>>
    BY <2>1 DEF TakeFront, stack, index
  <2>6. P!TakeFront
    BY <2>2, <2>4, <2>5 DEF P!TakeFront, e
  <2> QED
    BY <1>3, <2>6 DEF P!EvictResidentHir, P!Unless, e
<1> QED
  BY <1>1, <1>2, <1>3

\* dlirs_hir_in_lirs, its loops and its insertion
LEMMA EjectSame ==
    ASSUME IInv, RefInv, AllListed, EjectLir \/ EjectHir, ~Twice'
    PROVE  P!EjectLir \/ P!EjectHir \/ Loses
<1>1. CASE EjectLir
  <2>1. CASE lirs_count >= lirs_limit
    <3>1. pc = "eject_lir" /\ EvictLir("eject_lir")
      BY <1>1, <2>1 DEF EjectLir
    <3> QED
      BY <2>1, <3>1, EvictLirSame DEF P!EjectLir
  <2>2. CASE ~(lirs_count >= lirs_limit)
    BY <1>1, <2>2, UnchangedSame DEF EjectLir, P!EjectLir
  <2> QED
    BY <2>1, <2>2
<1>2. CASE EjectHir /\ P!NoRoom
  <2>1. pc = "eject_hir" /\ EvictResidentHir
    BY <1>2, PlainSame DEF EjectHir
  <2> QED
    BY <1>2, <2>1, EvictHirSame DEF P!EjectHir
<1>3. CASE EjectHir /\ ~P!NoRoom
  <2> DEFINE k == call.key
             e == call.entry
  <2>1. pc = "eject_hir" /\ Unless(InsertFault(entry, lirs, k), Reinsert)
    BY <1>3, PlainSame DEF EjectHir
  <2>2. e \in Entries /\ KeyOf(e) = k
    BY <2>1 DEF IInv, CallOK, RefInv, Promoting
  <2>3. CASE InsertFault(entry, lirs, k) # "none"
    <3>1. InsertFault(entry, lirs, k) \in Faults
      BY InsertFaults DEF AllListed
    <3> QED
      BY <2>1, <2>3, <3>1, FaultLoses
  <2>4. CASE InsertFault(entry, lirs, k) = "none"
    <3>1. Reinsert
      BY <2>1, <2>4 DEF Unless
    <3>2. lirs' = Insert(lirs, e) /\ ~lirs'.twice
      BY <3>1 DEF Reinsert, Twice
    <3> HIDE DEF e, k
    <3>3. /\ stack' = ListInsert(stack, e) /\ P!InsertFault(entry, stack, k) = "none"
          /\ Overridden(entry, lirs, k) = P!Overridden(entry, stack, k)
      BY <2>2, <2>4, <3>2, InsertSame DEF AllListed, stack
    <3>4. /\ entry' = P!Overridden(entry, stack, k)
          /\ lirs_count' = P!Inc(lirs_count)
          /\ call' = [call EXCEPT !.result = P!Answer(call.in_cache)] /\ pc' = "ret"
          /\ UNCHANGED <<P!limits, hirs_count, demoted, non_resident, evicted>>
      BY <3>1, <3>3, PlainSame, UnchangedSame DEF Reinsert, k
    <3>5. UNCHANGED <<index, resident>>
      BY <3>1 DEF Reinsert, index, resident
    <3>6. P!Reinsert
      BY <3>3, <3>4, <3>5 DEF P!Reinsert, k, e
    <3> QED
      BY <1>3, <2>1, <3>3, <3>6 DEF P!EjectHir, P!Unless, k
  <2> QED
    BY <2>3, <2>4
<1> QED
  BY <1>1, <1>2, <1>3

\* dlirs_limit_stack: here a fault may be a FATAL line as well.
LEMMA LimitStackSame ==
    ASSUME AllListed, LimitStack
    PROVE  P!LimitStack
<1> DEFINE e == Head(index)
           k == KeyOf(e)
<1>1. pc = "limit"
  BY DEF LimitStack
<1>2. CASE ~(call.size > 0)
  BY <1>2, UnchangedSame DEF LimitStack, P!LimitStack
<1>3. CASE call.size > 0
  <2>1. Unless(DropFault, DropOldest)
    BY <1>3 DEF LimitStack
  <2>2. /\ FrontOf(non_resident_hirs) = e /\ KeyOf(e) = k
        /\ Holds(lirs, k) <=> ListHolds(stack, k)
        /\ ListHolds(stack, k) => At(lirs, k) = ListAt(stack, k)
        /\ IsEmpty(non_resident_hirs) <=> index = << >>
    BY ListsSame
  <2> HIDE DEF e, k
  <2>3. DropFault = P!DropFault
    BY <2>2, PlainSame, ReleaseSame DEF DropFault, P!DropFault, e, k
  <2>4. CASE P!DropFault # "none"
    <3>1. pc' = P!DropFault /\ UNCHANGED <<P!data, call>>
      BY <2>1, <2>3, <2>4, UnchangedSame DEF Unless
    <3> QED
      BY <1>1, <1>3, <2>4, <3>1 DEF P!LimitStack, P!Unless
  <2>5. CASE P!DropFault = "none"
    <3>1. DropOldest
      BY <2>1, <2>3, <2>5 DEF Unless
    <3>2. index # << >> /\ ListHolds(stack, k)
      BY <2>5 DEF P!DropFault, e, k
    <3>3. stack' = ListWithout(stack, k)
      BY <2>2, <3>1, <3>2, RemovalsSame DEF DropOldest, stack
    <3>4. index' = Tail(index)
      BY <3>1, <3>2, RemovalsSame DEF DropOldest, index
    <3>5. resident' = resident
      BY <3>1 DEF DropOldest, resident
    <3>6. /\ non_resident' = P!LeftStack(e)
          /\ entry' = P!Release(P!Release(entry, ListAt(stack, k)), e)
          /\ call' = [call EXCEPT !.size = @ - 1]
          /\ UNCHANGED <<P!limits, hirs_count, lirs_count, demoted, evicted, pc>>
      BY <2>2, <3>1, <3>2, PlainSame, ReleaseSame, UnchangedSame DEF DropOldest
    <3>7. P!DropOldest
      BY <3>3, <3>4, <3>5, <3>6 DEF P!DropOldest, e, k
    <3> QED
      BY <1>1, <1>3, <2>5, <3>7 DEF P!LimitStack, P!Unless
  <2> QED
    BY <2>4, <2>5
<1> QED
  BY <1>2, <1>3

\* The references to an object, and what memory is free.
LEMMA NamesSame ==
    ASSUME AllListed
    PROVE  /\ \A e : References(e) = P!References(e)
           /\ \A k : FreeNames(k) = P!FreeNames(k) /\ NewEntry(k) = P!NewEntry(k)
<1>1. ASSUME NEW e PROVE References(e) = P!References(e)
  BY ReadSame DEF AllListed, References, P!References, stack, index, resident
<1>2. ASSUME NEW k PROVE FreeNames(k) = P!FreeNames(k)
  BY <1>1, PlainSame DEF FreeNames, P!FreeNames
<1>3. ASSUME NEW k PROVE NewEntry(k) = P!NewEntry(k)
  <2> DEFINE any(S) == CHOOSE e \in S : TRUE
  <2>1. NewEntry(k) = any(FreeNames(k)) /\ P!NewEntry(k) = any(P!FreeNames(k))
    BY DEF NewEntry, P!NewEntry
  <2> HIDE DEF any
  <2> QED
    BY <1>2, <2>1
<1> QED
  BY <1>1, <1>2, <1>3

\* dlirs_request up to its loops
LEMMA StartRequestSame ==
    ASSUME AllListed, NEW k \in Keys, StartRequest(k), ~Twice'
    PROVE  P!StartRequest(k) \/ Loses
<1> DEFINE e == P!NewEntry(k)
<1>1. FreeNames(k) = P!FreeNames(k) /\ P!FreeNames(k) # {} /\ NewEntry(k) = e
  BY NamesSame DEF StartRequest
<1>2. CASE ~(lirs_count < lirs_limit /\ hirs_count = 0)
  <2>1. /\ call' = [P!Begin("request", k) EXCEPT !.result = "0"]
        /\ pc' = "request" /\ UNCHANGED P!data
    BY <1>2, ContainsSame, UnchangedSame DEF StartRequest
  <2> QED
    BY <1>1, <1>2, <2>1 DEF P!StartRequest
<1>3. CASE lirs_count < lirs_limit /\ hirs_count = 0
  <2>1. Unless(RequestFault(entry, lirs, k), RequestLir(k))
    BY <1>3 DEF StartRequest
  <2>2. CASE RequestFault(entry, lirs, k) # "none"
    <3>1. RequestFault(entry, lirs, k) \in Faults
      BY InsertFaults DEF AllListed
    <3> QED
      BY <2>1, <2>2, <3>1, FaultLoses
  <2>3. CASE RequestFault(entry, lirs, k) = "none"
    <3>1. RequestLir(k)
      BY <2>1, <2>3 DEF Unless
    <3>2. lirs' = Insert(lirs, e) /\ ~lirs'.twice
      BY <1>1, <3>1 DEF RequestLir, Twice
    <3>3. KeyOf(e) = k
      BY <1>1, NewEntryIs
    <3> HIDE DEF e
    <3>4. /\ stack' = ListInsert(stack, e) /\ P!RequestFault(entry, stack, k) = "none"
          /\ Overridden(entry, lirs, k) = P!Overridden(entry, stack, k)
      BY <2>3, <3>2, <3>3, InsertSame DEF AllListed, stack
    <3>5. /\ entry' = [P!Overridden(entry, stack, k) EXCEPT ![e] = P!Created(TRUE, 1)]
          /\ lirs_count' = P!Inc(lirs_count) /\ evicted' = NULL
          /\ call' = [P!Begin("request", k) EXCEPT !.result = "0"] /\ pc' = "ret"
          /\ UNCHANGED <<P!limits, hirs_count, demoted, non_resident>>
      BY <1>1, <3>1, <3>4, PlainSame, ContainsSame, UnchangedSame DEF RequestLir
    <3>6. UNCHANGED <<index, resident>>
      BY <3>1 DEF RequestLir, index, resident
    <3>7. P!RequestLir(k)
      BY <3>4, <3>5, <3>6 DEF P!RequestLir, e
    <3> QED
      BY <1>1, <1>3, <3>4, <3>7 DEF P!StartRequest, P!Unless
  <2> QED
    BY <2>2, <2>3
<1> QED
  BY <1>2, <1>3

LEMMA RequestSame ==
    ASSUME AllListed, NEW k \in Keys, Request(k), ~Twice'
    PROVE  P!Request(k) \/ Loses
<1>1. pc = "ask" /\ k = call.key
  BY DEF Request
<1>2. ContainsFault(k) = P!ContainsFault(k) /\ (CacheContains(k) <=> P!CacheContains(k))
  BY ContainsSame
<1>3. CASE ~Recheck
  BY <1>1, <1>3, StartRequestSame DEF Request, P!Request
<1>4. CASE Recheck /\ P!ContainsFault(k) # "none"
  <2>1. P!ContainsFault(k) \in Faults
    BY FaultTypes
  <2> QED
    BY <1>2, <1>4, <2>1, FaultLoses DEF Request
<1>5. CASE Recheck /\ P!ContainsFault(k) = "none"
  <2>1. ~P!CacheContains(k) /\ StartRequest(k)
    BY <1>2, <1>5 DEF Request, Unless
  <2>2. P!StartRequest(k) \/ Loses
    BY <2>1, StartRequestSame
  <2> QED
    BY <1>1, <1>5, <2>1, <2>2 DEF P!Request, P!Unless
<1> QED
  BY <1>3, <1>4, <1>5

\* the nested loops of dlirs_request, and the entry stored in all three tables
LEMMA RequestLoopSame ==
    ASSUME IInv, AllListed, RequestLoop, ~Twice'
    PROVE  P!RequestLoop \/ Loses
<1> DEFINE k == call.key
           e == P!NewEntry(k)
<1>1. pc = "request" /\ k \in Keys
  BY DEF RequestLoop, IInv, CallOK, Requesting
<1>2. CASE P!NoRoom
  <2>1. CASE lirs_count > lirs_limit
    <3>1. EvictLir("request")
      BY <1>2, <2>1, PlainSame DEF RequestLoop
    <3> QED
      BY <1>1, <1>2, <2>1, <3>1, EvictLirSame DEF P!RequestLoop
  <2>2. CASE ~(lirs_count > lirs_limit)
    <3>1. EvictResidentHir
      BY <1>2, <2>2, PlainSame DEF RequestLoop
    <3> QED
      BY <1>1, <1>2, <2>2, <3>1, EvictHirSame DEF P!RequestLoop
  <2> QED
    BY <2>1, <2>2
<1>3. CASE ~P!NoRoom
  <2>1. Unless(RequestHirFault(k), FreeNames(k) # {} /\ RequestHir(k))
    BY <1>3, PlainSame DEF RequestLoop
  <2>2. CASE RequestHirFault(k) # "none"
    <3>1. RequestHirFault(k) \in Faults
      BY InsertFaults DEF RequestHirFault, FirstFault, Faults, AllListed
    <3> QED
      BY <2>1, <2>2, <3>1, FaultLoses
  <2>3. CASE RequestHirFault(k) = "none"
    <3>1. RequestHir(k) /\ P!FreeNames(k) # {} /\ NewEntry(k) = e
      BY <2>1, <2>3, NamesSame DEF Unless
    <3>2. /\ lirs' = Insert(lirs, e)
          /\ non_resident_hirs' = Insert(non_resident_hirs, e)
          /\ resident_hirs' = Insert(resident_hirs, e)
          /\ ~lirs'.twice /\ ~non_resident_hirs'.twice /\ ~resident_hirs'.twice
      BY <3>1 DEF RequestHir, Twice
    <3>3. KeyOf(e) = k
      BY <1>1, <3>1, NewEntryIs
    <3> HIDE DEF e, k
    <3>4. /\ stack' = ListInsert(stack, e)
          /\ \A objs : Overridden(objs, lirs, k) = P!Overridden(objs, stack, k)
          /\ \A objs : RequestFault(objs, lirs, k) = P!RequestFault(objs, stack, k)
      BY <3>2, <3>3, InsertSame DEF AllListed, stack
    <3>5. /\ index' = ListInsert(index, e)
          /\ \A objs : Overridden(objs, non_resident_hirs, k)
                         = P!Overridden(objs, index, k)
          /\ \A objs : RequestFault(objs, non_resident_hirs, k)
                         = P!RequestFault(objs, index, k)
      BY <3>2, <3>3, InsertSame DEF AllListed, index
    <3>6. /\ resident' = ListInsert(resident, e)
          /\ \A objs : Overridden(objs, resident_hirs, k) = P!Overridden(objs, resident, k)
          /\ \A objs : RequestFault(objs, resident_hirs, k)
                         = P!RequestFault(objs, resident, k)
      BY <3>2, <3>3, InsertSame DEF AllListed, resident
    <3>7. AfterLirs(k) = P!AfterLirs(k) /\ AfterStack(k) = P!AfterStack(k)
      BY <3>4, <3>5 DEF AfterLirs, P!AfterLirs, AfterStack, P!AfterStack
    <3>8. P!RequestHirFault(k) = "none"
      BY <2>3, <3>4, <3>5, <3>6, <3>7
      DEF RequestHirFault, P!RequestHirFault, FirstFault, P!FirstFault
    <3>9. /\ entry' = [P!Overridden(P!AfterStack(k), resident, k) EXCEPT ![e] = P!Created(FALSE, 3)]
          /\ hirs_count' = P!Inc(hirs_count)
          /\ call' = [call EXCEPT !.size = P!PruneSize(P!Inc(hirs_count))] /\ pc' = "limit"
          /\ UNCHANGED <<P!limits, lirs_count, demoted, non_resident, evicted>>
      BY <3>1, <3>6, <3>7, PlainSame, UnchangedSame DEF RequestHir
    <3>10. P!RequestHir(k)
      BY <3>4, <3>5, <3>6, <3>9 DEF P!RequestHir, e
    <3> QED
      BY <1>1, <1>3, <3>1, <3>8, <3>10 DEF P!RequestLoop, P!Unless, k
  <2> QED
    BY <2>2, <2>3
<1> QED
  BY <1>2, <1>3

\* The client takes what was evicted, goes on without a request, or destroys
\* the cache.
LEMMA ClientSame ==
    ASSUME AllListed, Finish \/ SkipRequest \/ Destroy
    PROVE  P!Finish \/ P!SkipRequest \/ P!Destroy
<1>1. CASE Finish
  <2> DEFINE fault == IF evicted # NULL /\ ~P!Live(evicted) THEN "abort" ELSE "none"
  <2>1. pc = "ret" /\ Unless(fault, Collect)
    BY <1>1, PlainSame DEF Finish
  <2>2. CASE fault # "none"
    BY <2>1, <2>2, UnchangedSame DEF Unless, P!Unless, P!Finish
  <2>3. CASE fault = "none"
    <3>1. Collect
      BY <2>1, <2>3 DEF Unless
    <3>2. P!Collect
      BY <3>1, PlainSame, ReleaseSame, UnchangedSame DEF Collect, P!Collect
    <3> QED
      BY <2>1, <2>3, <3>2 DEF P!Finish, P!Unless
  <2> QED
    BY <2>2, <2>3
<1>2. CASE SkipRequest
  BY <1>2, PlainSame, UnchangedSame DEF SkipRequest, P!SkipRequest
<1>3. CASE Destroy
  <2> DEFINE fault == IF \E e \in Entries : P!References(e) > entry[e].rc THEN "abort" ELSE "none"
  <2>1. pc = "idle" /\ Unless(fault, ReleaseAll)
    BY <1>3, NamesSame DEF Destroy
  <2>2. CASE fault # "none"
    BY <2>1, <2>2, UnchangedSame DEF Unless, P!Unless, P!Destroy
  <2>3. CASE fault = "none"
    <3>1. ReleaseAll
      BY <2>1, <2>3 DEF Unless
    <3>2. entry' = [e \in Entries |-> [entry[e] EXCEPT !.rc = @ - P!References(e)]]
      BY <3>1, NamesSame DEF ReleaseAll
    <3>3. stack' = << >> /\ index' = << >> /\ resident' = << >>
      <4>1. \A t : IsTable(t) => Emptied(t).list = << >>
        BY DEF Emptied, IsTable
      <4> QED
        BY <3>1, <4>1 DEF ReleaseAll, AllListed, Listed, stack, index, resident
    <3>4. P!ReleaseAll
      BY <3>1, <3>2, <3>3, UnchangedSame DEF ReleaseAll, P!ReleaseAll
    <3> QED
      BY <2>1, <2>3, <3>4 DEF P!Destroy, P!Unless
  <2> QED
    BY <2>2, <2>3
<1> QED
  BY <1>1, <1>2, <1>3

-----------------------------------------------------------------------------
(* Every step                                                              *)

Tabs == IsTable(lirs) /\ IsTable(non_resident_hirs) /\ IsTable(resident_hirs)

\* What any operation makes of a table.
After(t, t2) == IsTable(t2) /\ (t.twice => t2.twice)

LEMMA AfterIs ==
    ASSUME NEW t, IsTable(t)
    PROVE  /\ After(t, t) /\ After(t, PopFront(t)) /\ After(t, Emptied(t))
           /\ \A e : After(t, Insert(t, e))
           /\ \A k : After(t, Without(t, k))
           /\ \A k, e : After(t, Insert(Without(t, k), e))
<1>1. \A i : IsTable(Drop(t, i)) /\ Drop(t, i).twice = t.twice
  BY DropIs
<1>2. \A k : IsTable(Without(t, k)) /\ Without(t, k).twice = t.twice
  BY <1>1 DEF Without
<1>3. IsTable(PopFront(t)) /\ PopFront(t).twice = t.twice
  BY <1>1 DEF PopFront
<1>4. IsTable(Emptied(t)) /\ Emptied(t).twice = t.twice
  <2>1. \E l, s : Emptied(t) = [t EXCEPT !.list = l, !.slot = s]
    BY DEF Emptied
  <2> QED
    BY <2>1 DEF IsTable
<1>5. \A e : After(t, Insert(t, e))
  BY InsertIs DEF After
<1>6. ASSUME NEW k, NEW e PROVE After(t, Insert(Without(t, k), e))
  BY <1>2, InsertIs DEF After
<1> QED
  BY <1>2, <1>3, <1>4, <1>5, <1>6 DEF After

\* Every step keeps the tables what they are, and a key stored twice is not
\* forgotten.
TabsAfter ==
    /\ After(lirs, lirs') /\ After(non_resident_hirs, non_resident_hirs')
    /\ After(resident_hirs, resident_hirs')

LEMMA TabsStay ==
    ASSUME Tabs, UNCHANGED <<lirs, non_resident_hirs, resident_hirs>>
    PROVE  TabsAfter
BY AfterIs DEF Tabs, TabsAfter

LEMMA DataTabs == Tabs /\ UNCHANGED data => TabsAfter
BY TabsStay DEF data, tables

LEMMA GetTabs ==
    ASSUME Tabs, NEW k, Get(k)
    PROVE  TabsAfter
<1>1. HitLir(k) => TabsAfter
  BY AfterIs DEF HitLir, TabsAfter, Tabs
<1>2. HirInLirs(k) => TabsAfter
  <2> SUFFICES ASSUME HirInLirs(k) PROVE TabsAfter
    OBVIOUS
  <2>1. resident_hirs' \in {resident_hirs, Without(resident_hirs, k)}
    BY DEF HirInLirs
  <2> QED
    BY <2>1, AfterIs DEF HirInLirs, TabsAfter, Tabs
<1>3. HitHirInResidentHirs(k) => TabsAfter
  BY AfterIs DEF HitHirInResidentHirs, TabsAfter, Tabs
<1>4. GetMiss(k) => TabsAfter
  BY TabsStay DEF GetMiss, data, tables
<1> QED
  BY <1>1, <1>2, <1>3, <1>4, DataTabs, Zenon DEF Get, StartGet, GetLirs, Unless

LEMMA EvictTabs ==
    ASSUME Tabs
    PROVE  /\ \A back : EvictLir(back) => TabsAfter
           /\ EvictResidentHir => TabsAfter
<1>1. ASSUME NEW back, EvictLir(back) PROVE TabsAfter
  <2>1. DemoteFront(back) => TabsAfter
    BY AfterIs DEF DemoteFront, TabsAfter, Tabs
  <2> QED
    BY <1>1, <2>1, DataTabs DEF EvictLir, Unless, vars
<1>2. ASSUME EvictResidentHir PROVE TabsAfter
  <2>1. TakeFront => TabsAfter
    BY AfterIs DEF TakeFront, TabsAfter, Tabs
  <2> QED
    BY <1>2, <2>1, DataTabs, TabsStay DEF Unless, EvictResidentHir, tables
<1> QED
  BY <1>1, <1>2

LEMMA LoopTabs ==
    ASSUME Tabs, Prune \/ EjectLir \/ EjectHir \/ LimitStack
    PROVE  TabsAfter
<1>0. UNCHANGED data => TabsAfter
  BY DataTabs
<1>1. PruneFront => TabsAfter
  <2> SUFFICES ASSUME PruneFront PROVE TabsAfter
    OBVIOUS
  <2>1. \E k : /\ lirs' = Without(lirs, k)
               /\ non_resident_hirs' \in {non_resident_hirs, Without(non_resident_hirs, k)}
    BY DEF PruneFront, Forgotten
  <2> QED
    BY <2>1, AfterIs DEF PruneFront, TabsAfter, Tabs
<1>2. Reinsert => TabsAfter
  BY AfterIs DEF Reinsert, TabsAfter, Tabs
<1>3. DropOldest => TabsAfter
  BY AfterIs DEF DropOldest, TabsAfter, Tabs
<1>4. CASE Prune
  BY <1>0, <1>1, <1>4, DataTabs DEF Unless, Prune
<1>5. CASE EjectLir
  BY <1>0, <1>5, EvictTabs DEF EjectLir
<1>6. CASE EjectHir
  BY <1>2, <1>6, EvictTabs, DataTabs DEF Unless, EjectHir
<1>7. CASE LimitStack
  BY <1>0, <1>3, <1>7, DataTabs DEF Unless, LimitStack
<1> QED
  BY <1>4, <1>5, <1>6, <1>7

LEMMA RequestTabs ==
    ASSUME Tabs
    PROVE  /\ \A k : Request(k) => TabsAfter
           /\ RequestLoop => TabsAfter
<1>0. UNCHANGED data => TabsAfter
  BY DataTabs
<1>1. ASSUME NEW k PROVE StartRequest(k) => TabsAfter
  <2>1. RequestLir(k) => TabsAfter
    BY AfterIs DEF RequestLir, TabsAfter, Tabs
  <2> QED
    BY <1>0, <2>1, DataTabs DEF Unless, StartRequest
<1>2. ASSUME NEW k, Request(k) PROVE TabsAfter
  BY <1>1, <1>2, DataTabs DEF Unless, Request
<1>3. ASSUME RequestLoop PROVE TabsAfter
  <2>1. \A k : RequestHir(k) => TabsAfter
    BY AfterIs DEF RequestHir, TabsAfter, Tabs
  <2> QED
    BY <1>3, <2>1, EvictTabs, DataTabs DEF Unless, RequestLoop
<1> QED
  BY <1>2, <1>3

LEMMA NextTabs ==
    ASSUME Tabs, [Next]_vars
    PROVE  Tabs' /\ (Twice => Twice')
<1>1. CASE \E k \in Keys : Get(k)
  BY <1>1, GetTabs DEF TabsAfter, After, Tabs, Twice
<1>2. CASE (\E k \in Keys : Request(k)) \/ RequestLoop
  BY <1>2, RequestTabs DEF TabsAfter, After, Tabs, Twice
<1>3. CASE Prune \/ EjectLir \/ EjectHir \/ LimitStack
  BY <1>3, LoopTabs DEF TabsAfter, After, Tabs, Twice
<1>4. CASE Destroy
  <2>1. ReleaseAll => TabsAfter
    BY AfterIs DEF ReleaseAll, TabsAfter, Tabs
  <2> QED
    BY <1>4, <2>1, DataTabs DEF Unless, Destroy, TabsAfter, After, Tabs, Twice
<1>5. CASE Finish
  <2>1. Collect => TabsAfter
    BY TabsStay DEF Collect, tables
  <2> QED
    BY <1>5, <2>1, DataTabs DEF Unless, Finish, TabsAfter, After, Tabs, Twice
<1>6. CASE SkipRequest \/ Stopped \/ UNCHANGED vars
  <2>1. TabsAfter
    BY <1>6, TabsStay DEF SkipRequest, Stopped, vars, data, tables
  <2> QED
    BY <2>1 DEF TabsAfter, After, Tabs, Twice
<1> QED
  BY <1>1, <1>2, <1>3, <1>4, <1>5, <1>6 DEF Next, Step

\* A step that loses the process does nothing else.
LEMMA LostLists ==
    ASSUME IInv, ListRunning, P!Next, pc' \in P!Lost
    PROVE  UNCHANGED P!data
<1>0. pc \notin P!Lost /\ P!Lost \cap {"idle", "ret", "ask", "destroyed"} = {} /\ P!Lost \cap P!Loops = {}
  BY DEF ListRunning, P!Lost, P!Loops
<1>1. CASE \E k \in Keys : P!Get(k)
  <2>1. PICK k \in Keys : P!Get(k)
    BY <1>1
  <2>2. ~(P!GetMiss(k) \/ P!HitLir(k) \/ P!HirInLirs(k) \/ P!HitHirInResidentHirs(k))
    BY <1>0 DEF P!GetMiss, P!HitLir, P!HirInLirs, P!HitHirInResidentHirs, P!Loops
  <2> QED
    BY <2>1, <2>2, GetSteps
<1>2. CASE \E k \in Keys : P!Request(k)
  <2>1. PICK k \in Keys : P!Request(k)
    BY <1>2
  <2>2. ~P!RequestLir(k) /\ pc' # "request"
    BY <1>0 DEF P!RequestLir, P!Loops
  <2> QED
    BY <2>1, <2>2, RequestSteps
<1>3. CASE P!Prune
  <2>1. ~P!PruneFront
    BY <1>0, <1>3 DEF P!PruneFront, P!Prune
  <2>2. UNCHANGED <<P!data, call>>
    BY <1>3, <2>1 DEF P!Prune, P!Unless
  <2> QED
    BY <2>2
<1>4. ASSUME NEW back, P!EvictLir(back) PROVE UNCHANGED P!data
  <2>1. ~P!DemoteFront(back)
    BY <1>0 DEF P!DemoteFront, P!Loops
  <2>2. UNCHANGED <<P!data, call>> \/ UNCHANGED P!vars
    BY <1>4, <2>1 DEF P!EvictLir, P!Unless
  <2> QED
    BY <2>2 DEF P!vars
<1>5. ASSUME P!EvictResidentHir PROVE UNCHANGED P!data
  <2>1. pc' # pc
    BY <1>0
  <2>2. UNCHANGED <<P!data, call>>
    BY <1>5, <2>1 DEF P!EvictResidentHir, P!TakeFront, P!Unless
  <2> QED
    BY <2>2
<1>6. CASE P!EjectLir \/ P!EjectHir
  <2>1. ~P!Reinsert
    BY <1>0 DEF P!Reinsert
  <2>2. P!EvictLir("eject_lir") \/ P!EvictResidentHir \/ UNCHANGED <<P!data, call>>
    BY <1>6, <2>1 DEF P!EjectLir, P!EjectHir, P!Unless
  <2> QED
    BY <1>4, <1>5, <2>2
<1>7. CASE P!LimitStack
  <2>1. ~P!DropOldest
    BY <1>0 DEF P!DropOldest
  <2>2. UNCHANGED <<P!data, call>>
    BY <1>7, <2>1 DEF P!LimitStack, P!Unless
  <2> QED
    BY <2>2
<1>8. CASE P!RequestLoop
  <2>1. ~P!RequestHir(call.key)
    BY <1>0 DEF P!RequestHir, P!Loops
  <2>2. P!EvictLir("request") \/ P!EvictResidentHir \/ UNCHANGED <<P!data, call>>
    BY <1>8, <2>1 DEF P!RequestLoop, P!Unless
  <2> QED
    BY <1>4, <1>5, <2>2
<1>9. CASE P!Finish \/ P!SkipRequest \/ P!Destroy
  <2>1. ~P!Collect /\ ~P!SkipRequest /\ ~P!ReleaseAll
    BY <1>0 DEF P!Collect, P!SkipRequest, P!ReleaseAll
  <2>2. UNCHANGED <<P!data, call>>
    BY <1>9, <2>1 DEF P!Finish, P!Destroy, P!Unless
  <2> QED
    BY <2>2
<1>10. CASE P!Stopped
  BY <1>10 DEF P!Stopped, P!vars
<1> QED
  BY <1>1, <1>2, <1>3, <1>6, <1>7, <1>8, <1>9, <1>10 DEF P!Next, P!Step

\* Until a key is stored twice a step of DLIRS is one on lists, or loses the
\* process.
LEMMA RunningSame ==
    ASSUME IInv, RefInv, AllListed, Next, ~Twice'
    PROVE  P!Next \/ Loses
<1>1. CASE \E k \in Keys : Get(k)
  BY <1>1, GetSame DEF P!Next
<1>2. CASE \E k \in Keys : Request(k)
  BY <1>2, RequestSame DEF P!Next
<1>3. CASE Prune
  BY <1>3, PruneSame DEF P!Next, P!Step
<1>4. CASE EjectLir \/ EjectHir
  BY <1>4, EjectSame DEF P!Next, P!Step
<1>5. CASE LimitStack \/ RequestLoop
  BY <1>5, LimitStackSame, RequestLoopSame DEF P!Next, P!Step
<1>6. CASE Finish \/ SkipRequest \/ Destroy
  BY <1>6, ClientSame DEF P!Next, P!Step
<1>7. CASE Stopped
  <2>1. P!Stopped
    BY <1>7, PlainSame, UnchangedSame DEF Stopped, P!Stopped
  <2> QED
    BY <2>1 DEF P!Next
<1> QED
  BY <1>1, <1>2, <1>3, <1>4, <1>5, <1>6, <1>7 DEF Next, Step

\* A process that is lost or a cache that is destroyed stays as it is.
LEMMA StoppedSame ==
    ASSUME ~ListRunning, Next
    PROVE  UNCHANGED vars
<1>1. pc \in {"hung", "fatal", "exit", "abort", "destroyed"}
  BY DEF ListRunning, P!Lost
<1> QED
  BY <1>1 DEF Next, Get, Request, Step, Prune, EjectLir,
     EjectHir, LimitStack, RequestLoop, Finish, SkipRequest,
     Destroy, Stopped

\* What the tables and the lists are as long as no key is stored twice.
OnLists == AllListed /\ IInv /\ (ListRunning => RefInv)

LEMMA NextSame ==
    ASSUME OnLists, [Next]_vars, ~Twice'
    PROVE  [P!Next]_(P!vars) \/ Loses
<1>1. CASE ListRunning /\ Next
  BY <1>1, RunningSame DEF OnLists
<1>2. CASE ~ListRunning /\ Next
  BY <1>2, StoppedSame, UnchangedSame
<1>3. CASE UNCHANGED vars
  BY <1>3, UnchangedSame
<1> QED
  BY <1>1, <1>2, <1>3

LEMMA NextOnLists ==
    ASSUME OnLists, OutInv, ListNothingLeaks, [Next]_vars, ~Twice'
    PROVE  OnLists' /\ OutInv' /\ OutStep /\ ListNothingLeaks'
<1>0. Tabs'
  BY NextTabs DEF OnLists, AllListed, Listed, Tabs
<1>1. CASE Loses
  <2>1. pc' \in P!Lost /\ UNCHANGED <<P!data, call>> /\ UNCHANGED evicted
    BY <1>1 DEF Loses, P!Lost, P!data
  <2>2. IInv' /\ ~ListRunning' /\ ListNothingLeaks'
    BY <2>1, LostKeeps, LostStops DEF OnLists, ListNothingLeaks, P!Lost
  <2>3. OutInv' /\ OutStep
    BY <2>1, OutKept
  <2>4. UNCHANGED <<stack, index, resident>>
    BY <2>1 DEF P!data, P!tables
  <2>5. AllListed'
    BY <1>0, <2>4 DEF OnLists, AllListed, Listed, Tabs, stack, index, resident, KeysOnce
  <2> QED
    BY <2>2, <2>3, <2>5 DEF OnLists
<1>2. CASE [P!Next]_(P!vars)
  <2>1. IInv' /\ OutInv' /\ OutStep /\ (ListRunning' => RefInv') /\ ListNothingLeaks'
    BY <1>2, NextIInv, OutNext, NextRef DEF OnLists
  <2>2. \/ KeysOnce(stack') /\ KeysOnce(index') /\ KeysOnce(resident')
        \/ UNCHANGED <<stack, index, resident>>
    <3>1. CASE ListRunning'
      BY <2>1, <3>1 DEF RefInv
    <3>2. CASE ~ListRunning \/ UNCHANGED P!vars
      <4>1. UNCHANGED vars \/ UNCHANGED P!vars
        BY <3>2, StoppedSame
      <4>2. UNCHANGED P!vars
        BY <4>1, UnchangedSame
      <4> QED
        BY <4>2 DEF P!vars, P!data, P!tables
    <3>3. CASE ListRunning /\ P!Next /\ pc' \in P!Lost
      <4>1. UNCHANGED P!data
        BY <3>3, LostLists DEF OnLists
      <4> QED
        BY <4>1 DEF P!data, P!tables
    <3>4. CASE ListRunning /\ P!Next /\ pc' = "destroyed"
      <4>1. P!Destroy \/ P!Stopped
        BY <3>4, NotDestroyed DEF P!Next, OnLists
      <4>2. ~P!Stopped
        BY <3>4 DEF P!Stopped, ListRunning
      <4>3. P!ReleaseAll
        BY <3>4, <4>1, <4>2 DEF P!Destroy, P!Unless
      <4>4. KeysOnce(<< >>)
        BY DEF KeysOnce
      <4> QED
        BY <4>3, <4>4 DEF P!ReleaseAll
    <3> QED
      BY <1>2, <3>1, <3>2, <3>3, <3>4 DEF ListRunning
  <2>3. stack' \in Seq(Entries) /\ index' \in Seq(Entries) /\ resident' \in Seq(Entries)
    BY <2>1 DEF IInv, ListTypeOK
  <2>4. KeysOnce(stack') /\ KeysOnce(index') /\ KeysOnce(resident')
    BY <2>2 DEF OnLists, AllListed, Listed, stack, index, resident
  <2>5. AllListed'
    BY <1>0, <2>3, <2>4 DEF AllListed, Listed, Tabs, stack, index, resident, KeysOnce
  <2> QED
    BY <2>1, <2>5 DEF OnLists
<1> QED
  BY <1>1, <1>2, NextSame

LEMMA InitSame ==
    ASSUME Init
    PROVE  P!Init /\ Tabs /\ ~Twice /\ AllListed
<1>1. /\ lirs = EmptyTable /\ non_resident_hirs = EmptyTable
      /\ resident_hirs = EmptyTable
  BY DEF Init
<1>2. IsTable(EmptyTable) /\ EmptyTable.list = << >> /\ ~EmptyTable.twice
  BY DEF EmptyTable, IsTable
<1>3. P!Init
  BY <1>1, <1>2, PlainSame DEF Init, P!Init, stack, index, resident
<1>4. << >> \in Seq(Entries) /\ KeysOnce(<< >>)
  BY DEF KeysOnce
<1> QED
  BY <1>1, <1>2, <1>3, <1>4 DEF Tabs, AllListed, Listed, Twice

-----------------------------------------------------------------------------
(* What holds of every client                                              *)

\* The inductive invariant of DLIRS.
CoreInv == OnLists /\ OutInv /\ ListNothingLeaks
TableInv == Tabs /\ (~Twice => CoreInv)

LEMMA NextTableInv ==
    ASSUME TableInv, [Next]_vars
    PROVE  TableInv' /\ (~Twice' => OutStep)
<1>1. Tabs' /\ (Twice => Twice')
  BY NextTabs DEF TableInv
<1>2. CASE ~Twice'
  <2>1. CoreInv
    BY <1>1, <1>2 DEF TableInv
  <2>2. CoreInv' /\ OutStep
    BY <1>2, <2>1, NextOnLists DEF CoreInv
  <2> QED
    BY <1>1, <2>2 DEF TableInv
<1> QED
  BY <1>1, <1>2 DEF TableInv

LEMMA InitTableInv == Init => TableInv
<1> SUFFICES ASSUME Init PROVE TableInv
  OBVIOUS
<1>1. P!Init /\ Tabs /\ AllListed
  BY InitSame
<1>2. IInv /\ RefInv
  BY <1>1, InitIInv, InitRef
<1>3. OutInv /\ ListNothingLeaks
  BY <1>1 DEF P!Init, OutInv, ListNothingLeaks
<1> QED
  BY <1>1, <1>2, <1>3 DEF TableInv, CoreInv, OnLists

\* Until a table is given a key that it holds, DLIRS keeps its types, its
\* limits and its capacity, and no object is counted more often than it is
\* referred to.
THEOREM Invariance == Spec => []TableInv
<1>1. Init => TableInv
  BY InitTableInv
<1>2. TableInv /\ [Next]_vars => TableInv'
  BY NextTableInv
<1> QED
  BY <1>1, <1>2, PTL DEF Spec

\* Type correctness, until a key is stored twice: no reference counter of a
\* live process is decremented below zero, for any keys, sizes and client.
THEOREM TypeCorrect == Spec => [](~Twice => TypeOK)
<1>1. TableInv => (~Twice => TypeOK)
  <2> SUFFICES ASSUME TableInv, ~Twice PROVE TypeOK
    OBVIOUS
  <2>1. ListTypeOK
    BY DEF TableInv, CoreInv, OnLists, IInv
  <2>2. \A t \in {lirs, non_resident_hirs, resident_hirs} :
            t.list \in Seq(Entries) /\ t.twice \in BOOLEAN
    BY <2>1 DEF ListTypeOK, TableInv, Tabs, IsTable, stack, index, resident
  <2>3. Loops = P!Loops
    BY DEF Loops, P!Loops
  <2> QED
    BY <2>1, <2>2, <2>3, PlainSame DEF ListTypeOK, TypeOK
<1> QED
  BY <1>1, Invariance, PTL

\* Until a key is stored twice the entries counted never exceed the cache size,
\* between any two steps, for any keys, sizes and client.
THEOREM CapacityRespected == Spec => []WithinCapacity
<1>1. TableInv => WithinCapacity
  BY DEF TableInv, CoreInv, OnLists, IInv, ListWithinCapacity, WithinCapacity
<1> QED
  BY <1>1, Invariance, PTL

\* No DLIRSEntry is left allocated by dlirs_destroy, for any keys, sizes and
\* client, if no key was stored twice before.
THEOREM NothingIsLeaked == Spec => [](~Twice => NothingLeaks)
<1>1. TableInv => (~Twice => NothingLeaks)
  BY PlainSame DEF TableInv, CoreInv, ListNothingLeaks, NothingLeaks
<1> QED
  BY <1>1, Invariance, PTL

\* An entry that an eviction loop puts into the out parameter stays there
\* until the call returns, for any keys, sizes and client, if no key is stored
\* twice.
THEOREM EvictionsHandedOver ==
    Spec =>
        [][~Twice' => (evicted # NULL /\ pc # "ret" => evicted' = evicted)]_vars
<1>1. TableInv /\ [Next]_vars
        => [~Twice' => (evicted # NULL /\ pc # "ret" => evicted' = evicted)]_vars
  BY NextTableInv DEF OutStep
<1> QED
  BY <1>1, Invariance, PTL DEF Spec

-----------------------------------------------------------------------------
(* The limits, whatever the tables hold                                    *)

LimitsInv ==
    /\ hirs_limit \in Int /\ lirs_limit \in Int /\ LimitsPartition
    /\ demoted \in Counters /\ non_resident \in Counters

\* What a step may do to the counters that dlirs_resize divides.
Counted == demoted' \in {demoted, P!Dec(demoted), P!Inc(demoted)}
           /\ non_resident' \in {non_resident, P!Dec(non_resident), P!Inc(non_resident)}
Limited == UNCHANGED P!limits \/ P!Resize(TRUE) \/ P!Resize(FALSE)

LEMMA LimitsStep ==
    ASSUME LimitsInv, Counted, Limited
    PROVE  LimitsInv'
<1>1. demoted' \in Counters /\ non_resident' \in Counters
  BY DecType, IncType DEF LimitsInv, Counted
<1>2. hirs_limit' \in Int /\ lirs_limit' \in Int /\ LimitsPartition'
  BY ResizeLimits DEF LimitsInv, Limited, P!limits, LimitsPartition
<1> QED
  BY <1>1, <1>2 DEF LimitsInv

LEMMA NextLimits ==
    ASSUME LimitsInv, [Next]_vars
    PROVE  LimitsInv'
<1>0. /\ UNCHANGED data => Counted /\ Limited
      /\ UNCHANGED limits => Limited
  BY UnchangedSame DEF P!data, P!counters, Counted, Limited
<1>1. ASSUME NEW k, Get(k) PROVE Counted /\ Limited
  <2>1. HitLir(k) => Counted /\ Limited
    BY <1>0 DEF HitLir, counters, Counted
  <2>2. HirInLirs(k) => Counted /\ Limited
    <3> SUFFICES ASSUME HirInLirs(k) PROVE Counted /\ Limited
      OBVIOUS
    <3>1. Limited
      BY <1>0, PlainSame DEF HirInLirs, Limited
    <3>2. Counted
      BY PlainSame DEF HirInLirs, Counted
    <3> QED
      BY <3>1, <3>2
  <2>3. HitHirInResidentHirs(k) => Counted /\ Limited
    <3> SUFFICES ASSUME HitHirInResidentHirs(k) PROVE Counted /\ Limited
      OBVIOUS
    <3>1. Limited
      BY <1>0, PlainSame DEF HitHirInResidentHirs, Limited
    <3>2. Counted
      BY PlainSame DEF HitHirInResidentHirs, Counted
    <3> QED
      BY <3>1, <3>2
  <2>4. GetMiss(k) => Counted /\ Limited
    BY <1>0 DEF GetMiss
  <2> QED
    BY <1>0, <1>1, <2>1, <2>2, <2>3, <2>4, Zenon
    DEF Get, StartGet, GetLirs, Unless
<1>2. ASSUME NEW back, EvictLir(back) PROVE Counted /\ Limited
  <2>1. DemoteFront(back) => Counted /\ Limited
    BY <1>0, PlainSame DEF DemoteFront, Counted
  <2> QED
    BY <1>0, <1>2, <2>1 DEF EvictLir, Unless, vars
<1>3. ASSUME EvictResidentHir PROVE Counted /\ Limited
  <2>1. TakeFront => Counted /\ Limited
    BY <1>0, PlainSame DEF TakeFront, P!LeftResidentHirs, Counted
  <2>2. evicted' = NULL /\ UNCHANGED <<tables, limits, counters, entry, call, pc>>
          => Counted /\ Limited
    BY <1>0 DEF counters, Counted
  <2> QED
    BY <1>0, <1>3, <2>1, <2>2 DEF EvictResidentHir, Unless
<1>4. ASSUME Prune PROVE Counted /\ Limited
  <2>1. PruneFront => Counted /\ Limited
    BY <1>0, PlainSame DEF PruneFront, P!LeftStack, Counted
  <2> QED
    BY <1>0, <1>4, <2>1 DEF Prune, Unless
<1>5. ASSUME EjectLir \/ EjectHir PROVE Counted /\ Limited
  <2>1. Reinsert => Counted /\ Limited
    BY <1>0 DEF Reinsert, Counted
  <2> QED
    BY <1>0, <1>2, <1>3, <1>5, <2>1 DEF EjectLir, EjectHir, Unless
<1>6. ASSUME LimitStack PROVE Counted /\ Limited
  <2>1. DropOldest => Counted /\ Limited
    BY <1>0, PlainSame DEF DropOldest, P!LeftStack, Counted
  <2> QED
    BY <1>0, <1>6, <2>1 DEF LimitStack, Unless
<1>7. ASSUME NEW k, Request(k) PROVE Counted /\ Limited
  <2>1. RequestLir(k) => Counted /\ Limited
    BY <1>0 DEF RequestLir, Counted
  <2>2. StartRequest(k) => Counted /\ Limited
    BY <1>0, <2>1 DEF StartRequest, Unless
  <2> QED
    BY <1>0, <1>7, <2>2 DEF Request, Unless
<1>8. ASSUME RequestLoop PROVE Counted /\ Limited
  <2>1. \A k : RequestHir(k) => Counted /\ Limited
    BY <1>0 DEF RequestHir, Counted
  <2> QED
    BY <1>0, <1>2, <1>3, <1>8, <2>1 DEF RequestLoop, Unless
<1>9. ASSUME Finish \/ SkipRequest \/ Destroy \/ Stopped
      PROVE  Counted /\ Limited
  <2>1. Collect \/ ReleaseAll => Counted /\ Limited
    BY <1>0 DEF Collect, ReleaseAll, counters, Counted
  <2> QED
    BY <1>0, <1>9, <2>1
    DEF Finish, SkipRequest, Destroy, Stopped, Unless, vars
<1>10. Counted /\ Limited
  BY <1>0, <1>1, <1>3, <1>4, <1>5, <1>6, <1>7, <1>8, <1>9 DEF Next, Step, vars
<1> QED
  BY <1>10, LimitsStep

\* dlirs_resize never gives one class the whole cache, for any keys, sizes and
\* client, also when a key has been stored twice.
THEOREM LimitsArePartition == Spec => []LimitsPartition
<1>1. Init => LimitsInv
  <2> SUFFICES ASSUME Init PROVE LimitsInv
    OBVIOUS
  <2>1. IInv
    BY InitSame, InitIInv
  <2> QED
    BY <2>1 DEF IInv, ListTypeOK, LimitsInv
<1>2. LimitsInv /\ [Next]_vars => LimitsInv'
  BY NextLimits
<1>3. LimitsInv => LimitsPartition
  BY DEF LimitsInv, LimitsPartition
<1> QED
  BY <1>1, <1>2, <1>3, PTL DEF Spec

-----------------------------------------------------------------------------
(* What holds of the client that asks again                                *)

\* What holds of the client that asks again, until a key is stored twice.
AskingInv ==
    ~Twice => (ListRunning => ExactInv) /\ (ListRunning => Carried) /\ ListNoFatal

LEMMA NextAsking ==
    ASSUME Recheck, TableInv, AskingInv, [Next]_vars
    PROVE  AskingInv' /\ (~Twice' => BoundedStep)
<1>1. SUFFICES ASSUME ~Twice'
      PROVE  (ListRunning' => ExactInv') /\ (ListRunning' => Carried') /\ ListNoFatal' /\ BoundedStep
  BY DEF AskingInv
<1>2. ~Twice
  BY <1>1, NextTabs DEF TableInv
<1>3. CoreInv /\ (ListRunning => ExactInv) /\ (ListRunning => Carried) /\ ListNoFatal
  BY <1>2 DEF TableInv, AskingInv
<1>4. CoreInv'
  BY <1>1, NextTableInv DEF TableInv
<1>5. CASE Loses
  <2>1. pc' \in P!Lost /\ UNCHANGED <<P!data, call>> /\ ListNoFatal'
    BY <1>5 DEF Loses, P!Lost, ListNoFatal
  <2> QED
    BY <2>1, LostStops, LostMaps
<1>6. CASE [P!Next]_(P!vars)
  <2>1. IInv /\ OutInv /\ IInv'
    BY <1>3, <1>4 DEF CoreInv, OnLists
  <2>2. (ListRunning' => ExactInv') /\ ListNoFatal'
    BY <1>3, <1>6, <2>1, NextExact, NextNotFatal
  <2> QED
    BY <1>3, <1>6, <2>1, <2>2, NextMaps
<1> QED
  BY <1>1, <1>3, <1>5, <1>6, NextSame DEF CoreInv

\* For that client, until a key is stored twice, the tables hold what the
\* counters count and the loops need.
THEOREM Exactness == Recheck => (Spec => [](TableInv /\ AskingInv))
<1> SUFFICES ASSUME Recheck PROVE Spec => [](TableInv /\ AskingInv)
  OBVIOUS
<1>1. Init => TableInv /\ AskingInv
  <2> SUFFICES ASSUME Init PROVE TableInv /\ AskingInv
    OBVIOUS
  <2>1. P!Init
    BY InitSame
  <2>2. ExactInv /\ Carried /\ ListNoFatal
    BY <2>1, InitExact, InitMaps DEF P!Init, ListNoFatal
  <2> QED
    BY <2>2, InitTableInv DEF AskingInv
<1>2. TableInv /\ AskingInv /\ [Next]_vars => (TableInv /\ AskingInv)'
  BY NextTableInv, NextAsking
<1> QED
  BY <1>1, <1>2, PTL DEF Spec

\* Running of DLIRS says also that no key has been stored twice.
LEMMA NotLostSame == Running <=> ListRunning /\ ~Twice
BY PlainSame DEF Running, ListRunning

LEMMA AskingGives ==
    ASSUME TableInv, AskingInv, ~Twice
    PROVE  IInv /\ (ListRunning => ExactInv) /\ ListNoFatal
BY DEF TableInv, AskingInv, CoreInv, OnLists

\* With a client that asks again the counters of the cache are, between any
\* two steps of any call, the numbers of entries they stand for, until a key
\* is stored twice.
THEOREM CountersAreExact == Recheck => (Spec => []CountersExact)
<1> SUFFICES ASSUME Recheck PROVE Spec => []CountersExact
  OBVIOUS
<1>1. TableInv /\ AskingInv => CountersExact
  BY AskingGives, ExactCounters, NotLostSame DEF ListCountersExact, CountersExact
<1> QED
  BY <1>1, Exactness, PTL

\* The same client does not break the stack before a key is stored twice:
\* non_resident_hirs is the list of its HIR entries in stack order and, between
\* calls, the front is LIR.
THEOREM StackStaysExact == Recheck => (Spec => []StackExact)
<1> SUFFICES ASSUME Recheck PROVE Spec => []StackExact
  OBVIOUS
<1>1. TableInv /\ AskingInv => StackExact
  <2> SUFFICES ASSUME TableInv, AskingInv, ~Twice PROVE StackExact
    BY NotLostSame DEF StackExact, StackAgrees, BottomIsLir
  <2>1. ListStackAgrees /\ ListBottomIsLir
    BY AskingGives, ExactStack DEF ListStackExact
  <2> QED
    BY <2>1, NotLostSame
    DEF StackExact, StackAgrees, ListStackAgrees, BottomIsLir, ListBottomIsLir
<1> QED
  BY <1>1, Exactness, PTL

\* Nor does it make the stack longer than twice the cache between two calls,
\* however many keys have been evicted and are still remembered.
THEOREM StackIsBounded == Recheck => (Spec => []StackBounded)
<1> SUFFICES ASSUME Recheck PROVE Spec => []StackBounded
  OBVIOUS
<1>1. TableInv /\ AskingInv => StackBounded
  BY AskingGives, ExactBound, NotLostSame DEF ListStackBounded, StackBounded
<1> QED
  BY <1>1, Exactness, PTL

\* Every get of that client answers an entry if and only if dlirs_contains
\* would have said yes when it was called, until a key is stored twice.
THEOREM AnswersAgree == Recheck => (Spec => []GetAnswersContains)
<1> SUFFICES ASSUME Recheck PROVE Spec => []GetAnswersContains
  OBVIOUS
<1>1. TableInv /\ AskingInv => GetAnswersContains
  BY AskingGives, ExactAnswers DEF ListGetAnswersContains, GetAnswersContains
<1> QED
  BY <1>1, Exactness, PTL

\* That client reaches no FATAL line before a key is stored twice.
THEOREM NeverFatal == Recheck => (Spec => []NoFatal)
<1> SUFFICES ASSUME Recheck PROVE Spec => []NoFatal
  OBVIOUS
<1>1. TableInv /\ AskingInv => NoFatal
  BY AskingGives DEF ListNoFatal, NoFatal
<1> QED
  BY <1>1, Exactness, PTL

\* The keys that are resident, on lists.
LEMMA ResidentSame == AllListed => Resident = ListResident
BY ContainsSame DEF Resident, ListResident

LEMMA BoundedSame ==
    ASSUME AllListed, AllListed', BoundedStep
    PROVE  [Bounded!Next]_(Bounded!vars)
<1>1. Resident = ListResident
  BY ResidentSame
<1>2. Resident' = ListResident'
  <2>1. (AllListed => Resident = ListResident)'
    BY ResidentSame, PTL
  <2> QED
    BY <2>1
<1>3. \A S : Bounded!Cardinality(S) = ListBounded!Cardinality(S)
  BY DEF Bounded!Cardinality, ListBounded!Cardinality
<1> QED
  BY <1>1, <1>2, <1>3
  DEF BoundedStep, ListBounded!Next, ListBounded!vars, ListBounded!Admit,
      ListBounded!Evict, ListBounded!Collect, ListBounded!Clear, Bounded!Next, Bounded!vars,
      Bounded!Admit, Bounded!Evict, Bounded!Collect, Bounded!Clear

\* For that client every step of DLIRS before a key is stored twice is a step
\* of the bounded cache, for any keys, sizes and initial ratio.
THEOREM CacheIsBounded == Recheck => (Spec => ImplementsBoundedCache)
<1> SUFFICES ASSUME Recheck PROVE Spec => ImplementsBoundedCache
  OBVIOUS
<1>1. Init => Bounded!Init
  <2> SUFFICES ASSUME Init PROVE Bounded!Init
    OBVIOUS
  <2>1. ListBounded!Init /\ Resident = ListResident
    BY InitSame, InitMaps, ResidentSame
  <2> QED
    BY <2>1 DEF ListBounded!Init, Bounded!Init
<1>2. TableInv /\ AskingInv /\ TableInv' /\ [Next]_vars
        => [~Twice' => [Bounded!Next]_(Bounded!vars)]_vars
  <2> SUFFICES ASSUME TableInv, AskingInv, TableInv', [Next]_vars, ~Twice'
               PROVE  [Bounded!Next]_(Bounded!vars)
    OBVIOUS
  <2>1. ~Twice
    BY NextTabs DEF TableInv
  <2>2. AllListed /\ AllListed'
    BY <2>1 DEF TableInv, CoreInv, OnLists
  <2> QED
    BY <2>2, NextAsking, BoundedSame
<1> QED
  BY <1>1, <1>2, Exactness, PTL DEF Spec, ImplementsBoundedCache
=============================================================================
