-------------------------- MODULE RandomCache_proof --------------------------
(***************************************************************************)
(* For any keys, hash function and sizes: the random-replacement backing   *)
(* answers what its client requested and did not evict, and nothing     *)
(* twice.                                                                  *)
(***************************************************************************)
EXTENDS RandomCache, HashTable_proof

\* The nodes hold what the client wrote.
WrittenInv ==
    /\ written \in [Keys -> Values \cup {NULL}]
    /\ \A n \in LiveNodes(ht) : /\ written[ht.node[n].key] # NULL
                                /\ written[ht.node[n].key] = ht.node[n].ptr
    /\ \A k \in Keys : written[k] # NULL => \E n \in LiveNodes(ht) : ht.node[n].key = k

\* The key to be requested next is not in the table: main.c requests a key
\* only after a get has missed it, and nothing else is stored in between.
MissedInv ==
    missed # NULL => missed \in Keys /\ \A n \in LiveNodes(ht) : ht.node[n].key # missed

IInv ==
    /\ TableInv(ht) /\ ht.count <= CacheSize
    /\ WrittenInv /\ MissedInv
    /\ released = {}
    /\ ht.fault = "destroyed" => LiveNodes(ht) = {}

LEMMA KeyOfLive ==
    ASSUME NEW t, TableInv(t), NEW n \in LiveNodes(t) PROVE t.node[n].key \in Keys
BY DEF TableInv, Table, Node, LiveNodes, Live

LEMMA InitIInv == Init => IInv
<1> SUFFICES ASSUME Init PROVE IInv
  OBVIOUS
<1>1. TableInv(ht) /\ LiveNodes(ht) = {}
  BY CreateInv DEF Init
<1>2. ht.count <= CacheSize
  BY CacheSizeAssumption DEF Init, Create
<1> QED
  BY <1>1, <1>2 DEF Init, IInv, WrittenInv, MissedInv

\* A step that leaves the nodes as they are.
LEMMA SameKeeps ==
    ASSUME IInv, TableInv(ht'), SameTable(ht, ht'), UNCHANGED <<written, released>>,
           missed' # NULL => missed' = missed \/ (missed' \in Keys /\ ~Found(ht, missed'))
    PROVE  IInv'
<1>1. LiveNodes(ht') = LiveNodes(ht)
  BY SameLive
<1>2. \A n \in LiveNodes(ht) : ht'.node[n].key = ht.node[n].key /\ ht'.node[n].ptr = ht.node[n].ptr
  BY DEF SameTable, SameContent, LiveNodes
<1>3. WrittenInv'
  BY <1>1, <1>2 DEF IInv, WrittenInv
<1>4. MissedInv'
  BY <1>1, <1>2, FoundLive DEF IInv, MissedInv
<1> QED
  BY <1>1, <1>3, <1>4 DEF IInv, SameTable

LEMMA GetKeeps == ASSUME IInv, NEW k \in Keys, RcGet(k) PROVE IInv'
<1>1. SameTable(ht, ht') /\ TableInv(ht')
  BY DEF RcGet, SameTable, SameContent, IInv
<1>2. Found(ht, k) => Answer(k) # NULL
  BY FoundLive, NullNode DEF Answer, IInv, LiveNodes
<1>3. Answer(k) = NULL => ~Found(ht, k)
  BY <1>2
<1> QED
  BY <1>1, <1>3, SameKeeps DEF RcGet

LEMMA SkipKeeps == ASSUME IInv, SkipRequest PROVE IInv'
<1>1. SameTable(ht, ht') /\ TableInv(ht')
  BY DEF SkipRequest, SameTable, SameContent, IInv
<1> QED
  BY <1>1, SameKeeps DEF SkipRequest

\* Losing the process changes no node.
LEMMA FaultKeeps ==
    ASSUME IInv, NEW f \in Faults \ {"destroyed"}, ht' = [ht EXCEPT !.fault = f],
           UNCHANGED <<written, released>>, missed' = NULL
    PROVE  IInv'
<1>1. /\ ht'.node = ht.node /\ ht'.items = ht.items /\ ht'.size = ht.size
      /\ ht'.count = ht.count /\ ht'.fault = f /\ ht' \in Table(ht.size)
  BY DEF IInv, TableInv, Table
<1>2. LiveNodes(ht') = LiveNodes(ht)
  BY <1>1 DEF LiveNodes, Live
<1>3. TableInv(ht')
  BY <1>1, <1>2 DEF IInv, TableInv, SlotsExact, IndexesExact, KeysOnce, Live
<1> QED
  BY <1>1, <1>2, <1>3 DEF IInv, WrittenInv, MissedInv

\* Only the insertion of a key that is there overrides a value.
LEMMA NewOverridesNothing ==
    ASSUME NEW k, NEW v, HtInsert(ht, k, v).result # 1
    PROVE  HtInsert(ht, k, v).overridden = NULL
<1>1. \A t : Put(t, k, v).result # 1 => Put(t, k, v).overridden = NULL
  BY DEF Put, Failed
<1> QED
  BY <1>1 DEF HtInsert, Failed

LEMMA RequestKeeps ==
    ASSUME IInv, NEW k \in Keys, NEW v \in Values, RcRequest(k, v) PROVE IInv'
<1>1. CASE ht.count >= CacheSize
  <2>1. ht' = EvictRandom(ht) /\ UNCHANGED <<written, released>> /\ missed' = NULL
    BY <1>1 DEF RcRequest
  <2>2. \E f \in {"abort", "hung"} : ht' = [ht EXCEPT !.fault = f]
    BY <2>1 DEF EvictRandom
  <2> QED
    BY <2>1, <2>2, FaultKeeps DEF Faults
<1>2. CASE ~(ht.count >= CacheSize)
  <2> DEFINE r == HtInsert(ht, k, v)
  <2>1. /\ ht' = r.table /\ missed' = NULL
        /\ written' = IF r.result = -1 THEN written ELSE [written EXCEPT ![k] = v]
        /\ released' = released \cup ({r.overridden} \ {NULL})
    BY <1>2 DEF RcRequest
  <2>2. TableInv(ht) /\ ~Found(ht, k) /\ \A n \in LiveNodes(ht) : ht.node[n].key # k
    BY FoundLive, NullNode DEF RcRequest, IInv, MissedInv
  <2>3. /\ TableInv(r.table)
        /\ \/ r.result = -1 /\ SameTable(ht, r.table)
           \/ r.result = 0 /\ r.entry \in FreeNodes(ht) /\ Added(ht, r.table, r.entry, k, v)
    BY <2>2, InsertKeeps
  <2>6. UNCHANGED released
    BY <2>1, <2>3, NewOverridesNothing
  <2> HIDE DEF r
  <2>4. CASE r.result = -1
    BY <2>1, <2>3, <2>4, <2>6, SameKeeps
  <2>5. CASE r.result = 0
    <3> DEFINE n == r.entry
    <3>1. TableInv(ht') /\ Added(ht, ht', n, k, v) /\ written' = [written EXCEPT ![k] = v]
      BY <2>1, <2>3, <2>5
    <3> HIDE DEF n
    <3>2. /\ LiveNodes(ht') = LiveNodes(ht) \cup {n} /\ ht'.count = ht.count + 1
          /\ ht'.node[n].key = k /\ ht'.node[n].ptr = v
          /\ \A m \in LiveNodes(ht) : /\ ht'.node[m].key = ht.node[m].key
                                      /\ ht'.node[m].ptr = ht.node[m].ptr
      BY <3>1 DEF Added, SameContent, LiveNodes
    <3>3. written'[k] = v /\ v # NULL /\ \A x \in Keys : x # k => written'[x] = written[x]
      BY <3>1, TableNullAssumption DEF IInv, WrittenInv
    <3>4. written' \in [Keys -> Values \cup {NULL}]
      BY <3>1 DEF IInv, WrittenInv
    <3>5. \A m \in LiveNodes(ht) : ht.node[m].key \in Keys /\ ht.node[m].key # k
      BY <2>2, KeyOfLive
    <3>6. WrittenInv'
      BY <3>2, <3>3, <3>4, <3>5 DEF IInv, WrittenInv
    <3>7. ht'.count <= CacheSize
      BY <1>2, <3>2, CacheSizeAssumption DEF IInv, TableInv, Table
    <3>8. MissedInv' /\ ht'.fault # "destroyed"
      BY <2>1, <3>1 DEF MissedInv, Added, RcRequest
    <3> QED
      BY <2>6, <3>1, <3>6, <3>7, <3>8 DEF IInv
  <2> QED
    BY <2>3, <2>4, <2>5
<1> QED
  BY <1>1, <1>2

LEMMA EvictKeeps == ASSUME IInv, NEW k \in Keys, RcEvictByKey(k) PROVE IInv'
<1>1. CASE ~Found(ht, k)
  <2>1. \A n \in LiveNodes(ht) : ht.node[n].key # k
    BY <1>1, FoundLive DEF IInv
  <2>2. written' = written
    <3>1. written[k] = NULL
      BY <2>1 DEF IInv, WrittenInv
    <3> QED
      BY <3>1 DEF RcEvictByKey, IInv, WrittenInv
  <2>3. SameTable(ht, ht') /\ TableInv(ht') /\ UNCHANGED <<missed, released>>
    BY <1>1 DEF RcEvictByKey, SameTable, SameContent, IInv
  <2> QED
    BY <2>2, <2>3, SameKeeps
<1>2. CASE Found(ht, k)
  <2> DEFINE n == HitNode(ht, k)
  <2>1. /\ n \in LiveNodes(ht) /\ ht.node[n].key = k /\ ht.node[n].index = HitSlot(ht, k)
    BY <1>2, FoundLive DEF IInv
  <2>2. /\ ht' = Deleted(ht, HitSlot(ht, k)).table
        /\ written' = [written EXCEPT ![k] = NULL] /\ missed' = NULL /\ UNCHANGED released
    BY <1>2 DEF RcEvictByKey
  <2> HIDE DEF n
  <2>3. /\ TableInv(ht') /\ LiveNodes(ht') = LiveNodes(ht) \ {n}
        /\ \A m \in Nodes \ {n} : ht'.node[m] = ht.node[m]
        /\ ht'.count = ht.count - 1 /\ ht'.fault = ht.fault
    BY <2>1, <2>2, DeleteKeeps DEF IInv
  <2>4. \A m \in LiveNodes(ht') : /\ m \in LiveNodes(ht) /\ ht'.node[m] = ht.node[m]
                                  /\ ht.node[m].key \in Keys /\ ht.node[m].key # k
    BY <2>1, <2>3, KeyOfLive DEF IInv, TableInv, KeysOnce, LiveNodes
  <2>5. /\ written'[k] = NULL /\ written' \in [Keys -> Values \cup {NULL}]
        /\ \A x \in Keys : x # k => written'[x] = written[x]
    BY <2>2 DEF IInv, WrittenInv
  <2>6. WrittenInv'
    <3>1. ASSUME NEW x \in Keys, written'[x] # NULL
          PROVE  \E m \in LiveNodes(ht') : ht'.node[m].key = x
      <4>1. x # k /\ written[x] # NULL
        BY <2>5, <3>1
      <4>2. PICK m \in LiveNodes(ht) : ht.node[m].key = x
        BY <4>1 DEF IInv, WrittenInv
      <4> QED
        BY <2>1, <2>3, <2>4, <4>1, <4>2
    <3> QED
      BY <2>4, <2>5, <3>1 DEF IInv, WrittenInv
  <2>7. ht'.count <= CacheSize
    BY <2>3, CacheSizeAssumption DEF IInv, TableInv, Table
  <2> QED
    BY <2>2, <2>3, <2>6, <2>7 DEF IInv, MissedInv
<1> QED
  BY <1>1, <1>2

LEMMA DestroyKeeps == ASSUME IInv, RcDestroy PROVE IInv'
<1> DEFINE rest == [n \in Nodes |->
                      IF \E j \in DOMAIN ht.items : ht.items[j] = n THEN Free ELSE ht.node[n]]
<1>1. /\ ht' = [Create EXCEPT !.fault = "destroyed", !.node = rest]
      /\ written' = [k \in Keys |-> NULL] /\ missed' = NULL /\ UNCHANGED released
  BY DEF RcDestroy
<1>2. rest \in [Nodes -> Node] /\ \A n \in Nodes : rest[n].key = NULL
  BY RestFree DEF IInv
<1> HIDE DEF rest
<1>3. Create \in Table(InitSize)
  BY CreateInv DEF TableInv, Create
<1>4. /\ ht' \in Table(InitSize) /\ ht'.node = rest
      /\ ht'.items = Create.items /\ ht'.count = Create.count /\ ht'.fault = "destroyed"
  BY <1>1, <1>2, <1>3 DEF Table, Faults
<1>5. ht'.count = 0
  BY <1>4 DEF Create
<1>6. TableInv(ht') /\ LiveNodes(ht') = {}
  BY <1>2, <1>4, <1>5, EmptyInv
<1>7. ht'.count <= CacheSize
  BY <1>5, CacheSizeAssumption
<1> QED
  BY <1>1, <1>6, <1>7 DEF IInv, WrittenInv, MissedInv

LEMMA NextIInv == IInv /\ [Next]_vars => IInv'
<1> SUFFICES ASSUME IInv, [Next]_vars PROVE IInv'
  OBVIOUS
<1>1. CASE UNCHANGED vars
  BY <1>1 DEF vars, IInv, WrittenInv, MissedInv
<1>2. CASE Next
  BY <1>1, <1>2, GetKeeps, SkipKeeps, RequestKeeps, EvictKeeps, DestroyKeeps DEF Next, Lost
<1> QED
  BY <1>1, <1>2

\* The keys found are as many as the nodes.
LEMMA FoundCount ==
    ASSUME NEW t, TableInv(t) PROVE Cardinality({k \in Keys : Found(t, k)}) = t.count
<1> DEFINE S == LiveNodes(t)
           T == {k \in Keys : Found(t, k)}
           f == [n \in S |-> t.node[n].key]
<1>1. f \in Surjection(S, T)
  BY FoundLive, KeyOfLive DEF Surjection
<1>2. f \in Injection(S, T)
  <2>1. \A m, n \in S : f[m] = f[n] => m = n
    BY DEF TableInv, KeysOnce
  <2>2. f \in [S -> T]
    BY <1>1 DEF Surjection
  <2> HIDE DEF f, S, T
  <2> QED
    BY <2>1, <2>2 DEF Injection, IsInjective
<1>3. IsFiniteSet(S) /\ t.count = Cardinality(S)
  BY LiveFinite DEF LiveNodes, TableInv
<1> HIDE DEF S, T, f
<1>4. Cardinality(T) = Cardinality(S)
  BY <1>1, <1>2, <1>3, FS_Surjection
<1> QED
  BY <1>3, <1>4 DEF T

\* The nodes hold what was written, so a get answers the node that does.
LEMMA GetIsExact == ASSUME IInv PROVE GetExact
<1> SUFFICES ASSUME NEW k \in Keys
             PROVE  IF written[k] = NULL THEN Answer(k) = NULL
                    ELSE /\ Answer(k) \in Nodes
                         /\ ht.node[Answer(k)].key = k
                         /\ ht.node[Answer(k)].ptr = written[k]
  BY DEF GetExact
<1>1. CASE Found(ht, k)
  <2>1. HitNode(ht, k) \in LiveNodes(ht) /\ ht.node[HitNode(ht, k)].key = k
    BY <1>1, FoundLive DEF IInv
  <2>2. ht.node[HitNode(ht, k)].ptr = written[k]
    BY <2>1 DEF IInv, WrittenInv
  <2>3. written[k] # NULL
    BY <2>1 DEF IInv, WrittenInv
  <2> QED
    BY <1>1, <2>1, <2>2, <2>3 DEF Answer, LiveNodes
<1>2. CASE ~Found(ht, k)
  BY <1>2, FoundLive DEF Answer, IInv, WrittenInv
<1> QED
  BY <1>1, <1>2

\* rc_get answers the allocated node of the key with the value last stored in
\* it, and NULL for a key with nothing stored or whose entry was evicted; no
\* request destroys a value, the number of entries is counted and stays within
\* the cache size, and rc_destroy frees every node: for any hash function, any
\* sizes, and any order of requests made or skipped, evictions and resizes.
THEOREM TableIsExact == Spec => []TableExact
<1>1. IInv => TableExact
  <2> SUFFICES ASSUME IInv PROVE TableExact
    OBVIOUS
  <2>1. GetExact
    BY GetIsExact
  <2>2. ht.count = Cardinality({k \in Keys : Found(ht, k)})
    BY FoundCount DEF IInv
  <2> QED
    BY <2>1, <2>2 DEF IInv, TableExact, Bounded, LiveNodes
<1> QED
  BY <1>1, InitIInv, NextIInv, PTL DEF Spec
=============================================================================
