--------------------------- MODULE HashTable_proof ---------------------------
(***************************************************************************)
(* What the functions of cache_hashtable.c keep, for any hash function,    *)
(* any keys and any sizes: every node is in the slot its index names, no   *)
(* key has two nodes, and a probe always meets an empty slot.              *)
(***************************************************************************)
EXTENDS HashTable, Induction, FiniteSetTheorems

Node == [key : Keys \cup {NULL}, ptr : Values \cup {NULL}, prev : Nodes \cup {NULL},
         next : Nodes \cup {NULL}, index : Nat]

Faults == {"none", "abort", "hung", "exit", "destroyed"}

Table(size) ==
    [items : [0 .. size - 1 -> Nodes \cup {NULL}], size : {size}, count : Nat,
     head : Nodes \cup {NULL}, tail : Nodes \cup {NULL}, node : [Nodes -> Node], fault : Faults]

LiveNodes(t) == {n \in Nodes : Live(t, n)}

SlotsExact(t) ==
    \A j \in 0 .. t.size - 1 :
        t.items[j] # NULL => Live(t, t.items[j]) /\ t.node[t.items[j]].index = j

IndexesExact(t) ==
    \A n \in LiveNodes(t) :
        t.node[n].index \in 0 .. t.size - 1 /\ t.items[t.node[n].index] = n

KeysOnce(t) == \A m, n \in LiveNodes(t) : t.node[m].key = t.node[n].key => m = n

\* What holds between any two operations on the table.
TableInv(t) ==
    /\ t.size \in Nat \ {0} /\ t \in Table(t.size)
    /\ SlotsExact(t)
    /\ IndexesExact(t)
    /\ KeysOnce(t)
    /\ t.count = Cardinality(LiveNodes(t)) /\ t.count <= t.size \div 2

LEMMA NullNode == NULL \notin Nodes /\ NULL \notin Keys
BY TableNullAssumption, NodesAssumption DEF Nodes

LEMMA LiveFinite ==
    ASSUME NEW N \in SUBSET Nodes
    PROVE  IsFiniteSet(N) /\ Cardinality(N) \in Nat
<1>1. IsFiniteSet(Nodes)
  BY NodesAssumption, FS_Interval DEF Nodes
<1> QED
  BY <1>1, FS_Subset, FS_CardinalityType

-----------------------------------------------------------------------------
(* Probing                                                                 *)

\* What a probe loop needs of the array it runs over.
Probed(t) ==
    /\ t.size \in Nat \ {0}
    /\ t.items \in [0 .. t.size - 1 -> Nodes \cup {NULL}]

LEMMA ProbeIn ==
    ASSUME NEW t, Probed(t), NEW k \in Keys, NEW i \in Nat
    PROVE  Probe(t, k, i) \in 0 .. t.size - 1
<1>1. Hash[k] + i \in Nat
  BY HashAssumption
<1> QED
  BY <1>1 DEF Probe, Probed

LEMMA ProbeOnto ==
    ASSUME NEW t, Probed(t), NEW k \in Keys, NEW j \in 0 .. t.size - 1
    PROVE  \E i \in 0 .. t.size - 1 : Probe(t, k, i) = j
<1>1. Hash[k] \in Nat
  BY HashAssumption
<1> QED
  BY <1>1, ModOnto DEF Probe, Probed

\* A lookup finds a key wherever in the array it is, holes before it or not.
LEMMA FoundIff ==
    ASSUME NEW t, Probed(t), NEW k \in Keys
    PROVE  Found(t, k) <=> \E j \in 0 .. t.size - 1 : Match(t, k, j)
<1>1. ASSUME Found(t, k) PROVE \E j \in 0 .. t.size - 1 : Match(t, k, j)
  <2>1. PICK i \in 0 .. t.size - 1 : Match(t, k, Probe(t, k, i))
    BY <1>1 DEF Found, Hits
  <2>2. i \in Nat
    BY DEF Probed
  <2> QED
    BY <2>1, <2>2, ProbeIn
<1>2. ASSUME NEW j \in 0 .. t.size - 1, Match(t, k, j) PROVE Found(t, k)
  BY <1>2, ProbeOnto DEF Found, Hits
<1> QED
  BY <1>1, <1>2

LEMMA HitSlotIs ==
    ASSUME NEW t, Probed(t), NEW k \in Keys, Found(t, k)
    PROVE  HitSlot(t, k) \in 0 .. t.size - 1 /\ Match(t, k, HitSlot(t, k))
<1>1. Hits(t, k) # {} /\ Hits(t, k) \in SUBSET Nat
  BY DEF Found, Hits, Probed
<1>2. Min(Hits(t, k)) \in Hits(t, k)
  BY <1>1, MinIs
<1>3. Min(Hits(t, k)) \in Nat /\ Match(t, k, Probe(t, k, Min(Hits(t, k))))
  BY <1>1, <1>2 DEF Hits
<1> QED
  BY <1>3, ProbeIn DEF HitSlot

\* The insertion loop of an array with a hole stops at a hole or at the key.
LEMMA InsertSlotIs ==
    ASSUME NEW t, Probed(t), NEW k \in Keys,
           \E j \in 0 .. t.size - 1 : t.items[j] = NULL
    PROVE  /\ InsertSlot(t, k) \in 0 .. t.size - 1
           /\ t.items[InsertSlot(t, k)] = NULL \/ Match(t, k, InsertSlot(t, k))
<1>1. PICK j \in 0 .. t.size - 1 : t.items[j] = NULL
  OBVIOUS
<1>2. PICK i \in 0 .. t.size - 1 : Probe(t, k, i) = j
  BY ProbeOnto
<1>3. Stops(t, k) # {} /\ Stops(t, k) \in SUBSET Nat
  BY <1>1, <1>2 DEF Stops, Probed
<1>4. Min(Stops(t, k)) \in Stops(t, k)
  BY <1>3, MinIs
<1>5. /\ Min(Stops(t, k)) \in Nat
      /\ \/ t.items[Probe(t, k, Min(Stops(t, k)))] = NULL
         \/ Match(t, k, Probe(t, k, Min(Stops(t, k))))
  BY <1>3, <1>4 DEF Stops
<1>6. InsertSlot(t, k) = Probe(t, k, Min(Stops(t, k)))
  BY <1>3 DEF InsertSlot
<1> QED
  BY <1>5, <1>6, ProbeIn

\* An array larger than the number of nodes it may hold has a hole.
LEMMA HoleExists ==
    ASSUME NEW t, Probed(t), NEW N \in SUBSET Nodes, Cardinality(N) < t.size,
           \A j \in 0 .. t.size - 1 :
               t.items[j] # NULL => t.items[j] \in N /\ t.node[t.items[j]].index = j
    PROVE  \E j \in 0 .. t.size - 1 : t.items[j] = NULL
<1> SUFFICES ASSUME \A j \in 0 .. t.size - 1 : t.items[j] # NULL PROVE FALSE
  OBVIOUS
<1> DEFINE S == 0 .. t.size - 1
           f == t.items
<1>1. f \in [S -> N]
  BY DEF Probed
<1>2. IsFiniteSet(S) /\ Cardinality(S) = t.size
  BY FS_Interval DEF Probed
<1>3. IsFiniteSet(N) /\ Cardinality(N) < Cardinality(S)
  BY <1>2, LiveFinite
<1>4. \A i, j \in S : f[i] = f[j] => i = j
  BY DEF Probed
<1> HIDE DEF S, f
<1> QED
  BY <1>1, <1>2, <1>3, <1>4, FS_PigeonHole

-----------------------------------------------------------------------------
(* ht_resize                                                               *)

Partial(size) ==
    [items : [0 .. size - 1 -> Nodes \cup {NULL}], size : {size}, node : [Nodes -> Node],
     ok : {TRUE}]

\* u holds the same keys, values and links as t in the nodes of N.
SameContent(t, u, N) ==
    \A n \in N : /\ u.node[n].key = t.node[n].key /\ u.node[n].ptr = t.node[n].ptr
                 /\ u.node[n].prev = t.node[n].prev /\ u.node[n].next = t.node[n].next

\* The new table r after the first i slots of t were moved.
MoveInv(t, r, i) ==
    /\ r \in Partial(2 * t.size)
    /\ SameContent(t, r, Nodes)
    /\ \A j \in 0 .. r.size - 1 :
         r.items[j] # NULL => /\ r.items[j] \in LiveNodes(t) /\ t.node[r.items[j]].index < i
                              /\ r.node[r.items[j]].index = j
    /\ \A n \in LiveNodes(t) :
         t.node[n].index < i => /\ r.node[n].index \in 0 .. r.size - 1
                                /\ r.items[r.node[n].index] = n

MoveFirst(t) == [items |-> [j \in 0 .. 2 * t.size - 1 |-> NULL], size |-> 2 * t.size,
                 node |-> t.node, ok |-> TRUE]
MoveNext(t, r, n) == IF ~r.ok \/ n = NULL THEN r ELSE Placed(r, t.node[n].key, n)

\* The loop of ht_resize is the recursive function of its steps.
LEMMA MovesExists ==
    ASSUME NEW t, NEW N \in Nat
    PROVE  \E f : f = [i \in 0 .. N |-> IF i = 0 THEN MoveFirst(t)
                                      ELSE MoveNext(t, f[i - 1], t.items[i - 1])]
<1> DEFINE Body(f, n) == [i \in 0 .. n |-> IF i = 0 THEN MoveFirst(t)
                                          ELSE MoveNext(t, f[i - 1], t.items[i - 1])]
           S == {n \in Nat : \E f : f = Body(f, n)}
<1>1. 0 \in S
  <2> DEFINE f == [i \in 0 .. 0 |-> MoveFirst(t)]
  <2>1. f = Body(f, 0)
    OBVIOUS
  <2> QED
    BY <2>1
<1>2. ASSUME NEW n \in Nat, n \in S PROVE n + 1 \in S
  <2>1. PICK f : f = Body(f, n)
    BY <1>2
  <2> DEFINE last == MoveNext(t, f[n], t.items[n])
             g == [i \in 0 .. n + 1 |-> IF i = n + 1 THEN last ELSE f[i]]
  <2>2. ASSUME NEW i \in 0 .. n + 1
        PROVE  g[i] = IF i = 0 THEN MoveFirst(t) ELSE MoveNext(t, g[i - 1], t.items[i - 1])
    <3>1. CASE i = n + 1
      <4>1. g[n] = f[n] /\ i # 0 /\ i - 1 = n /\ g[i] = last
        BY <3>1
      <4> HIDE DEF g
      <4> QED
        BY <4>1
    <3>2. CASE i # n + 1
      <4>1. i \in 0 .. n /\ (i # 0 => i - 1 \in 0 .. n)
        BY <3>2
      <4>2. g[i] = f[i] /\ (i # 0 => g[i - 1] = f[i - 1])
        BY <4>1
      <4>3. f[i] = IF i = 0 THEN MoveFirst(t) ELSE MoveNext(t, f[i - 1], t.items[i - 1])
        BY <2>1, <4>1
      <4> HIDE DEF g
      <4> QED
        BY <4>2, <4>3
    <3> QED
      BY <3>1, <3>2
  <2>3. g = Body(g, n + 1)
    BY <2>2
  <2> HIDE DEF g
  <2> QED
    BY <2>3
<1> HIDE DEF S
<1>3. Nat \subseteq S
  BY <1>1, <1>2, SetInduction
<1> QED
  BY <1>3 DEF S

LEMMA MovesIs ==
    ASSUME NEW t, t.size \in Nat
    PROVE  /\ Moves(t)[0] = MoveFirst(t)
           /\ \A i \in 1 .. t.size :
                Moves(t)[i] = MoveNext(t, Moves(t)[i - 1], t.items[i - 1])
<1> DEFINE Body(f) == [i \in 0 .. t.size |-> IF i = 0 THEN MoveFirst(t)
                                           ELSE MoveNext(t, f[i - 1], t.items[i - 1])]
<1>1. \E f : f = Body(f)
  BY MovesExists
<1>2. Moves(t) = CHOOSE f : f = Body(f)
  BY DEF Moves, MoveFirst, MoveNext
<1>3. Moves(t) = Body(Moves(t))
  BY <1>1, <1>2
<1> QED
  BY <1>3

\* The first step of the loop: the new array is empty.
LEMMA MoveStarts ==
    ASSUME NEW t, TableInv(t) PROVE MoveInv(t, MoveFirst(t), 0)
<1>1. 2 * t.size \in Nat /\ t.node \in [Nodes -> Node]
  BY DEF TableInv, Table
<1>2. MoveFirst(t) \in Partial(2 * t.size)
  BY <1>1 DEF MoveFirst, Partial
<1>3. SameContent(t, MoveFirst(t), Nodes)
  BY DEF SameContent, MoveFirst
<1>4. \A j \in 0 .. MoveFirst(t).size - 1 : MoveFirst(t).items[j] = NULL
  BY DEF MoveFirst
<1>5. \A n \in LiveNodes(t) : ~(t.node[n].index < 0)
  BY <1>1 DEF Node, LiveNodes
<1> QED
  BY <1>2, <1>3, <1>4, <1>5 DEF MoveInv

\* ht_resize_insert finds a hole for every node: no key is met twice.
LEMMA MovePlaces ==
    ASSUME NEW t, TableInv(t), NEW i \in 0 .. t.size - 1, NEW r, MoveInv(t, r, i),
           NEW n \in Nodes, t.items[i] = n
    PROVE  MoveInv(t, Placed(r, t.node[n].key, n), i + 1)
<1> DEFINE k == t.node[n].key
           slot == InsertSlot(r, k)
           u == Placed(r, k, n)
<1>1. n \in LiveNodes(t) /\ t.node[n].index = i /\ k \in Keys
  BY NullNode DEF TableInv, SlotsExact, LiveNodes, Live, Table, Node
<1>2. /\ r.size = 2 * t.size /\ r.size \in Nat \ {0} /\ r.ok = TRUE
      /\ r.items \in [0 .. r.size - 1 -> Nodes \cup {NULL}] /\ r.node \in [Nodes -> Node]
  <2>1. r \in Partial(2 * t.size) /\ t.size \in Nat \ {0}
    BY DEF MoveInv, TableInv
  <2>2. /\ r.size = 2 * t.size /\ r.ok = TRUE /\ r.node \in [Nodes -> Node]
        /\ r.items \in [0 .. 2 * t.size - 1 -> Nodes \cup {NULL}]
    BY <2>1 DEF Partial
  <2> QED
    BY <2>1, <2>2
<1>3. Probed(r)
  BY <1>2 DEF Probed
<1>4. Cardinality(LiveNodes(t)) < r.size
  BY <1>2 DEF TableInv, Table
<1>5. \E j \in 0 .. r.size - 1 : r.items[j] = NULL
  BY <1>3, <1>4, HoleExists DEF MoveInv, LiveNodes
<1>6. slot \in 0 .. r.size - 1 /\ (r.items[slot] = NULL \/ Match(r, k, slot))
  BY <1>1, <1>3, <1>5, InsertSlotIs
<1>7. r.items[slot] = NULL
  <2> SUFFICES ASSUME r.items[slot] # NULL PROVE FALSE
    OBVIOUS
  <2>1. r.items[slot] \in LiveNodes(t) /\ t.node[r.items[slot]].index < i
    BY <1>6 DEF MoveInv
  <2>2. t.node[r.items[slot]].key = k
    BY <1>6, <2>1 DEF Match, MoveInv, SameContent, LiveNodes
  <2>3. r.items[slot] = n
    BY <1>1, <2>1, <2>2 DEF TableInv, KeysOnce
  <2> QED
    BY <1>1, <2>1, <2>3
<1>8. u = [r EXCEPT !.items[slot] = n, !.node[n].index = slot]
  BY <1>7 DEF Placed
<1> HIDE DEF slot, u, k
<1>9. slot \in Nat
  BY <1>6, <1>2
<1>10. /\ u \in Partial(2 * t.size) /\ u.size = r.size
       /\ u.items = [r.items EXCEPT ![slot] = n]
       /\ u.node = [r.node EXCEPT ![n].index = slot]
  <2>1. r \in Partial(2 * t.size)
    BY DEF MoveInv
  <2>2. [r.items EXCEPT ![slot] = n] \in [0 .. r.size - 1 -> Nodes \cup {NULL}]
    BY <1>2, <1>6
  <2>3. [r.node EXCEPT ![n].index = slot] \in [Nodes -> Node]
    BY <1>2, <1>9 DEF Node
  <2> QED
    BY <1>2, <1>8, <2>1, <2>2, <2>3 DEF Partial
<1>11. /\ u.items[slot] = n /\ u.node[n].index = slot
       /\ \A j \in 0 .. r.size - 1 : j # slot => u.items[j] = r.items[j]
       /\ \A m \in Nodes : m # n => u.node[m] = r.node[m]
       /\ u.node[n].key = r.node[n].key /\ u.node[n].ptr = r.node[n].ptr
       /\ u.node[n].prev = r.node[n].prev /\ u.node[n].next = r.node[n].next
  BY <1>2, <1>6, <1>10 DEF Node
<1>12. SameContent(t, u, Nodes)
  BY <1>11 DEF MoveInv, SameContent
<1>13. ASSUME NEW j \in 0 .. u.size - 1, u.items[j] # NULL
       PROVE  /\ u.items[j] \in LiveNodes(t) /\ t.node[u.items[j]].index < i + 1
              /\ u.node[u.items[j]].index = j
  <2>1. CASE j = slot
    BY <1>1, <1>11, <2>1
  <2>2. CASE j # slot
    <3>1. u.items[j] = r.items[j] /\ j \in 0 .. r.size - 1
      BY <1>10, <1>11, <2>2
    <3>2. /\ r.items[j] \in LiveNodes(t) /\ t.node[r.items[j]].index < i
          /\ r.node[r.items[j]].index = j
      BY <1>13, <3>1 DEF MoveInv
    <3>3. t.node[r.items[j]].index \in Nat
      BY <3>2 DEF LiveNodes, TableInv, Table, Node
    <3>4. r.items[j] # n
      BY <1>1, <3>2, <3>3
    <3> QED
      BY <1>11, <3>1, <3>2, <3>3, <3>4 DEF LiveNodes
  <2> QED
    BY <2>1, <2>2
<1>14. ASSUME NEW m \in LiveNodes(t), t.node[m].index < i + 1
       PROVE  u.node[m].index \in 0 .. u.size - 1 /\ u.items[u.node[m].index] = m
  <2>1. CASE m = n
    BY <1>6, <1>10, <1>11, <2>1
  <2>2. CASE m # n
    <3>1. t.node[m].index # i
      BY <1>1, <2>2 DEF TableInv, IndexesExact
    <3>2. t.node[m].index < i
      BY <1>14, <3>1 DEF LiveNodes, TableInv, Table, Node
    <3>3. r.node[m].index \in 0 .. r.size - 1 /\ r.items[r.node[m].index] = m
      BY <3>2 DEF MoveInv
    <3>4. u.node[m] = r.node[m]
      BY <1>11, <2>2 DEF LiveNodes
    <3>5. r.node[m].index # slot
      BY <1>7, <3>3, NullNode DEF LiveNodes, slot, k
    <3> QED
      BY <1>10, <1>11, <3>3, <3>4, <3>5
  <2> QED
    BY <2>1, <2>2
<1>15. MoveInv(t, u, i + 1)
  BY <1>10, <1>12, <1>13, <1>14 DEF MoveInv
<1> QED
  BY <1>15 DEF u, k

\* Every node that was in the old array is in the new one.
LEMMA MoveEnds ==
    ASSUME NEW t, TableInv(t) PROVE MoveInv(t, Moved(t), t.size)
<1> DEFINE S == {i \in Nat : i <= t.size => MoveInv(t, Moves(t)[i], i)}
<1>1. 0 \in S
  BY MovesIs, MoveStarts DEF TableInv
<1>2. ASSUME NEW i \in Nat, i \in S PROVE i + 1 \in S
  <2> SUFFICES ASSUME i + 1 <= t.size PROVE MoveInv(t, Moves(t)[i + 1], i + 1)
    OBVIOUS
  <2> DEFINE r == Moves(t)[i]
             n == t.items[i]
  <2>1. t.size \in Nat /\ i \in 0 .. t.size - 1 /\ i + 1 \in 1 .. t.size /\ (i + 1) - 1 = i
    BY DEF TableInv
  <2>2. MoveInv(t, r, i) /\ Moves(t)[i + 1] = MoveNext(t, r, n)
    BY <1>2, <2>1, MovesIs
  <2>3. r.ok = TRUE /\ n \in Nodes \cup {NULL}
    BY <2>1, <2>2 DEF MoveInv, Partial, TableInv, Table
  <2> HIDE DEF r
  <2>4. CASE n = NULL
    <3>1. MoveNext(t, r, n) = r
      BY <2>4 DEF MoveNext
    <3>2. \A m \in LiveNodes(t) : t.node[m].index \in Nat /\ t.node[m].index # i
      BY <2>4, NullNode DEF LiveNodes, TableInv, IndexesExact, Table, Node
    <3>3. MoveInv(t, r, i + 1)
      <4>1. \A m \in LiveNodes(t) : t.node[m].index < i + 1 <=> t.node[m].index < i
        BY <3>2
      <4> QED
        BY <2>2, <4>1 DEF MoveInv
    <3> QED
      BY <2>2, <3>1, <3>3
  <2>5. CASE n # NULL
    <3>1. MoveNext(t, r, n) = Placed(r, t.node[n].key, n)
      BY <2>3, <2>5 DEF MoveNext
    <3> QED
      BY <2>1, <2>2, <2>3, <2>5, <3>1, MovePlaces
  <2> QED
    BY <2>4, <2>5
<1> HIDE DEF S
<1>3. Nat \subseteq S
  BY <1>1, <1>2, SetInduction
<1>4. t.size \in S
  BY <1>3 DEF TableInv
<1> QED
  BY <1>4 DEF S, Moved, TableInv

\* What ht_resize changes: the array and the indexes.
SameTable(t, u) ==
    /\ SameContent(t, u, Nodes)
    /\ u.head = t.head /\ u.tail = t.tail /\ u.count = t.count /\ u.fault = t.fault

LEMMA SameLive ==
    ASSUME NEW t, NEW u, SameTable(t, u)
    PROVE  LiveNodes(u) = LiveNodes(t) /\ FreeNodes(u) = FreeNodes(t)
<1>1. LiveNodes(u) = LiveNodes(t)
  BY DEF SameTable, SameContent, LiveNodes, Live
<1>2. /\ \A n \in Nodes : Live(u, n) <=> Live(t, n)
      /\ \A n \in Nodes : u.node[n].prev = t.node[n].prev /\ u.node[n].next = t.node[n].next
      /\ u.head = t.head /\ u.tail = t.tail
  BY DEF SameTable, SameContent, Live
<1>3. UNION {{u.node[n].prev, u.node[n].next} : n \in {m \in Nodes : Live(u, m)}} =
      UNION {{t.node[n].prev, t.node[n].next} : n \in {m \in Nodes : Live(t, m)}}
  BY <1>2
<1> QED
  BY <1>1, <1>2, <1>3 DEF FreeNodes

\* ht_resize loses no node and keeps every key, value and link.
LEMMA ResizeKeeps ==
    ASSUME NEW t, TableInv(t)
    PROVE  LET r == Resized(t)
           IN  /\ TableInv(r.table) /\ SameTable(t, r.table)
               /\ r.ok => r.table.size = 2 * t.size
<1>1. CASE 2 * t.size > MaxSize
  <2>1. Resized(t) = [ok |-> FALSE, table |-> t]
    BY <1>1 DEF Resized
  <2> QED
    BY <2>1 DEF SameTable, SameContent
<1>2. CASE ~(2 * t.size > MaxSize)
  <2> DEFINE r == Moved(t)
             u == [t EXCEPT !.items = r.items, !.size = r.size, !.node = r.node]
  <2>1. MoveInv(t, r, t.size) /\ t.size \in Nat \ {0} /\ t \in Table(t.size)
    BY MoveEnds DEF TableInv
  <2>2. r \in Partial(2 * t.size)
    BY <2>1 DEF MoveInv
  <2>3. /\ r.size = 2 * t.size /\ r.ok = TRUE /\ r.node \in [Nodes -> Node]
        /\ r.items \in [0 .. 2 * t.size - 1 -> Nodes \cup {NULL}]
    BY <2>2 DEF Partial
  <2> HIDE DEF r
  <2>4. Resized(t) = [ok |-> TRUE, table |-> u]
    BY <1>2, <2>3 DEF Resized, r
  <2>5. /\ u \in Table(2 * t.size) /\ u.size = 2 * t.size /\ u.items = r.items
        /\ u.node = r.node /\ u.head = t.head /\ u.tail = t.tail /\ u.count = t.count
        /\ u.fault = t.fault
    BY <2>1, <2>3 DEF Table
  <2> HIDE DEF u
  <2>6. SameTable(t, u)
    BY <2>1, <2>5 DEF SameTable, SameContent, MoveInv
  <2>7. LiveNodes(u) = LiveNodes(t)
    BY <2>6, SameLive
  <2>8. SlotsExact(u)
    BY <2>1, <2>3, <2>5, <2>7 DEF SlotsExact, MoveInv, LiveNodes
  <2>9. IndexesExact(u)
    <3>1. \A n \in LiveNodes(t) : t.node[n].index < t.size
      BY <2>1 DEF TableInv, IndexesExact
    <3> QED
      BY <2>1, <2>3, <2>5, <2>7, <3>1 DEF IndexesExact, MoveInv
  <2>10. KeysOnce(u)
    BY <2>6, <2>7 DEF KeysOnce, TableInv, SameTable, SameContent, LiveNodes
  <2>11. u.count = Cardinality(LiveNodes(u)) /\ u.count <= u.size \div 2
    BY <2>1, <2>5, <2>7 DEF TableInv, Table
  <2>12. TableInv(u)
    BY <2>1, <2>5, <2>8, <2>9, <2>10, <2>11 DEF TableInv
  <2> QED
    BY <2>4, <2>5, <2>6, <2>12
<1> QED
  BY <1>1, <1>2

-----------------------------------------------------------------------------
(* ht_create, ht_insert and ht_delete_entry                                *)

LEMMA CreateInv == TableInv(Create) /\ LiveNodes(Create) = {}
<1>1. Create \in Table(InitSize) /\ Create.size = InitSize /\ InitSize \in Nat \ {0}
  <2> DEFINE items == [j \in 0 .. InitSize - 1 |-> NULL]
             node == [n \in Nodes |-> Free]
  <2>1. items \in [0 .. InitSize - 1 -> Nodes \cup {NULL}]
    OBVIOUS
  <2>2. node \in [Nodes -> Node]
    BY DEF Free, Node
  <2>3. Create = [items |-> items, size |-> InitSize, count |-> 0, head |-> NULL,
                  tail |-> NULL, node |-> node, fault |-> "none"]
    BY DEF Create
  <2> HIDE DEF items, node
  <2>4. Create.size = InitSize /\ InitSize \in Nat \ {0}
    BY <2>3, TableSizeAssumption
  <2> QED
    BY <2>1, <2>2, <2>3, <2>4 DEF Table, Faults
<1>2. \A n \in Nodes : ~Live(Create, n)
  BY DEF Create, Live, Free
<1>3. LiveNodes(Create) = {}
  BY <1>2 DEF LiveNodes
<1>4. SlotsExact(Create) /\ IndexesExact(Create) /\ KeysOnce(Create)
  BY <1>3 DEF SlotsExact, IndexesExact, KeysOnce, Create
<1>5. Create.count = Cardinality(LiveNodes(Create)) /\ Create.count <= Create.size \div 2
  <2>1. Create.count = 0 /\ Cardinality({}) = 0
    BY FS_EmptySet DEF Create
  <2> QED
    BY <1>1, <1>3, <2>1
<1> QED
  BY <1>1, <1>3, <1>4, <1>5 DEF TableInv

\* A key is found when one of the nodes has it, and then that node is.
LEMMA FoundLive ==
    ASSUME NEW t, TableInv(t), NEW k \in Keys
    PROVE  /\ Found(t, k) <=> \E n \in LiveNodes(t) : t.node[n].key = k
           /\ Found(t, k) => /\ HitSlot(t, k) \in 0 .. t.size - 1
                             /\ HitNode(t, k) \in LiveNodes(t)
                             /\ t.node[HitNode(t, k)].key = k
                             /\ t.node[HitNode(t, k)].index = HitSlot(t, k)
<1>1. Probed(t)
  BY DEF TableInv, Probed, Table
<1>2. ASSUME NEW j \in 0 .. t.size - 1, Match(t, k, j)
      PROVE  t.items[j] \in LiveNodes(t) /\ t.node[t.items[j]].key = k
             /\ t.node[t.items[j]].index = j
  <2>1. t.items[j] \in Nodes
    BY <1>1, <1>2 DEF Match, Probed
  <2> QED
    BY <1>2, <2>1 DEF Match, LiveNodes, TableInv, SlotsExact
<1>3. ASSUME NEW n \in LiveNodes(t), t.node[n].key = k
      PROVE  \E j \in 0 .. t.size - 1 : Match(t, k, j)
  <2>1. t.node[n].index \in 0 .. t.size - 1 /\ t.items[t.node[n].index] = n
    BY DEF TableInv, IndexesExact
  <2> QED
    BY <1>3, <2>1, NullNode DEF Match, LiveNodes
<1> QED
  BY <1>1, <1>2, <1>3, FoundIff, HitSlotIs DEF HitNode

\* u is t with one more node n, for key k.
Added(t, u, n, k, v) ==
    /\ n \in Nodes \ LiveNodes(t) /\ LiveNodes(u) = LiveNodes(t) \cup {n}
    /\ SameContent(t, u, Nodes \ {n})
    /\ u.node[n].key = k /\ u.node[n].ptr = v
    /\ u.node[n].prev = NULL /\ u.node[n].next = NULL
    /\ u.head = t.head /\ u.tail = t.tail /\ u.count = t.count + 1 /\ u.fault = t.fault

\* A key that no node has gets a node of its own, or there is no memory.
LEMMA PutKeeps ==
    ASSUME NEW t, TableInv(t), t.count + 1 <= t.size \div 2, NEW k \in Keys, NEW v \in Values,
           ~Found(t, k)
    PROVE  LET r == Put(t, k, v)
           IN  /\ TableInv(r.table)
               /\ \/ r.result = -1 /\ SameTable(t, r.table)
                  \/ /\ r.result = 0 /\ r.overridden = NULL /\ r.entry \in FreeNodes(t)
                     /\ Added(t, r.table, r.entry, k, v)
<1> DEFINE slot == InsertSlot(t, k)
           free == FreeNodes(t)
           new == Min(free)
           fresh == [key |-> k, ptr |-> v, prev |-> NULL, next |-> NULL, index |-> slot]
           u == [t EXCEPT !.items[slot] = new, !.count = @ + 1, !.node[new] = fresh]
<1>1. /\ t \in Table(t.size) /\ t.size \in Nat \ {0} /\ Probed(t)
      /\ t.items \in [0 .. t.size - 1 -> Nodes \cup {NULL}] /\ t.node \in [Nodes -> Node]
      /\ t.count \in Nat /\ t.count < t.size
  BY DEF TableInv, Table, Probed
<1>2. \E j \in 0 .. t.size - 1 : t.items[j] = NULL
  <2>1. \A j \in 0 .. t.size - 1 :
          t.items[j] # NULL => t.items[j] \in LiveNodes(t) /\ t.node[t.items[j]].index = j
    BY <1>1 DEF TableInv, SlotsExact, LiveNodes
  <2>2. LiveNodes(t) \in SUBSET Nodes /\ Cardinality(LiveNodes(t)) < t.size
    BY <1>1 DEF LiveNodes, TableInv
  <2> QED
    BY <1>1, <2>1, <2>2, HoleExists
<1>3. slot \in 0 .. t.size - 1 /\ t.items[slot] = NULL
  BY <1>1, <1>2, InsertSlotIs, FoundIff
<1> HIDE DEF slot
<1>4. CASE free = {}
  <2>1. Put(t, k, v) = Failed([t EXCEPT !.items[slot] = NULL])
    BY <1>3, <1>4 DEF Put, slot
  <2>2. [t EXCEPT !.items[slot] = NULL] = t
    <3>1. [t.items EXCEPT ![slot] = NULL] = t.items
      BY <1>1, <1>3
    <3> QED
      BY <1>1, <3>1 DEF Table
  <2> QED
    BY <2>1, <2>2 DEF Failed, SameTable, SameContent
<1>5. CASE free # {}
  <2>1. new \in free /\ new \in Nodes /\ new \notin LiveNodes(t)
    <3>1. free \in SUBSET Nodes /\ free \in SUBSET Nat
      BY DEF FreeNodes, Nodes
    <3>2. new \in free
      BY <1>5, <3>1, MinIs
    <3> QED
      BY <3>1, <3>2 DEF FreeNodes, LiveNodes
  <2> HIDE DEF new, free
  <2>2. Put(t, k, v) = [table |-> u, result |-> 0, entry |-> new, overridden |-> NULL]
    BY <1>3, <1>5 DEF Put, slot, new, free
  <2>3. fresh \in Node
    BY <1>1, <1>3 DEF Node
  <2>4. /\ fresh.key = k /\ fresh.ptr = v /\ fresh.prev = NULL /\ fresh.next = NULL
        /\ fresh.index = slot
    OBVIOUS
  <2> HIDE DEF fresh
  <2>5. /\ u \in Table(t.size) /\ u.size = t.size /\ u.count = t.count + 1
        /\ u.head = t.head /\ u.tail = t.tail /\ u.fault = t.fault
        /\ u.items = [t.items EXCEPT ![slot] = new]
        /\ u.node = [t.node EXCEPT ![new] = fresh]
    <3>1. [t.items EXCEPT ![slot] = new] \in [0 .. t.size - 1 -> Nodes \cup {NULL}]
      BY <1>1, <1>3, <2>1
    <3>2. [t.node EXCEPT ![new] = fresh] \in [Nodes -> Node]
      BY <1>1, <2>1, <2>3
    <3>3. t.count + 1 \in Nat
      BY <1>1
    <3> QED
      BY <1>1, <3>1, <3>2, <3>3 DEF Table
  <2> HIDE DEF u
  <2>6. /\ u.node[new] = fresh /\ \A n \in Nodes : n # new => u.node[n] = t.node[n]
        /\ u.items[slot] = new
        /\ \A j \in 0 .. t.size - 1 : j # slot => u.items[j] = t.items[j]
    BY <1>1, <1>3, <2>1, <2>5
  <2>7. LiveNodes(u) = LiveNodes(t) \cup {new}
    BY <2>1, <2>4, <2>6, NullNode DEF LiveNodes, Live
  <2>8. SlotsExact(u)
    <3> SUFFICES ASSUME NEW j \in 0 .. t.size - 1, u.items[j] # NULL
                 PROVE  Live(u, u.items[j]) /\ u.node[u.items[j]].index = j
      BY <2>5 DEF SlotsExact
    <3>1. CASE j = slot
      BY <2>4, <2>6, <3>1, NullNode DEF Live
    <3>2. CASE j # slot
      <4>1. u.items[j] = t.items[j] /\ t.items[j] \in LiveNodes(t)
            /\ t.node[t.items[j]].index = j
        BY <1>1, <2>6, <3>2 DEF TableInv, SlotsExact, LiveNodes
      <4> QED
        BY <2>1, <2>6, <4>1 DEF LiveNodes, Live
    <3> QED
      BY <3>1, <3>2
  <2>9. IndexesExact(u)
    <3> SUFFICES ASSUME NEW n \in LiveNodes(u)
                 PROVE  u.node[n].index \in 0 .. t.size - 1 /\ u.items[u.node[n].index] = n
      BY <2>5 DEF IndexesExact
    <3>1. CASE n = new
      BY <1>3, <2>4, <2>6, <3>1
    <3>2. CASE n # new
      <4>1. n \in LiveNodes(t) /\ u.node[n] = t.node[n]
        BY <2>6, <2>7, <3>2 DEF LiveNodes
      <4>2. t.node[n].index \in 0 .. t.size - 1 /\ t.items[t.node[n].index] = n
        BY <4>1 DEF TableInv, IndexesExact
      <4>3. t.node[n].index # slot
        BY <1>3, <4>1, <4>2, NullNode DEF LiveNodes
      <4> QED
        BY <2>6, <4>1, <4>2, <4>3
    <3> QED
      BY <3>1, <3>2
  <2>10. KeysOnce(u)
    <3>1. \A n \in LiveNodes(t) : t.node[n].key # k
      BY FoundLive
    <3>2. \A n \in LiveNodes(t) : u.node[n] = t.node[n] /\ n # new
      BY <2>1, <2>6 DEF LiveNodes
    <3> QED
      BY <2>4, <2>6, <2>7, <3>1, <3>2 DEF KeysOnce, TableInv
  <2>11. u.count = Cardinality(LiveNodes(u))
    <3>1. IsFiniteSet(LiveNodes(t)) /\ t.count = Cardinality(LiveNodes(t))
      BY LiveFinite DEF TableInv, LiveNodes
    <3> QED
      BY <2>1, <2>5, <2>7, <3>1, FS_AddElement
  <2>12. TableInv(u)
    BY <1>1, <2>5, <2>8, <2>9, <2>10, <2>11 DEF TableInv
  <2>13. Added(t, u, new, k, v)
    BY <2>1, <2>4, <2>5, <2>6, <2>7 DEF Added, SameContent
  <2> QED
    BY <2>1, <2>2, <2>12, <2>13 DEF free
<1> QED
  BY <1>4, <1>5

\* A request for a key that is not there adds its node, after a resize or not,
\* and a refused one loses nothing.
LEMMA InsertKeeps ==
    ASSUME NEW t, TableInv(t), NEW k \in Keys, NEW v \in Values, ~Found(t, k)
    PROVE  LET r == HtInsert(t, k, v)
           IN  /\ TableInv(r.table)
               /\ \/ r.result = -1 /\ SameTable(t, r.table)
                  \/ /\ r.result = 0 /\ r.overridden = NULL /\ r.entry \in FreeNodes(t)
                     /\ Added(t, r.table, r.entry, k, v)
<1>1. t.size \in Nat \ {0} /\ t.count \in Nat /\ t.count <= t.size \div 2
  BY DEF TableInv, Table
<1>2. CASE ~Grows(t)
  <2>1. t.count + 1 <= t.size \div 2
    BY <1>1, <1>2 DEF Grows
  <2>2. HtInsert(t, k, v) = Put(t, k, v)
    BY <1>2 DEF HtInsert
  <2> QED
    BY <2>1, <2>2, PutKeeps
<1>3. CASE Grows(t)
  <2> DEFINE u == Resized(t).table
  <2>1. TableInv(u) /\ SameTable(t, u) /\ (Resized(t).ok => u.size = 2 * t.size)
    BY ResizeKeeps
  <2>2. CASE ~Resized(t).ok
    BY <1>3, <2>1, <2>2 DEF HtInsert, Failed
  <2>3. CASE Resized(t).ok
    <3>1. HtInsert(t, k, v) = Put(u, k, v)
      BY <1>3, <2>3 DEF HtInsert
    <3> HIDE DEF u
    <3>2. u.count + 1 <= u.size \div 2
      BY <1>1, <2>1, <2>3 DEF SameTable, u
    <3>3. LiveNodes(u) = LiveNodes(t) /\ FreeNodes(u) = FreeNodes(t)
      BY <2>1, SameLive
    <3>4. ~Found(u, k)
      BY <2>1, <3>3, FoundLive DEF SameTable, SameContent, LiveNodes
    <3> DEFINE r == Put(u, k, v)
    <3>5. /\ TableInv(r.table)
          /\ \/ r.result = -1 /\ SameTable(u, r.table)
             \/ /\ r.result = 0 /\ r.overridden = NULL /\ r.entry \in FreeNodes(u)
                /\ Added(u, r.table, r.entry, k, v)
      BY <2>1, <3>2, <3>4, PutKeeps
    <3> HIDE DEF r
    <3>6. ASSUME SameTable(u, r.table) PROVE SameTable(t, r.table)
      BY <2>1, <3>6 DEF SameTable, SameContent
    <3>7. ASSUME Added(u, r.table, r.entry, k, v) PROVE Added(t, r.table, r.entry, k, v)
      BY <2>1, <3>3, <3>7 DEF SameTable, SameContent, Added
    <3> QED
      BY <3>1, <3>3, <3>5, <3>6, <3>7 DEF r
  <2> QED
    BY <2>2, <2>3
<1> QED
  BY <1>2, <1>3

\* ht_delete_entry through the index of a node frees that node.
LEMMA DeleteKeeps ==
    ASSUME NEW t, TableInv(t), NEW n \in LiveNodes(t), NEW j, j = t.node[n].index
    PROVE  LET u == Deleted(t, j).table
           IN  /\ TableInv(u) /\ LiveNodes(u) = LiveNodes(t) \ {n}
               /\ \A m \in Nodes \ {n} : u.node[m] = t.node[m]
               /\ u.head = t.head /\ u.tail = t.tail /\ u.fault = t.fault
               /\ u.count = t.count - 1 /\ u.node[n] = Free /\ u.size = t.size
               /\ Deleted(t, j).value = t.node[n].ptr
<1> DEFINE u == [t EXCEPT !.items[j] = NULL, !.count = @ - 1, !.node[n] = Free]
<1>1. /\ t \in Table(t.size) /\ t.size \in Nat \ {0} /\ t.count \in Nat
      /\ t.items \in [0 .. t.size - 1 -> Nodes \cup {NULL}] /\ t.node \in [Nodes -> Node]
      /\ j \in 0 .. t.size - 1 /\ t.items[j] = n /\ n \in Nodes /\ n # NULL
  BY NullNode DEF TableInv, Table, IndexesExact, LiveNodes
<1>2. Deleted(t, j) = [table |-> u, value |-> t.node[n].ptr]
  BY <1>1 DEF Deleted
<1>3. IsFiniteSet(LiveNodes(t)) /\ t.count = Cardinality(LiveNodes(t))
  BY LiveFinite DEF LiveNodes, TableInv
<1>4. Cardinality(LiveNodes(t) \ {n}) = t.count - 1 /\ t.count - 1 \in Nat
  <2>1. Cardinality(LiveNodes(t) \ {n}) = t.count - 1
    BY <1>3, FS_RemoveElement
  <2>2. Cardinality(LiveNodes(t) \ {n}) \in Nat
    BY LiveFinite DEF LiveNodes
  <2> QED
    BY <2>1, <2>2
<1>5. Free \in Node /\ Free.key = NULL
  BY DEF Free, Node
<1>6. /\ u \in Table(t.size) /\ u.size = t.size /\ u.count = t.count - 1
      /\ u.head = t.head /\ u.tail = t.tail /\ u.fault = t.fault
      /\ u.items = [t.items EXCEPT ![j] = NULL]
      /\ u.node = [t.node EXCEPT ![n] = Free]
  <2>1. [t.items EXCEPT ![j] = NULL] \in [0 .. t.size - 1 -> Nodes \cup {NULL}]
    BY <1>1
  <2>2. [t.node EXCEPT ![n] = Free] \in [Nodes -> Node]
    BY <1>1, <1>5
  <2> QED
    BY <1>1, <1>4, <2>1, <2>2 DEF Table
<1> HIDE DEF u
<1>7. /\ u.node[n] = Free /\ \A m \in Nodes : m # n => u.node[m] = t.node[m]
      /\ u.items[j] = NULL
      /\ \A i \in 0 .. t.size - 1 : i # j => u.items[i] = t.items[i]
  BY <1>1, <1>6
<1>8. LiveNodes(u) = LiveNodes(t) \ {n}
  BY <1>5, <1>7 DEF LiveNodes, Live
<1>9. SlotsExact(u)
  <2> SUFFICES ASSUME NEW i \in 0 .. t.size - 1, u.items[i] # NULL
               PROVE  Live(u, u.items[i]) /\ u.node[u.items[i]].index = i
    BY <1>6 DEF SlotsExact
  <2>1. i # j /\ u.items[i] = t.items[i]
    BY <1>7
  <2>2. Live(t, t.items[i]) /\ t.node[t.items[i]].index = i /\ t.items[i] \in Nodes
    BY <1>1, <2>1 DEF TableInv, SlotsExact
  <2>3. t.items[i] # n
    BY <2>1, <2>2
  <2> QED
    BY <1>7, <2>1, <2>2, <2>3 DEF Live
<1>10. IndexesExact(u)
  <2> SUFFICES ASSUME NEW m \in LiveNodes(u)
               PROVE  u.node[m].index \in 0 .. t.size - 1 /\ u.items[u.node[m].index] = m
    BY <1>6 DEF IndexesExact
  <2>1. m \in LiveNodes(t) /\ m # n /\ u.node[m] = t.node[m]
    BY <1>7, <1>8 DEF LiveNodes
  <2>2. t.node[m].index \in 0 .. t.size - 1 /\ t.items[t.node[m].index] = m
    BY <2>1 DEF TableInv, IndexesExact
  <2> QED
    BY <1>1, <1>7, <2>1, <2>2
<1>11. KeysOnce(u)
  BY <1>7, <1>8 DEF KeysOnce, TableInv, LiveNodes
<1>12. u.count = Cardinality(LiveNodes(u)) /\ u.count <= u.size \div 2
  BY <1>1, <1>4, <1>6, <1>8 DEF TableInv
<1>13. TableInv(u)
  BY <1>1, <1>6, <1>9, <1>10, <1>11, <1>12 DEF TableInv
<1>14. Deleted(t, j).table = u /\ Deleted(t, j).value = t.node[n].ptr
  BY <1>2
<1> QED
  BY <1>6, <1>7, <1>8, <1>13, <1>14

\* ht_destroy meets every node in the slots.
LEMMA RestFree ==
    ASSUME NEW t, TableInv(t), NEW rest,
           rest = [n \in Nodes |->
                     IF \E j \in DOMAIN t.items : t.items[j] = n THEN Free ELSE t.node[n]]
    PROVE  rest \in [Nodes -> Node] /\ \A n \in Nodes : rest[n].key = NULL
<1>1. ASSUME NEW n \in Nodes PROVE rest[n] \in Node /\ rest[n].key = NULL
  <2>1. CASE \E j \in DOMAIN t.items : t.items[j] = n
    BY <2>1 DEF Free, Node
  <2>2. CASE ~\E j \in DOMAIN t.items : t.items[j] = n
    <3>1. rest[n] = t.node[n] /\ t.node[n] \in Node
      BY <2>2 DEF TableInv, Table
    <3>2. n \notin LiveNodes(t)
      BY <2>2 DEF TableInv, Table, IndexesExact
    <3> QED
      BY <3>1, <3>2 DEF LiveNodes, Live
  <2> QED
    BY <2>1, <2>2
<1> QED
  BY <1>1

\* A new table over memory without nodes.
LEMMA EmptyInv ==
    ASSUME NEW u, u \in Table(InitSize), u.items = Create.items, u.count = 0,
           \A n \in Nodes : u.node[n].key = NULL
    PROVE  TableInv(u) /\ LiveNodes(u) = {}
<1>1. LiveNodes(u) = {}
  BY DEF LiveNodes, Live
<1>2. u.size = InitSize /\ InitSize \in Nat \ {0}
  BY TableSizeAssumption DEF Table
<1>3. \A j \in 0 .. u.size - 1 : u.items[j] = NULL
  BY <1>2 DEF Create
<1>4. SlotsExact(u) /\ IndexesExact(u) /\ KeysOnce(u)
  BY <1>1, <1>3 DEF SlotsExact, IndexesExact, KeysOnce
<1>5. u.count = Cardinality(LiveNodes(u)) /\ u.count <= u.size \div 2
  BY <1>1, <1>2, FS_EmptySet
<1> QED
  BY <1>1, <1>2, <1>4, <1>5 DEF TableInv
=============================================================================
